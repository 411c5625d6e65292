--------------------------- MODULE BfrDaemonProofs ---------------------------
(***************************************************************************)
(* What BfrDaemon says of its queues and of the heads it elects, for every *)
(* grid, every number of packets and of join attempts.  First what Among   *)
(* gives, by induction over the length of a sequence, then the parts of    *)
(* the inductive invariant and a lemma for every kind of step.             *)
(***************************************************************************)
EXTENDS BfrDaemon, FiniteSetTheorems, SequenceTheorems, WellFoundedInduction, TLAPS


-----------------------------------------------------------------------------
(* Induction.                                                              *)

\* A set of numbers has a least one: the intervals below its elements are finite sets, among which one
\* is contained in no other.
LEMMA LeastOne ==
  ASSUME NEW S \in SUBSET Nat, S # {}
  PROVE  \E x \in S : \A y \in S : x <= y
<1> DEFINE Below(x) == 0..(x - 1)
           T == {Below(x) : x \in S}
<1>1. T \subseteq FiniteSubsetsOf(Nat) /\ T # {}
  <2>1. \A x \in S : Below(x) \subseteq Nat /\ IsFiniteSet(Below(x))
    BY FS_Interval
  <2>2. QED
    BY <2>1 DEF FiniteSubsetsOf
<1>2. PICK t \in T : \A u \in T : ~(<<u, t>> \in StrictSubsetOrdering(Nat))
  BY <1>1, FS_StrictSubsetOrderingWellFounded, WFMin
<1>3. PICK x \in S : t = Below(x)
  BY <1>2
<1>4. ASSUME NEW y \in S
      PROVE  x <= y
  <2> SUFFICES ASSUME y < x
               PROVE  FALSE
    OBVIOUS
  <2>1. Below(y) \subseteq Below(x) /\ y \in Below(x) /\ y \notin Below(y)
    OBVIOUS
  <2>2. Below(y) \in SUBSET Nat /\ Below(x) \in SUBSET Nat /\ Below(y) # Below(x)
    BY <2>1
  <2>3. <<Below(y), Below(x)>> \in StrictSubsetOrdering(Nat)
    BY <2>1, <2>2 DEF StrictSubsetOrdering
  <2>4. QED
    BY <1>2, <1>3, <2>3
<1>5. QED
  BY <1>4

LEMMA Induction ==
  ASSUME NEW S \in SUBSET Nat, 0 \in S, \A n \in S : n + 1 \in S
  PROVE  \A n \in Nat : n \in S
<1> SUFFICES ASSUME Nat \ S # {}
             PROVE  FALSE
  OBVIOUS
<1>1. PICK x \in Nat \ S : \A y \in Nat \ S : x <= y
  BY LeastOne
<1>2. x - 1 \in Nat /\ x - 1 \notin Nat \ S
  BY <1>1
<1>3. (x - 1) + 1 \in S
  BY <1>2
<1>4. QED
  BY <1>1, <1>3

-----------------------------------------------------------------------------
(* Among.                                                                  *)

\* f is what Among computes of the first n entries of q.
Selects(f, q, S, n) ==
    f = [i \in 0..n |-> IF i = 0 THEN <<>> ELSE IF q[i] \in S THEN Append(f[i - 1], q[i]) ELSE f[i - 1]]

LEMMA SelectsFacts ==
  ASSUME NEW f, NEW q, NEW S, NEW n \in Nat, Selects(f, q, S, n)
  PROVE  /\ DOMAIN f = 0..n /\ f[0] = <<>>
         /\ \A i \in 1..n : f[i] = IF q[i] \in S THEN Append(f[i - 1], q[i]) ELSE f[i - 1]
<1> DEFINE g == [i \in 0..n |-> IF i = 0 THEN <<>> ELSE IF q[i] \in S THEN Append(f[i - 1], q[i]) ELSE f[i - 1]]
<1>1. f = g
  BY DEF Selects
<1>2. /\ DOMAIN g = 0..n /\ g[0] = <<>>
      /\ \A i \in 1..n : g[i] = IF q[i] \in S THEN Append(f[i - 1], q[i]) ELSE f[i - 1]
  OBVIOUS
<1> HIDE DEF g
<1>3. QED
  BY <1>1, <1>2

LEMMA SelectsExists ==
  ASSUME NEW q, NEW S
  PROVE  \A n \in Nat : \E f : Selects(f, q, S, n)
<1> DEFINE N == {n \in Nat : \E f : Selects(f, q, S, n)}
<1>1. 0 \in N
  <2>1. Selects([i \in 0..0 |-> <<>>], q, S, 0)
    BY DEF Selects
  <2>2. QED
    BY <2>1
<1>2. ASSUME NEW n \in N
      PROVE  n + 1 \in N
  <2>1. PICK f : Selects(f, q, S, n)
    OBVIOUS
  <2> DEFINE next == IF q[n + 1] \in S THEN Append(f[n], q[n + 1]) ELSE f[n]
             g == [i \in 0..(n + 1) |-> IF i <= n THEN f[i] ELSE next]
  <2>2. /\ g[0] = <<>>
        /\ \A i \in 1..n : g[i] = IF q[i] \in S THEN Append(g[i - 1], q[i]) ELSE g[i - 1]
    <3>1. \A i \in 0..n : g[i] = f[i]
      OBVIOUS
    <3>2. \A i \in 1..n : i \in 0..n /\ i - 1 \in 0..n
      OBVIOUS
    <3> HIDE DEF g
    <3>3. QED
      BY <2>1, <3>1, <3>2, SelectsFacts
  <2>3. g[n + 1] = IF q[n + 1] \in S THEN Append(g[(n + 1) - 1], q[n + 1]) ELSE g[(n + 1) - 1]
    <3>1. g[n + 1] = next /\ g[n] = f[n] /\ (n + 1) - 1 = n
      OBVIOUS
    <3> HIDE DEF g
    <3>2. QED
      BY <3>1
  <2>4. \A i \in 0..(n + 1) : g[i] = IF i = 0 THEN <<>> ELSE IF q[i] \in S THEN Append(g[i - 1], q[i]) ELSE g[i - 1]
    <3>1. \A i \in 0..(n + 1) : i = 0 \/ i \in 1..n \/ i = n + 1
      OBVIOUS
    <3> HIDE DEF g
    <3>2. QED
      BY <2>2, <2>3, <3>1
  <2>5. DOMAIN g = 0..(n + 1) /\ g = [i \in 0..(n + 1) |-> g[i]]
    OBVIOUS
  <2> HIDE DEF g
  <2>6. g = [i \in 0..(n + 1) |-> IF i = 0 THEN <<>> ELSE IF q[i] \in S THEN Append(g[i - 1], q[i]) ELSE g[i - 1]]
    BY <2>4, <2>5
  <2>7. Selects(g, q, S, n + 1)
    BY <2>6 DEF Selects
  <2>8. QED
    BY <2>7
<1>3. N \in SUBSET Nat
  OBVIOUS
<1>4. \A n \in Nat : n \in N
  <2> HIDE DEF N
  <2>1. QED
    BY <1>1, <1>2, <1>3, Induction
<1>5. QED
  BY <1>4

\* Two such functions agree where both are defined and their sequences do.
LEMMA SelectsAgree ==
  ASSUME NEW q, NEW r, NEW S, NEW m \in Nat, NEW n \in Nat, NEW f, NEW g,
         Selects(f, q, S, m), Selects(g, r, S, n), m <= n, \A i \in 1..m : q[i] = r[i]
  PROVE  f[m] = g[m]
<1> DEFINE N == {i \in Nat : i \in 0..m => f[i] = g[i]}
<1>1. 0 \in N
  <2>1. f[0] = <<>> /\ g[0] = <<>>
    <3>1. f[0] = <<>>
      BY SelectsFacts
    <3>2. g[0] = <<>>
      BY Selects(g, r, S, n), n \in Nat, SelectsFacts
    <3>3. QED
      BY <3>1, <3>2
  <2>2. QED
    BY <2>1
<1>2. ASSUME NEW i \in N
      PROVE  i + 1 \in N
  <2> SUFFICES ASSUME i + 1 \in 1..m
               PROVE  f[i + 1] = g[i + 1]
    OBVIOUS
  <2>1. i + 1 \in 1..n /\ (i + 1) - 1 = i /\ i \in 0..m
    OBVIOUS
  <2>2. f[i + 1] = IF q[i + 1] \in S THEN Append(f[(i + 1) - 1], q[i + 1]) ELSE f[(i + 1) - 1]
    BY SelectsFacts
  <2>3. g[i + 1] = IF r[i + 1] \in S THEN Append(g[(i + 1) - 1], r[i + 1]) ELSE g[(i + 1) - 1]
    <3> HIDE DEF N
    <3>1. \A k \in 1..n : g[k] = IF r[k] \in S THEN Append(g[k - 1], r[k]) ELSE g[k - 1]
      BY SelectsFacts
    <3>2. QED
      BY <2>1, <3>1
  <2>4. QED
    BY <2>1, <2>2, <2>3
<1>3. N \in SUBSET Nat
  OBVIOUS
<1>4. \A k \in Nat : k \in N
  <2> HIDE DEF N
  <2>1. QED
    BY <1>1, <1>2, <1>3, Induction
<1>5. QED
  BY <1>4

LEMMA AmongIs ==
  ASSUME NEW q, NEW S, Len(q) \in Nat, NEW f, Selects(f, q, S, Len(q))
  PROVE  Among(q, S) = f[Len(q)]
<1> DEFINE F == CHOOSE g : g = [i \in 0..Len(q) |->
                    IF i = 0 THEN <<>> ELSE IF q[i] \in S THEN Append(g[i - 1], q[i]) ELSE g[i - 1]]
<1>1. Among(q, S) = F[Len(q)]
  BY DEF Among
<1>2. Selects(F, q, S, Len(q))
  BY DEF Selects
<1> HIDE DEF F
<1>3. F[Len(q)] = f[Len(q)]
  BY <1>2, SelectsAgree
<1>4. QED
  BY <1>1, <1>3

LEMMA AmongEmpty ==
  ASSUME NEW S
  PROVE  Among(<<>>, S) = <<>>
<1>1. PICK f : Selects(f, <<>>, S, 0)
  BY SelectsExists
<1>2. f[0] = <<>>
  BY <1>1, SelectsFacts
<1>3. QED
  BY <1>1, <1>2, AmongIs

\* An entry at the end of q is at the end of what is selected, or not selected.
LEMMA AmongAppend ==
  ASSUME NEW X, NEW S, NEW q \in Seq(X), NEW x \in X
  PROVE  Among(Append(q, x), S) = IF x \in S THEN Append(Among(q, S), x) ELSE Among(q, S)
<1> DEFINE r == Append(q, x)
           n == Len(q)
<1>1. n \in Nat /\ n + 1 \in Nat /\ Len(r) = n + 1 /\ r[n + 1] = x /\ \A i \in 1..n : q[i] = r[i]
  OBVIOUS
<1>2. PICK f : Selects(f, q, S, n)
  BY <1>1, SelectsExists
<1> HIDE DEF r
<1>3. PICK g : Selects(g, r, S, n + 1)
  BY <1>1, SelectsExists
<1>4. Among(q, S) = f[n]
  BY <1>1, <1>2, AmongIs
<1>5. Among(r, S) = g[n + 1]
  BY <1>1, <1>3, AmongIs
<1> HIDE DEF n
<1>6. f[n] = g[n]
  <2>1. n <= n + 1
    BY <1>1
  <2>2. QED
    BY <1>1, <1>2, <1>3, <2>1, SelectsAgree
<1>7. g[n + 1] = IF r[n + 1] \in S THEN Append(g[(n + 1) - 1], r[n + 1]) ELSE g[(n + 1) - 1]
  <2>1. n + 1 \in 1..(n + 1)
    BY <1>1
  <2>2. \A i \in 1..(n + 1) : g[i] = IF r[i] \in S THEN Append(g[i - 1], r[i]) ELSE g[i - 1]
    BY <1>1, <1>3, SelectsFacts
  <2>3. QED
    BY <2>1, <2>2
<1>8. (n + 1) - 1 = n
  BY <1>1
<1>9. Among(r, S) = IF x \in S THEN Append(Among(q, S), x) ELSE Among(q, S)
  BY <1>1, <1>4, <1>5, <1>6, <1>7, <1>8
<1>10. QED
  BY <1>9 DEF r

\* What is selected is in S.
LEMMA AmongTyped ==
  ASSUME NEW X, NEW S
  PROVE  \A q \in Seq(X) : Among(q, S) \in Seq(X \cap S)
<1> DEFINE N == {n \in Nat : \A q \in Seq(X) : Len(q) = n => Among(q, S) \in Seq(X \cap S)}
<1>1. 0 \in N
  <2>1. \A q \in Seq(X) : Len(q) = 0 => q = <<>>
    OBVIOUS
  <2>2. <<>> \in Seq(X \cap S)
    OBVIOUS
  <2>3. QED
    BY <2>1, <2>2, AmongEmpty
<1>2. ASSUME NEW n \in N
      PROVE  n + 1 \in N
  <2> SUFFICES ASSUME NEW q \in Seq(X), Len(q) = n + 1
               PROVE  Among(q, S) \in Seq(X \cap S)
    OBVIOUS
  <2>0. q # <<>>
    OBVIOUS
  <2>1. PICK r \in Seq(X), x \in X : q = Append(r, x)
    BY <2>0, SequenceEmptyOrAppend
  <2>2. Len(r) = n
    BY <2>1
  <2>3. Among(r, S) \in Seq(X \cap S)
    BY <2>2
  <2>4. Among(q, S) = IF x \in S THEN Append(Among(r, S), x) ELSE Among(r, S)
    BY <2>1, AmongAppend
  <2>5. x \in S => Append(Among(r, S), x) \in Seq(X \cap S)
    <3>1. ASSUME NEW Y, NEW s \in Seq(Y), NEW y \in Y
          PROVE  Append(s, y) \in Seq(Y)
      OBVIOUS
    <3>2. x \in S => x \in X \cap S
      OBVIOUS
    <3>3. QED
      BY <2>3, <3>1, <3>2
  <2>6. QED
    BY <2>3, <2>4, <2>5
<1>3. N \in SUBSET Nat
  OBVIOUS
<1>4. \A n \in Nat : n \in N
  <2> HIDE DEF N
  <2>1. QED
    BY <1>1, <1>2, <1>3, Induction
<1>5. QED
  BY <1>4

\* The entries of the first part come first.
LEMMA AmongConcat ==
  ASSUME NEW X, NEW S, NEW q \in Seq(X)
  PROVE  \A r \in Seq(X) : Among(q \o r, S) = Among(q, S) \o Among(r, S)
<1> DEFINE N == {n \in Nat : \A r \in Seq(X) : Len(r) = n => Among(q \o r, S) = Among(q, S) \o Among(r, S)}
<1>0. Among(q, S) \in Seq(X \cap S)
  BY AmongTyped
<1>1. 0 \in N
  <2>1. \A r \in Seq(X) : Len(r) = 0 => r = <<>>
    OBVIOUS
  <2>2. q \o <<>> = q
    OBVIOUS
  <2>3. Among(q, S) \o <<>> = Among(q, S)
    BY <1>0, ConcatEmptySeq
  <2>4. Among(q \o <<>>, S) = Among(q, S) \o Among(<<>>, S)
    BY <2>2, <2>3, AmongEmpty
  <2>5. QED
    BY <2>1, <2>4
<1>2. ASSUME NEW n \in N
      PROVE  n + 1 \in N
  <2> SUFFICES ASSUME NEW r \in Seq(X), Len(r) = n + 1
               PROVE  Among(q \o r, S) = Among(q, S) \o Among(r, S)
    OBVIOUS
  <2>0. r # <<>>
    OBVIOUS
  <2>1. PICK s \in Seq(X), x \in X : r = Append(s, x)
    BY <2>0, SequenceEmptyOrAppend
  <2>2. Len(s) = n
    BY <2>1
  <2>3. Among(q \o s, S) = Among(q, S) \o Among(s, S)
    BY <2>2
  <2>4. Among(r, S) = IF x \in S THEN Append(Among(s, S), x) ELSE Among(s, S)
    BY <2>1, AmongAppend
  <2>5. q \o s \in Seq(X) /\ q \o r = Append(q \o s, x)
    BY <2>1
  <2>6. Among(q \o r, S) = IF x \in S THEN Append(Among(q \o s, S), x) ELSE Among(q \o s, S)
    <3> DEFINE t == q \o s
    <3>1. t \in Seq(X)
      BY <2>5
    <3> HIDE DEF t
    <3>2. Among(Append(t, x), S) = IF x \in S THEN Append(Among(t, S), x) ELSE Among(t, S)
      BY <3>1, AmongAppend
    <3>3. Among(Append(q \o s, x), S) = IF x \in S THEN Append(Among(q \o s, S), x) ELSE Among(q \o s, S)
      BY <3>2 DEF t
    <3>4. QED
      BY <2>5, <3>3, Zenon
  <2>7. x \in S => Append(Among(q, S) \o Among(s, S), x) = Among(q, S) \o Append(Among(s, S), x)
    <3> DEFINE t == Among(q, S)
               u == Among(s, S)
               Y == X \cap S
    <3> SUFFICES ASSUME x \in S
                 PROVE  Append(t \o u, x) = t \o Append(u, x)
      OBVIOUS
    <3>1. t \in Seq(Y) /\ u \in Seq(Y) /\ x \in Y
      BY <1>0, AmongTyped
    <3> HIDE DEF t, u, Y
    <3>2. t \o u \in Seq(Y) /\ <<x>> \in Seq(Y)
      BY <3>1
    <3>3. Append(u, x) = u \o <<x>> /\ Append(t \o u, x) = (t \o u) \o <<x>>
      BY <3>1, <3>2, AppendIsConcat
    <3>4. (t \o u) \o <<x>> = t \o (u \o <<x>>)
      BY <3>1, <3>2, ConcatAssociative
    <3>5. QED
      BY <3>3, <3>4
  <2>8. QED
    BY <2>3, <2>4, <2>6, <2>7
<1>3. N \in SUBSET Nat
  OBVIOUS
<1>4. \A n \in Nat : n \in N
  <2> HIDE DEF N
  <2>1. QED
    BY <1>1, <1>2, <1>3, Induction
<1>5. QED
  BY <1>4

\* What is selected first with more does not matter.
LEMMA AmongAmong ==
  ASSUME NEW X, NEW S, NEW T, X \cap T \subseteq S
  PROVE  \A q \in Seq(X) : Among(Among(q, S), T) = Among(q, T)
<1> DEFINE N == {n \in Nat : \A q \in Seq(X) : Len(q) = n => Among(Among(q, S), T) = Among(q, T)}
<1>1. 0 \in N
  <2>1. \A q \in Seq(X) : Len(q) = 0 => q = <<>>
    OBVIOUS
  <2>2. QED
    BY <2>1, AmongEmpty
<1>2. ASSUME NEW n \in N
      PROVE  n + 1 \in N
  <2> SUFFICES ASSUME NEW q \in Seq(X), Len(q) = n + 1
               PROVE  Among(Among(q, S), T) = Among(q, T)
    OBVIOUS
  <2>0. q # <<>>
    OBVIOUS
  <2>1. PICK r \in Seq(X), x \in X : q = Append(r, x)
    BY <2>0, SequenceEmptyOrAppend
  <2>2. Len(r) = n
    BY <2>1
  <2>3. Among(Among(r, S), T) = Among(r, T)
    BY <2>2
  <2>4. /\ Among(q, S) = IF x \in S THEN Append(Among(r, S), x) ELSE Among(r, S)
        /\ Among(q, T) = IF x \in T THEN Append(Among(r, T), x) ELSE Among(r, T)
    BY <2>1, AmongAppend
  <2>5. x \in S => Among(Append(Among(r, S), x), T)
                     = IF x \in T THEN Append(Among(Among(r, S), T), x) ELSE Among(Among(r, S), T)
    <3>1. Among(r, S) \in Seq(X \cap S) /\ (x \in S => x \in X \cap S)
      BY AmongTyped
    <3>2. QED
      BY <3>1, AmongAppend
  <2>6. x \in T => x \in S
    OBVIOUS
  <2>7. QED
    BY <2>3, <2>4, <2>5, <2>6
<1>3. N \in SUBSET Nat
  OBVIOUS
<1>4. \A n \in Nat : n \in N
  <2> HIDE DEF N
  <2>1. QED
    BY <1>1, <1>2, <1>3, Induction
<1>5. QED
  BY <1>4

\* The only entry is selected or not.
LEMMA AmongOne ==
  ASSUME NEW S, NEW x
  PROVE  Among(<<x>>, S) = IF x \in S THEN <<x>> ELSE <<>>
<1>1. <<>> \in Seq({x}) /\ x \in {x} /\ Append(<<>>, x) = <<x>>
  OBVIOUS
<1>2. Among(Append(<<>>, x), S) = IF x \in S THEN Append(Among(<<>>, S), x) ELSE Among(<<>>, S)
  BY <1>1, AmongAppend
<1>3. QED
  BY <1>1, <1>2, AmongEmpty

-----------------------------------------------------------------------------
(* Messages.                                                               *)

LEMMA MessageFacts ==
  ASSUME NEW m \in Messages
  PROVE  /\ m.body \in Packets
         /\ m \in Responses <=> m.body.type = "response"
         /\ m.body.type = "response" => /\ m.body.level \in Levels
                                        /\ m.body.cluster \in Nat /\ m.body.head \in Nat
<1>1. m.body \in Packets /\ m.body \in Packet
  BY DaemonAssumption DEF Messages, Numbered
<1>2. m \in Responses <=> m.body.type = "response"
  BY DEF Messages, Responses, Numbered
<1>3. m.body.type = "response" =>
        m.body \in [type : {"response"}, level : Levels, cluster : Nat, head : Nat]
  BY <1>1 DEF Packet
<1>4. QED
  BY <1>1, <1>2, <1>3

\* Kept is taken apart where queues are put together.
LEMMA KeptFacts ==
  ASSUME NEW q \in Seq(Messages)
  PROVE  /\ Kept(q) \in Seq(Messages)
         /\ \A r \in Seq(Messages) : Kept(q \o r) = Kept(q) \o Kept(r)
         /\ \A m \in Messages : Kept(Append(q, m)) = Kept(q) \o Kept(<<m>>)
         /\ q # <<>> => Kept(q) = Kept(<<Head(q)>>) \o Kept(Tail(q))
<1> DEFINE S == {m \in Messages \ Responses : IsRouting(m.body)}
<1>1. \A x : Kept(x) = Among(x, S)
  BY DEF Kept
<1>2. S \subseteq Messages
  OBVIOUS
<1> HIDE DEF S
<1>3. Kept(q) \in Seq(Messages)
  <2>1. Among(q, S) \in Seq(Messages \cap S)
    BY AmongTyped
  <2>2. QED
    BY <1>1, <2>1
<1>4. \A r \in Seq(Messages) : Kept(q \o r) = Kept(q) \o Kept(r)
  BY <1>1, AmongConcat
<1>5. \A m \in Messages : Kept(Append(q, m)) = Kept(q) \o Kept(<<m>>)
  <2>1. \A m \in Messages : Append(q, m) = q \o <<m>> /\ <<m>> \in Seq(Messages)
    BY AppendIsConcat
  <2>2. QED
    BY <1>4, <2>1
<1>6. q # <<>> => Kept(q) = Kept(<<Head(q)>>) \o Kept(Tail(q))
  <2> SUFFICES ASSUME q # <<>>
               PROVE  Kept(q) = Kept(<<Head(q)>>) \o Kept(Tail(q))
    OBVIOUS
  <2>1. Head(q) \in Messages /\ <<Head(q)>> \in Seq(Messages) /\ Tail(q) \in Seq(Messages)
    OBVIOUS
  <2>2. q = <<Head(q)>> \o Tail(q)
    OBVIOUS
  <2> DEFINE h == <<Head(q)>>
             t == Tail(q)
  <2>3. h \in Seq(Messages) /\ t \in Seq(Messages)
    BY <2>1
  <2> HIDE DEF h, t
  <2>4. Kept(h \o t) = Kept(h) \o Kept(t)
    BY <1>1, <2>3, AmongConcat
  <2>5. QED
    BY <2>2, <2>4 DEF h, t
<1>7. QED
  BY <1>3, <1>4, <1>5, <1>6

LEMMA KeptOne ==
  ASSUME NEW m \in Messages, ~IsRouting(m.body) \/ m \in Responses
  PROVE  Kept(<<m>>) = <<>>
BY AmongOne DEF Kept

LEMMA KeptNone == Kept(<<>>) = <<>>
BY AmongEmpty DEF Kept

\* Responses taken out of a queue are not missed.
LEMMA KeptLeft ==
  ASSUME NEW q \in Seq(Messages)
  PROVE  Kept(Among(q, Messages \ Responses)) = Kept(q)
<1> DEFINE S == {m \in Messages \ Responses : IsRouting(m.body)}
           T == Messages \ Responses
<1>1. Messages \cap S \subseteq T
  OBVIOUS
<1>2. \A x : Kept(x) = Among(x, S)
  BY DEF Kept
<1> HIDE DEF S, T
<1>3. Among(Among(q, T), S) = Among(q, S)
  BY <1>1, AmongAmong
<1>4. QED
  BY <1>2, <1>3 DEF T

LEMMA ArrivedFacts ==
  ASSUME NEW s \in Seq(Messages), NEW m \in Messages
  PROVE  /\ Range(s) \subseteq Messages
         /\ Range(Append(s, m)) = Range(s) \cup {m}
         /\ Append(s, m) \in Seq(Messages)
<1>1. \A i \in 1..Len(s) : s[i] \in Messages
  OBVIOUS
<1>2. Range(s) \subseteq Messages
  BY <1>1 DEF Range
<1> DEFINE r == Append(s, m)
<1>3. Len(r) = Len(s) + 1 /\ r[Len(s) + 1] = m /\ \A i \in 1..Len(s) : r[i] = s[i]
  OBVIOUS
<1>4. DOMAIN s = 1..Len(s) /\ DOMAIN r = 1..(Len(s) + 1) /\ Len(s) \in Nat
  OBVIOUS
<1>5. 1..(Len(s) + 1) = (1..Len(s)) \cup {Len(s) + 1}
  BY <1>4
<1>6. Range(r) = Range(s) \cup {m}
  <2> HIDE DEF r
  <2>1. QED
    BY <1>3, <1>4, <1>5 DEF Range
<1>7. QED
  BY <1>2, <1>6

\* Sequences over more.
LEMMA SeqWider ==
  ASSUME NEW X, NEW Y, X \subseteq Y
  PROVE  Seq(X) \subseteq Seq(Y)
<1> SUFFICES ASSUME NEW s \in Seq(X)
             PROVE  s \in Seq(Y)
  OBVIOUS
<1>1. QED
  OBVIOUS

-----------------------------------------------------------------------------
(* The inductive invariant.                                                *)

Arrived == Range(received)

\* What is in the network listener's queue, the strategy layer's or cluster()'s has arrived.
OriginInv ==
    /\ netQ \in Seq(Arrived) /\ routeQ \in Seq(Arrived)
    /\ responses \in Seq(Arrived \cap Responses)

\* What the main thread has at hand when it passes a message on or moves the node.
HeldInv ==
    /\ main = "pass" => held \in Arrived
    /\ main = "locate" => held \in Numbered(Requests) /\ held.body.type = "location"

\* cluster() has a join while it runs, attempts left while it listens, and a head only at the end.
ElectionInv ==
    /\ strategy \in {"backoff", "listen", "pick", "found"} => join \in [level : Levels, cluster : Nat]
    /\ strategy \in {"listen", "pick"} => attempt < MaxAttempts
    /\ strategy \notin {"listen", "pick", "found"} => attempt = 0
    /\ candidate.told => strategy = "found"

IInv == TypeOK /\ PassedInOrder /\ HeadWasNamed /\ OriginInv /\ HeldInv /\ ElectionInv

-----------------------------------------------------------------------------
(* The responses that cluster() considers.                                 *)

\* f is what Pick makes of the first n of the responses q, from the candidate and queue of s on.
Considers(f, s, q, n) == f = [i \in 0..n |-> IF i = 0 THEN s ELSE Consider(f[i - 1], q[i])]

LEMMA ConsidersFacts ==
  ASSUME NEW f, NEW s, NEW q, NEW n \in Nat, Considers(f, s, q, n)
  PROVE  /\ DOMAIN f = 0..n /\ f[0] = s
         /\ \A i \in 1..n : f[i] = Consider(f[i - 1], q[i])
<1> DEFINE g == [i \in 0..n |-> IF i = 0 THEN s ELSE Consider(f[i - 1], q[i])]
<1>1. f = g
  BY DEF Considers
<1>2. DOMAIN g = 0..n /\ g[0] = s /\ \A i \in 1..n : g[i] = Consider(f[i - 1], q[i])
  OBVIOUS
<1> HIDE DEF g
<1>3. QED
  BY <1>1, <1>2

LEMMA ConsidersExists ==
  ASSUME NEW s, NEW q
  PROVE  \A n \in Nat : \E f : Considers(f, s, q, n)
<1> DEFINE N == {n \in Nat : \E f : Considers(f, s, q, n)}
<1>1. 0 \in N
  <2>1. Considers([i \in 0..0 |-> s], s, q, 0)
    BY DEF Considers
  <2>2. QED
    BY <2>1
<1>2. ASSUME NEW n \in N
      PROVE  n + 1 \in N
  <2>1. PICK f : Considers(f, s, q, n)
    OBVIOUS
  <2> DEFINE g == [i \in 0..(n + 1) |-> IF i <= n THEN f[i] ELSE Consider(f[n], q[n + 1])]
  <2>2. g[0] = s /\ \A i \in 1..n : g[i] = Consider(g[i - 1], q[i])
    <3>1. \A i \in 0..n : g[i] = f[i]
      OBVIOUS
    <3>2. \A i \in 1..n : i \in 0..n /\ i - 1 \in 0..n
      OBVIOUS
    <3> HIDE DEF g
    <3>3. QED
      BY <2>1, <3>1, <3>2, ConsidersFacts
  <2>3. g[n + 1] = Consider(g[(n + 1) - 1], q[n + 1])
    <3>1. g[n + 1] = Consider(f[n], q[n + 1]) /\ g[n] = f[n] /\ (n + 1) - 1 = n
      OBVIOUS
    <3> HIDE DEF g
    <3>2. QED
      BY <3>1
  <2>4. \A i \in 0..(n + 1) : g[i] = IF i = 0 THEN s ELSE Consider(g[i - 1], q[i])
    <3>1. \A i \in 0..(n + 1) : i = 0 \/ i \in 1..n \/ i = n + 1
      OBVIOUS
    <3> HIDE DEF g
    <3>2. QED
      BY <2>2, <2>3, <3>1
  <2>5. DOMAIN g = 0..(n + 1) /\ g = [i \in 0..(n + 1) |-> g[i]]
    OBVIOUS
  <2> HIDE DEF g
  <2>6. g = [i \in 0..(n + 1) |-> IF i = 0 THEN s ELSE Consider(g[i - 1], q[i])]
    BY <2>4, <2>5
  <2>7. Considers(g, s, q, n + 1)
    BY <2>6 DEF Considers
  <2>8. QED
    BY <2>7
<1>3. N \in SUBSET Nat
  OBVIOUS
<1>4. \A n \in Nat : n \in N
  <2> HIDE DEF N
  <2>1. QED
    BY <1>1, <1>2, <1>3, Induction
<1>5. QED
  BY <1>4

\* A response that has arrived names h for the cluster of the join.
Named(h) == \E m \in Arrived : Pertains(m.body) /\ m.body.head = h

\* What holds of a candidate and a queue whichever responses were considered.
Sound(s) ==
    /\ s \in [candidate : [head : Nat, told : BOOLEAN], queue : Seq(Arrived)]
    /\ Kept(s.queue) = Kept(routeQ)
    /\ s.candidate.told => Named(s.candidate.head)

LEMMA ConsiderSound ==
  ASSUME IInv, NEW s, Sound(s), NEW m \in Arrived \cap Responses
  PROVE  Sound(Consider(s, m))
<1>1. received \in Seq(Messages) /\ Arrived \subseteq Messages
  BY RangeOfSeq DEF IInv, TypeOK, Arrived
<1>2. m \in Messages /\ m \in Arrived /\ m \in Responses
  BY <1>1
<1>3. CASE Accepts(m.body, s.candidate)
  <2>1. Consider(s, m) = [s EXCEPT !.candidate = [head |-> m.body.head, told |-> TRUE]]
    BY <1>3 DEF Consider
  <2> DEFINE t == [s EXCEPT !.candidate = [head |-> m.body.head, told |-> TRUE]]
  <2>2. Pertains(m.body) /\ m.body.head \in Nat
    BY <1>2, <1>3, MessageFacts DEF Accepts, Pertains
  <2>3. /\ t.candidate = [head |-> m.body.head, told |-> TRUE] /\ t.queue = s.queue
        /\ t \in [candidate : [head : Nat, told : BOOLEAN], queue : Seq(Arrived)]
    BY <2>2 DEF Sound
  <2>4. Named(t.candidate.head)
    BY <1>2, <2>2, <2>3 DEF Named
  <2> HIDE DEF t
  <2>5. Sound(t)
    BY <2>3, <2>4 DEF Sound
  <2>6. QED
    BY <2>1, <2>5 DEF t
<1>4. CASE ~Accepts(m.body, s.candidate)
  <2>1. Consider(s, m) = [s EXCEPT !.queue = Append(s.queue, m)]
    BY <1>4 DEF Consider
  <2> DEFINE t == [s EXCEPT !.queue = Append(s.queue, m)]
  <2>2. s.queue \in Seq(Arrived) /\ s.queue \in Seq(Messages)
    BY <1>1, SeqWider DEF Sound
  <2>3. Kept(Append(s.queue, m)) = Kept(s.queue)
    <3>1. Kept(Append(s.queue, m)) = Kept(s.queue) \o Kept(<<m>>) /\ Kept(s.queue) \in Seq(Messages)
      BY <1>2, <2>2, KeptFacts
    <3>2. Kept(<<m>>) = <<>>
      BY <1>2, KeptOne
    <3>3. QED
      BY <3>1, <3>2, ConcatEmptySeq
  <2>4. Append(s.queue, m) \in Seq(Arrived)
    <3>1. ASSUME NEW X, NEW q \in Seq(X), NEW x \in X
          PROVE  Append(q, x) \in Seq(X)
      OBVIOUS
    <3>2. QED
      BY <1>2, <2>2, <3>1
  <2>5. /\ t.queue = Append(s.queue, m) /\ t.candidate = s.candidate
        /\ t \in [candidate : [head : Nat, told : BOOLEAN], queue : Seq(Arrived)]
    BY <2>4 DEF Sound
  <2> HIDE DEF t
  <2>6. Sound(t)
    BY <2>3, <2>5 DEF Sound
  <2>7. QED
    BY <2>1, <2>6 DEF t
<1>5. QED
  BY <1>3, <1>4

LEMMA PickFacts ==
  ASSUME IInv, Pick
  PROVE  /\ candidate' \in [head : Nat, told : BOOLEAN]
         /\ routeQ' \in Seq(Arrived) /\ Kept(routeQ') = Kept(routeQ)
         /\ candidate'.told => Named(candidate'.head)
<1> DEFINE seen == (Len(responses) + 1) \div 2
           start == [candidate |-> candidate, queue |-> routeQ]
           F == CHOOSE f : f = [n \in 0..seen |-> IF n = 0 THEN start ELSE Consider(f[n - 1], responses[n])]
<1>1. candidate' = F[seen].candidate /\ routeQ' = F[seen].queue
  BY DEF Pick
<1>2. responses \in Seq(Arrived \cap Responses) /\ Len(responses) \in Nat
  BY DEF IInv, OriginInv
<1>3. seen \in Nat /\ seen <= Len(responses)
  BY <1>2
<1>4. \A i \in 1..seen : responses[i] \in Arrived \cap Responses
  <2>1. \A i \in 1..Len(responses) : responses[i] \in Arrived \cap Responses
    BY <1>2, ElementOfSeq
  <2>2. \A i \in 1..seen : i \in 1..Len(responses)
    BY <1>2, <1>3
  <2> HIDE DEF seen
  <2>3. QED
    BY <2>1, <2>2
<1>5. Sound(start)
  <2>1. strategy = "pick" /\ ~candidate.told
    BY DEF Pick, IInv, ElectionInv
  <2>2. candidate \in [head : Nat, told : BOOLEAN] /\ routeQ \in Seq(Arrived)
    BY DEF IInv, TypeOK, OriginInv
  <2>3. QED
    BY <2>1, <2>2 DEF Sound
<1> HIDE DEF seen, start
<1>6. Considers(F, start, responses, seen)
  <2>1. \E f : Considers(f, start, responses, seen)
    BY <1>3, ConsidersExists
  <2>2. QED
    BY <2>1 DEF Considers
<1> HIDE DEF F
<1>7. F[0] = start /\ \A i \in 1..seen : F[i] = Consider(F[i - 1], responses[i])
  BY <1>3, <1>6, ConsidersFacts
<1> DEFINE N == {n \in Nat : n \in 0..seen => Sound(F[n])}
<1>8. 0 \in N
  BY <1>5, <1>7
<1>9. ASSUME NEW n \in N
      PROVE  n + 1 \in N
  <2> SUFFICES ASSUME n + 1 \in 0..seen
               PROVE  Sound(F[n + 1])
    OBVIOUS
  <2>1. n \in Nat /\ n \in 0..seen /\ n + 1 \in 1..seen /\ (n + 1) - 1 = n
    BY <1>3
  <2>2. Sound(F[n]) /\ F[n + 1] = Consider(F[n], responses[n + 1])
    BY <1>7, <2>1
  <2>3. QED
    BY <1>4, <2>1, <2>2, ConsiderSound
<1>10. N \in SUBSET Nat
  OBVIOUS
<1>11. seen \in N
  <2> HIDE DEF N
  <2>1. QED
    BY <1>3, <1>8, <1>9, <1>10, Induction
<1>12. Sound(F[seen])
  BY <1>3, <1>11
<1>13. QED
  BY <1>1, <1>12 DEF Sound

-----------------------------------------------------------------------------
(* Types.                                                                  *)

LEMMA LevelFacts == /\ 0..NumLevels + 1 = Levels \cup {BloomEvent, LookAtQueue}
                    /\ Levels \subseteq 0..NumLevels + 1
                    /\ [l \in Levels |-> l] \in Seq(Levels)
                    /\ [l \in Levels |-> NumLevels + 1 - l] \in Seq(Levels)
<1>1. NumLevels \in Nat \ {0}
  BY DaemonAssumption
<1>2. /\ 0..NumLevels + 1 = Levels \cup {BloomEvent, LookAtQueue}
      /\ Levels \subseteq 0..NumLevels + 1
  BY <1>1 DEF Levels, BloomEvent, LookAtQueue
<1>3. [l \in Levels |-> l] \in Seq(Levels)
  BY <1>1 DEF Levels
<1>4. [l \in Levels |-> NumLevels + 1 - l] \in Seq(Levels)
  <2>1. \A l \in Levels : NumLevels + 1 - l \in Levels
    BY <1>1 DEF Levels
  <2>2. QED
    BY <1>1, <2>1 DEF Levels
<1>5. QED
  BY <1>2, <1>3, <1>4

LEMMA OneTyped ==
  ASSUME NEW X, NEW x \in X
  PROVE  <<x>> \in Seq(X)
OBVIOUS

LEMMA DueTyped ==
  ASSUME NEW due \in SUBSET Levels, NEW last \in {<<>>, <<BloomEvent>>}
  PROVE  DueEvents(due, last) \in Seq(0..NumLevels + 1)
<1> DEFINE Events == 0..NumLevels + 1
           levels == [l \in Levels |-> l]
<1>1. DueEvents(due, last) = Among(levels, due) \o last \o <<LookAtQueue>>
  BY DEF DueEvents
<1>2. last \in {<<>>, <<BloomEvent>>}
  OBVIOUS
<1>3. Levels \subseteq Events /\ BloomEvent \in Events /\ LookAtQueue \in Events /\ levels \in Seq(Levels)
  BY LevelFacts
<1> HIDE DEF Events, levels
<1>4. Among(levels, due) \in Seq(Events)
  <2> DEFINE Y == Levels \cap due
  <2>1. Among(levels, due) \in Seq(Y)
    BY <1>3, AmongTyped
  <2>2. Y \subseteq Events
    BY <1>3
  <2> HIDE DEF Y
  <2>3. QED
    BY <2>1, <2>2, SeqWider
<1>5. last \in Seq(Events) /\ <<LookAtQueue>> \in Seq(Events)
  <2>1. <<LookAtQueue>> \in Seq(Events) /\ <<BloomEvent>> \in Seq(Events)
    BY <1>3, OneTyped
  <2>2. <<>> \in Seq(Events)
    OBVIOUS
  <2>3. QED
    BY <1>2, <2>1, <2>2
<1> DEFINE selected == Among(levels, due)
<1> HIDE DEF selected
<1>6. selected \o last \in Seq(Events)
  BY <1>4, <1>5, ConcatProperties DEF selected
<1>7. (selected \o last) \o <<LookAtQueue>> \in Seq(Events)
  BY <1>5, <1>6, ConcatProperties
<1>8. QED
  BY <1>1, <1>7 DEF selected, Events

LEMMA InitTyped == Init => TypeOK
<1> SUFFICES ASSUME Init
             PROVE  TypeOK
  OBVIOUS
<1>1. todo \in Seq(0..NumLevels + 1)
  <2> DEFINE Events == 0..NumLevels + 1
             levels == [i \in Levels |-> NumLevels + 1 - i]
  <2>1. levels \in Seq(Events) /\ <<BloomEvent>> \in Seq(Events)
    <3>1. Levels \subseteq Events /\ BloomEvent \in Events /\ levels \in Seq(Levels)
      BY LevelFacts
    <3> HIDE DEF Events, levels
    <3>2. QED
      BY <3>1, SeqWider, OneTyped
  <2>2. todo = <<BloomEvent>> \o levels
    BY DEF Init
  <2> HIDE DEF Events, levels
  <2>3. todo \in Seq(Events)
    BY <2>1, <2>2, ConcatProperties
  <2>4. QED
    BY <2>3 DEF Events
<1>2. clusterIds \in [Levels -> Nat] /\ position \in Positions
  BY DaemonAssumption DEF Init
<1>3. QED
  BY <1>1, <1>2, DaemonAssumption DEF Init, TypeOK, Listeners, Myself

\* A request to move the node has a position.
LEMMA LocationFacts ==
  ASSUME NEW m \in Numbered(Requests), m.body.type = "location"
  PROVE  /\ m.body.position \in Positions
         /\ [l \in Levels |-> ClusterOf[<<l, m.body.position>>]] \in [Levels -> Nat]
<1>1. m.body \in Request
  BY DaemonAssumption DEF Numbered
<1>2. m.body \in [type : {"location"}, position : Positions]
  BY <1>1 DEF Request
<1>3. QED
  BY <1>2, DaemonAssumption

LEMMA QueueFacts ==
  ASSUME NEW X, NEW q \in Seq(X), q # <<>>
  PROVE  Head(q) \in X /\ Tail(q) \in Seq(X)
OBVIOUS

LEMMA PushFacts ==
  ASSUME NEW X, NEW q \in Seq(X), NEW x \in X
  PROVE  Append(q, x) \in Seq(X)
OBVIOUS

LEMMA NextMessageTyped ==
  ASSUME NEW X, routeQ \in Seq(X), handled \in Seq(Messages), X \subseteq Messages, NextMessage
  PROVE  routeQ' \in Seq(X) /\ handled' \in Seq(Messages)
<1>1. CASE routeQ = <<>>
  BY <1>1 DEF NextMessage
<1>2. CASE routeQ # <<>>
  <2>1. Head(routeQ) \in X /\ Tail(routeQ) \in Seq(X)
    BY <1>2, QueueFacts
  <2>2. Head(routeQ) \in Messages
    BY <2>1
  <2>3. Append(handled, Head(routeQ)) \in Seq(Messages)
    BY <2>2, PushFacts
  <2>4. QED
    BY <1>2, <2>1, <2>3 DEF NextMessage
<1>3. QED
  BY <1>1, <1>2

LEMMA ArrivedTyped ==
  ASSUME IInv
  PROVE  Arrived \subseteq Messages
BY RangeOfSeq DEF IInv, TypeOK, Arrived

LEMMA ListenTyped ==
  ASSUME IInv, Listen
  PROVE  /\ routeQ' \in Seq(Arrived) /\ responses' \in Seq(Arrived \cap Responses)
         /\ Kept(routeQ') = Kept(routeQ)
<1>1. routeQ \in Seq(Arrived) /\ responses \in Seq(Arrived \cap Responses) /\ routeQ \in Seq(Messages)
  BY DEF IInv, OriginInv, TypeOK
<1>2. responses' = responses \o Among(routeQ, Responses) /\ routeQ' = Among(routeQ, Messages \ Responses)
  BY DEF Listen, FilterMessages
<1>3. Among(routeQ, Responses) \in Seq(Arrived \cap Responses)
  BY <1>1, AmongTyped
<1>4. Among(routeQ, Messages \ Responses) \in Seq(Arrived)
  <2>1. Among(routeQ, Messages \ Responses) \in Seq(Arrived \cap (Messages \ Responses))
    BY <1>1, AmongTyped
  <2>2. QED
    BY <2>1, SeqWider
<1>5. Kept(routeQ') = Kept(routeQ)
  BY <1>1, <1>2, KeptLeft
<1>6. QED
  BY <1>1, <1>2, <1>3, <1>4, <1>5, ConcatProperties

LEMMA PickTyped ==
  ASSUME IInv, Pick
  PROVE  responses' \in Seq(Arrived \cap Responses)
<1> DEFINE seen == (Len(responses) + 1) \div 2
           X == Arrived \cap Responses
<1>1. responses \in Seq(X) /\ responses' = SubSeq(responses, seen + 1, Len(responses))
  BY DEF IInv, OriginInv, Pick
<1>2. Len(responses) \in Nat /\ seen \in Nat
  BY <1>1
<1> HIDE DEF seen, X
<1>3. SubSeq(responses, seen + 1, Len(responses)) \in Seq(X)
  BY <1>1, <1>2, SubSeqProperties
<1>4. QED
  BY <1>1, <1>3 DEF X

LEMMA MainTyped ==
  ASSUME IInv, MainNext \/ SpuriousWakeup \/ ReceivePacket \/ ReceiveRequest
               \/ \E l \in Listeners : Notify(l)
  PROVE  TypeOK'
<1> USE DEF IInv, TypeOK, listenVars, mainVars, gridVars, clusterVars
<1>1. CASE Wait \/ NetDrained \/ IpcDrained \/ SpuriousWakeup
  BY <1>1 DEF Wait, NetDrained, IpcDrained, SpuriousWakeup, MainStep
<1>2. CASE TakePacket
  <2>1. Head(netQ) \in Messages /\ Tail(netQ) \in Seq(Messages)
    BY <1>2, QueueFacts DEF TakePacket
  <2>2. QED
    BY <1>2, <2>1 DEF TakePacket
<1>3. CASE PassMessage
  <2>1. held \in Messages
    BY <1>3, ArrivedTyped DEF PassMessage, MainStep, HeldInv
  <2>2. Append(routeQ, held) \in Seq(Messages)
    BY <2>1, PushFacts
  <2>3. QED
    BY <1>3, <2>2 DEF PassMessage, MainStep
<1>4. CASE TakeRequest
  <2>1. Head(ipcQ) \in Numbered(Requests) /\ Tail(ipcQ) \in Seq(Numbered(Requests))
    BY <1>4, QueueFacts DEF TakeRequest
  <2>2. QED
    BY <1>4, <2>1 DEF TakeRequest
<1>5. CASE Relocate
  <2>1. held \in Numbered(Requests) /\ held.body.type = "location"
    BY <1>5 DEF Relocate, MainStep, HeldInv
  <2>2. QED
    BY <1>5, <2>1, LocationFacts DEF Relocate, MainStep
<1>6. CASE ReceivePacket
  <2>1. PICK p \in Packets : LET m == [id |-> Len(received) + 1, body |-> p] IN
                             netQ' = Append(netQ, m) /\ received' = Append(received, m)
    BY <1>6 DEF ReceivePacket
  <2> DEFINE m == [id |-> Len(received) + 1, body |-> p]
  <2>2. m \in Messages
    BY DEF Messages, Numbered
  <2>3. Append(netQ, m) \in Seq(Messages) /\ Append(received, m) \in Seq(Messages)
    <3> HIDE DEF m
    <3>1. QED
      BY <2>2, PushFacts
  <2>4. QED
    BY <1>6, <2>1, <2>3 DEF ReceivePacket, Listeners
<1>7. CASE ReceiveRequest
  <2>1. PICK r \in Requests : ipcQ' = Append(ipcQ, [id |-> requests + 1, body |-> r])
    BY <1>7 DEF ReceiveRequest
  <2>2. [id |-> requests + 1, body |-> r] \in Numbered(Requests)
    BY DEF Numbered
  <2>3. Append(ipcQ, [id |-> requests + 1, body |-> r]) \in Seq(Numbered(Requests))
    BY <2>2, PushFacts
  <2>4. QED
    BY <1>7, <2>1, <2>3 DEF ReceiveRequest, Listeners
<1>8. CASE \E l \in Listeners : Notify(l)
  BY <1>8 DEF Notify
<1>9. QED
  BY <1>1, <1>2, <1>3, <1>4, <1>5, <1>6, <1>7, <1>8 DEF MainNext

LEMMA StrategyTyped ==
  ASSUME IInv, StrategyNext \/ StrategySpurious \/ StrategyTimeout
  PROVE  TypeOK'
<1> USE DEF IInv, TypeOK, daemonVars, listenVars, mainVars, gridVars, clusterVars
<1>1. CASE StrategyWait \/ Started \/ BroadcastJoin \/ StrategySpurious
  BY <1>1 DEF StrategyWait, Started, BroadcastJoin, StrategySpurious, StrategyStep
<1>2. CASE StrategyWoken \/ Drain
  <2>1. routeQ' \in Seq(Messages) /\ handled' \in Seq(Messages)
    BY <1>2, NextMessageTyped DEF StrategyWoken, Drain
  <2>2. QED
    BY <1>2, <2>1 DEF StrategyWoken, Drain
<1>3. ASSUME NEW e, NextEvent(e)
      PROVE  e \in 0..NumLevels + 1 /\ todo' \in Seq(0..NumLevels + 1)
  BY <1>3, QueueFacts DEF NextEvent
<1>4. CASE Bloom
  BY <1>3, <1>4 DEF Bloom
<1>5. CASE LookAt
  <2>1. routeQ' \in Seq(Messages) /\ handled' \in Seq(Messages) /\ todo' \in Seq(0..NumLevels + 1)
    BY <1>3, <1>5, NextMessageTyped DEF LookAt
  <2>2. QED
    BY <1>5, <2>1 DEF LookAt
<1>6. CASE StrategyTimeout
  <2>1. todo' \in Seq(0..NumLevels + 1)
    BY <1>6, DueTyped DEF StrategyTimeout
  <2>2. QED
    BY <1>6, <2>1 DEF StrategyTimeout, StrategyStep
<1>7. CASE BeginCluster
  <2>1. PICK level \in Levels : NextEvent(level) /\ join' = [level |-> level, cluster |-> clusterIds[level]]
    BY <1>7 DEF BeginCluster
  <2>2. todo' \in Seq(0..NumLevels + 1) /\ join' \in [level : Levels, cluster : Nat]
    BY <1>3, <2>1
  <2>3. QED
    BY <1>7, <2>2 DEF BeginCluster
<1>8. CASE Listen
  <2>1. routeQ' \in Seq(Messages) /\ responses' \in Seq(Messages)
    <3>1. Arrived \subseteq Messages /\ Arrived \cap Responses \subseteq Messages
      BY ArrivedTyped
    <3>2. QED
      BY <1>8, <3>1, ListenTyped, SeqWider
  <2>2. attempt' \in 0..MaxAttempts /\ strategy' \in {"pick", "found", "listen"}
    BY <1>8, DaemonAssumption DEF Listen, AttemptOver, ElectionInv
  <2>3. QED
    BY <1>8, <2>1, <2>2 DEF Listen
<1>9. CASE Pick
  <2>1. routeQ' \in Seq(Messages) /\ responses' \in Seq(Messages) /\ candidate' \in [head : Nat, told : BOOLEAN]
    <3>1. Arrived \subseteq Messages /\ Arrived \cap Responses \subseteq Messages
      BY ArrivedTyped
    <3>2. routeQ' \in Seq(Arrived) /\ responses' \in Seq(Arrived \cap Responses)
          /\ candidate' \in [head : Nat, told : BOOLEAN]
      BY <1>9, PickFacts, PickTyped
    <3>3. QED
      BY <3>1, <3>2, SeqWider
  <2>2. attempt' \in 0..MaxAttempts /\ strategy' \in {"found", "listen"}
    <3>1. strategy = "pick" /\ ((strategy' = "found" /\ attempt' = attempt) \/ AttemptOver(attempt + 1))
      BY <1>9 DEF Pick
    <3>2. QED
      BY <3>1, DaemonAssumption DEF AttemptOver, ElectionInv
  <2>3. QED
    BY <1>9, <2>1, <2>2 DEF Pick
<1>10. CASE Elect
  <2>1. join \in [level : Levels, cluster : Nat]
    BY <1>10 DEF Elect, StrategyStep, ElectionInv
  <2>2. QED
    BY <1>10, <2>1, DaemonAssumption DEF Elect, StrategyStep, Myself
<1>11. QED
  BY <1>1, <1>2, <1>4, <1>5, <1>6, <1>7, <1>8, <1>9, <1>10 DEF StrategyNext

-----------------------------------------------------------------------------
(* Where messages come from.                                               *)

\* What has arrived stays; a packet that is received is added to it.
LEMMA ArrivedStep ==
  ASSUME IInv, [Next]_vars
  PROVE  /\ Arrived \subseteq Arrived'
         /\ received' = received \/ ReceivePacket
<1>1. CASE ReceivePacket
  <2>1. PICK p \in Packets : received' = Append(received, [id |-> Len(received) + 1, body |-> p])
    BY <1>1 DEF ReceivePacket
  <2> DEFINE m == [id |-> Len(received) + 1, body |-> p]
  <2>2. m \in Messages /\ received \in Seq(Messages)
    BY DEF IInv, TypeOK, Messages, Numbered
  <2> HIDE DEF m
  <2>3. Range(Append(received, m)) = Range(received) \cup {m}
    BY <2>2, ArrivedFacts
  <2>4. QED
    BY <1>1, <2>1, <2>3 DEF Arrived, m
<1>2. CASE ReceiveRequest \/ (\E l \in Listeners : Notify(l)) \/ SpuriousWakeup \/ MainNext
  <2>1. received' = received
    BY <1>2 DEF ReceiveRequest, Notify, SpuriousWakeup, MainNext, Wait, TakePacket, PassMessage, NetDrained,
                TakeRequest, Relocate, IpcDrained, listenVars
  <2>2. QED
    BY <2>1 DEF Arrived
<1>3. CASE StrategyNext \/ StrategySpurious \/ StrategyTimeout \/ UNCHANGED vars
  <2>1. received' = received
    BY <1>3 DEF StrategyNext, StrategySpurious, StrategyTimeout, StrategyWait, StrategyWoken, Bloom, LookAt, Started,
                Drain, BeginCluster, BroadcastJoin, Listen, Pick, Elect, daemonVars, listenVars, vars
  <2>2. QED
    BY <2>1 DEF Arrived
<1>4. QED
  BY <1>1, <1>2, <1>3 DEF Next

LEMMA OriginStep ==
  ASSUME IInv, [Next]_vars
  PROVE  OriginInv'
<1> DEFINE Old == Arrived
           Answers == Arrived \cap Responses
<1>1. netQ \in Seq(Old) /\ routeQ \in Seq(Old) /\ responses \in Seq(Answers)
  BY DEF IInv, OriginInv
<1>2. Old \subseteq Arrived' /\ Answers \subseteq Arrived' \cap Responses
  BY ArrivedStep
<1>3. SUFFICES /\ netQ' \in Seq(Arrived')
               /\ routeQ' \in Seq(Old) /\ responses' \in Seq(Answers)
  <2> DEFINE X == Arrived'
             Y == Arrived' \cap Responses
  <2>1. Old \subseteq X /\ Answers \subseteq Y
    BY <1>2
  <2>2. OriginInv' <=> (netQ' \in Seq(X) /\ routeQ' \in Seq(X) /\ responses' \in Seq(Y))
    BY DEF OriginInv, Responses
  <2> HIDE DEF X, Y, Old, Answers
  <2>3. Seq(Old) \subseteq Seq(X) /\ Seq(Answers) \subseteq Seq(Y)
    BY <2>1, SeqWider
  <2>4. QED
    BY <2>2, <2>3 DEF X
<1>4. ASSUME netQ' \in Seq(Old)
      PROVE  netQ' \in Seq(Arrived')
  <2> DEFINE X == Arrived'
  <2> HIDE DEF X, Old
  <2>1. Old \subseteq X => netQ' \in Seq(X)
    BY <1>4, SeqWider
  <2>2. QED
    BY <1>2, <2>1 DEF X
<1>5. CASE ReceivePacket
  <2>1. PICK p \in Packets : LET m == [id |-> Len(received) + 1, body |-> p] IN
                             netQ' = Append(netQ, m) /\ received' = Append(received, m)
    BY <1>5 DEF ReceivePacket
  <2> DEFINE m == [id |-> Len(received) + 1, body |-> p]
  <2>2. m \in Messages /\ received \in Seq(Messages)
    BY DEF IInv, TypeOK, Messages, Numbered
  <2> HIDE DEF m
  <2>3. Range(Append(received, m)) = Range(received) \cup {m}
    BY <2>2, ArrivedFacts
  <2>4. m \in Arrived' /\ netQ' = Append(netQ, m)
    BY <2>1, <2>3 DEF Arrived, m
  <2>5. netQ' \in Seq(Arrived')
    <3> DEFINE X == Arrived'
    <3>1. Old \subseteq X /\ m \in X
      BY <1>2, <2>4
    <3> HIDE DEF X, Old
    <3>2. netQ \in Seq(X)
      BY <1>1, <3>1, SeqWider
    <3>3. QED
      BY <2>4, <3>1, <3>2, PushFacts DEF X
  <2>6. QED
    BY <1>1, <1>5, <2>5 DEF ReceivePacket, clusterVars
<1>6. CASE TakePacket
  <2>1. netQ' = Tail(netQ) /\ netQ # <<>> /\ routeQ' = routeQ /\ responses' = responses
    BY <1>6 DEF TakePacket, clusterVars
  <2> HIDE DEF Old
  <2>2. netQ' \in Seq(Old)
    BY <1>1, <2>1, QueueFacts
  <2>3. QED
    BY <1>1, <1>4, <2>1, <2>2
<1>7. CASE PassMessage
  <2>1. held \in Old /\ netQ' = netQ /\ routeQ' = Append(routeQ, held) /\ responses' = responses
    BY <1>7 DEF PassMessage, MainStep, IInv, HeldInv, clusterVars
  <2> HIDE DEF Old
  <2>2. routeQ' \in Seq(Old)
    BY <1>1, <2>1, PushFacts
  <2>3. QED
    BY <1>1, <1>4, <2>1, <2>2
<1>8. CASE StrategyWoken \/ LookAt \/ Drain
  <2>1. NextMessage /\ netQ' = netQ /\ responses' = responses
    BY <1>8 DEF StrategyWoken, LookAt, Drain, daemonVars, clusterVars
  <2>2. handled \in Seq(Messages) /\ Old \subseteq Messages
    BY ArrivedTyped DEF IInv, TypeOK
  <2> HIDE DEF Old
  <2>3. routeQ' \in Seq(Old)
    BY <1>1, <2>1, <2>2, NextMessageTyped
  <2>4. QED
    BY <1>1, <1>4, <2>1, <2>3
<1>9. CASE Listen
  <2>1. netQ' = netQ
    BY <1>9 DEF Listen, daemonVars
  <2>2. QED
    BY <1>1, <1>4, <1>9, <2>1, ListenTyped
<1>10. CASE Pick
  <2>1. netQ' = netQ
    BY <1>10 DEF Pick, daemonVars
  <2>2. QED
    BY <1>1, <1>4, <1>10, <2>1, PickFacts, PickTyped
<1>11. CASE Elect
  <2>1. netQ' = netQ /\ routeQ' = routeQ /\ responses' = <<>>
    BY <1>11 DEF Elect, daemonVars
  <2>2. QED
    BY <1>1, <1>4, <2>1
<1>12. CASE \/ ReceiveRequest \/ (\E l \in Listeners : Notify(l)) \/ SpuriousWakeup \/ Wait \/ NetDrained
            \/ TakeRequest \/ Relocate \/ IpcDrained \/ UNCHANGED vars
  <2>1. netQ' = netQ /\ routeQ' = routeQ /\ responses' = responses
    BY <1>12 DEF ReceiveRequest, Notify, SpuriousWakeup, Wait, NetDrained, TakeRequest, Relocate, IpcDrained, vars,
                 clusterVars
  <2>2. QED
    BY <1>1, <1>4, <2>1
<1>13. CASE \/ StrategyWait \/ Bloom \/ Started \/ BeginCluster \/ BroadcastJoin \/ StrategySpurious
            \/ StrategyTimeout
  <2>1. netQ' = netQ /\ routeQ' = routeQ /\ responses' = responses
    BY <1>13 DEF StrategyWait, Bloom, Started, BeginCluster, BroadcastJoin, StrategySpurious, StrategyTimeout,
                 daemonVars, clusterVars
  <2>2. QED
    BY <1>1, <1>4, <2>1
<1>14. QED
  BY <1>5, <1>6, <1>7, <1>8, <1>9, <1>10, <1>11, <1>12, <1>13 DEF Next, MainNext, StrategyNext

-----------------------------------------------------------------------------
(* What the threads have at hand.                                          *)

LEMMA HeldStep ==
  ASSUME IInv, [Next]_vars
  PROVE  HeldInv'
<1>0. Arrived \subseteq Arrived' /\ HeldInv
  BY ArrivedStep DEF IInv
<1>1. CASE TakePacket
  <2>1. main = "net" /\ (main' = "net" \/ (main' = "pass" /\ held' = Head(netQ))) /\ netQ # <<>>
    BY <1>1 DEF TakePacket, mainVars
  <2>2. netQ \in Seq(Arrived)
    BY DEF IInv, OriginInv
  <2>3. Head(netQ) \in Arrived
    <3> DEFINE X == Arrived
    <3> HIDE DEF X
    <3>1. netQ \in Seq(X) => Head(netQ) \in X
      BY <2>1, QueueFacts
    <3>2. QED
      BY <2>2, <3>1 DEF X
  <2>4. QED
    BY <1>0, <2>1, <2>3 DEF HeldInv
<1>2. CASE TakeRequest
  <2>1. /\ main = "ipc" /\ ipcQ # <<>>
        /\ main' \in {"ipc", "loop"} \/ (main' = "locate" /\ held' = Head(ipcQ) /\ Head(ipcQ).body.type = "location")
    BY <1>2 DEF TakeRequest, mainVars
  <2>2. Head(ipcQ) \in Numbered(Requests)
    BY <2>1, QueueFacts DEF IInv, TypeOK
  <2>3. QED
    BY <2>1, <2>2 DEF HeldInv
<1>3. CASE Wait \/ PassMessage \/ NetDrained \/ Relocate \/ IpcDrained \/ SpuriousWakeup
  <2>1. main' \notin {"pass", "locate"}
    BY <1>3 DEF Wait, PassMessage, NetDrained, Relocate, IpcDrained, SpuriousWakeup, MainStep
  <2>2. QED
    BY <2>1 DEF HeldInv
<1>4. CASE \E l \in Listeners : Notify(l)
  <2>1. held' = held /\ main' \in {main, "net"}
    BY <1>4 DEF Notify
  <2>2. QED
    BY <1>0, <2>1 DEF HeldInv
<1>5. CASE ReceivePacket \/ ReceiveRequest \/ StrategyNext \/ StrategySpurious \/ StrategyTimeout \/ UNCHANGED vars
  <2>1. held' = held /\ main' = main
    BY <1>5 DEF ReceivePacket, ReceiveRequest, StrategyNext, StrategySpurious, StrategyTimeout, StrategyWait,
                StrategyWoken, Bloom, LookAt, Started, Drain, BeginCluster, BroadcastJoin, Listen, Pick, Elect,
                daemonVars, mainVars, vars
  <2>2. QED
    BY <1>0, <2>1 DEF HeldInv
<1>6. QED
  BY <1>1, <1>2, <1>3, <1>4, <1>5 DEF Next, MainNext

\* Outside cluster() a step starts none and leaves its variables alone.
LEMMA ElectionKept ==
  ASSUME ElectionInv, UNCHANGED clusterVars,
         strategy' = strategy \/ (strategy \notin {"backoff", "listen", "pick", "found"}
                                    /\ strategy' \notin {"backoff", "listen", "pick", "found"})
  PROVE  ElectionInv'
BY DEF ElectionInv, clusterVars

LEMMA ElectionStep ==
  ASSUME IInv, [Next]_vars
  PROVE  ElectionInv'
<1>0. ElectionInv /\ attempt \in Nat /\ attempt <= MaxAttempts /\ MaxAttempts \in Nat \ {0}
  BY DaemonAssumption DEF IInv, TypeOK
<1>1. CASE ReceivePacket \/ ReceiveRequest \/ (\E l \in Listeners : Notify(l)) \/ SpuriousWakeup \/ MainNext
  <2>1. UNCHANGED clusterVars /\ (strategy' = strategy \/ (strategy = "waiting" /\ strategy' = "woken"))
    BY <1>1 DEF ReceivePacket, ReceiveRequest, Notify, SpuriousWakeup, MainNext, Wait, TakePacket, PassMessage,
                NetDrained, TakeRequest, Relocate, IpcDrained
  <2>2. QED
    BY <1>0, <2>1, ElectionKept
<1>2. CASE \/ StrategyWait \/ StrategyWoken \/ Bloom \/ LookAt \/ Started \/ Drain \/ StrategySpurious
           \/ StrategyTimeout \/ UNCHANGED vars
  <2>1. /\ UNCHANGED clusterVars
        /\ strategy' = strategy \/ (/\ strategy \in {"loop", "waiting", "woken", "drain", "events"}
                                    /\ strategy' \in {"loop", "waiting", "woken", "drain", "events"})
    BY <1>2 DEF StrategyWait, StrategyWoken, Bloom, LookAt, Started, Drain, StrategySpurious, StrategyTimeout,
                StrategyStep, NextEvent, vars, clusterVars
  <2>2. QED
    BY <1>0, <2>1, ElectionKept
<1>3. CASE BeginCluster
  <2>1. PICK level \in Levels : NextEvent(level) /\ join' = [level |-> level, cluster |-> clusterIds[level]]
    BY <1>3 DEF BeginCluster
  <2>2. join' \in [level : Levels, cluster : Nat]
    BY <2>1 DEF IInv, TypeOK
  <2>3. strategy = "events" /\ strategy' = "backoff" /\ attempt' = attempt /\ candidate' = candidate
    BY <1>3, <2>1 DEF BeginCluster, NextEvent
  <2>4. QED
    BY <1>0, <2>2, <2>3 DEF ElectionInv
<1>4. CASE BroadcastJoin
  BY <1>0, <1>4 DEF ElectionInv, BroadcastJoin, StrategyStep, clusterVars
<1>5. CASE Listen
  <2>1. /\ strategy = "listen" /\ join' = join /\ candidate' = candidate
        /\ (strategy' = "pick" /\ attempt' = attempt) \/ AttemptOver(attempt + 1)
    BY <1>5 DEF Listen
  <2>2. QED
    BY <1>0, <2>1 DEF ElectionInv, AttemptOver
<1>6. CASE Pick
  <2>1. /\ strategy = "pick" /\ join' = join
        /\ \/ strategy' = "found" /\ attempt' = attempt
           \/ ~candidate'.told /\ AttemptOver(attempt + 1)
    BY <1>6 DEF Pick
  <2>2. QED
    BY <1>0, <2>1 DEF ElectionInv, AttemptOver
<1>7. CASE Elect
  BY <1>0, <1>7 DEF ElectionInv, Elect, StrategyStep, Myself
<1>8. QED
  BY <1>1, <1>2, <1>3, <1>4, <1>5, <1>6, <1>7 DEF Next, StrategyNext

-----------------------------------------------------------------------------
(* The order of the messages.                                              *)

\* The message that the main thread passes on.
Passing == IF main = "pass" THEN <<held>> ELSE <<>>

LEMMA PassingTyped ==
  ASSUME IInv
  PROVE  Passing \in Seq(Messages)
<1>1. CASE main = "pass"
  <2>1. held \in Messages
    BY <1>1, ArrivedTyped DEF IInv, HeldInv
  <2>2. QED
    BY <1>1, <2>1, OneTyped DEF Passing
<1>2. CASE main # "pass"
  BY <1>2 DEF Passing
<1>3. QED
  BY <1>1, <1>2

\* What is kept of the message at the head of a queue and of the rest is what is kept of the queue.
LEMMA NextKept ==
  ASSUME handled \in Seq(Messages), routeQ \in Seq(Messages), NextMessage
  PROVE  Kept(handled') \o Kept(routeQ') = Kept(handled) \o Kept(routeQ)
<1>1. CASE routeQ = <<>>
  BY <1>1 DEF NextMessage
<1>2. CASE routeQ # <<>>
  <2> DEFINE m == Head(routeQ)
             t == Tail(routeQ)
  <2>1. m \in Messages /\ t \in Seq(Messages)
    BY <1>2, QueueFacts
  <2>2. handled' = Append(handled, m) /\ routeQ' = t
    BY <1>2 DEF NextMessage
  <2>3. Kept(routeQ) = Kept(<<m>>) \o Kept(t)
    BY <1>2, KeptFacts
  <2> HIDE DEF m, t
  <2>4. Kept(handled') = Kept(handled) \o Kept(<<m>>)
    BY <2>1, <2>2, KeptFacts
  <2>5. <<m>> \in Seq(Messages)
    BY <2>1, OneTyped
  <2>6. Kept(handled) \in Seq(Messages) /\ Kept(<<m>>) \in Seq(Messages) /\ Kept(t) \in Seq(Messages)
    BY <2>1, <2>5, KeptFacts
  <2>7. (Kept(handled) \o Kept(<<m>>)) \o Kept(t) = Kept(handled) \o (Kept(<<m>>) \o Kept(t))
    BY <2>6, ConcatAssociative
  <2>8. QED
    BY <2>2, <2>3, <2>4, <2>7
<1>3. QED
  BY <1>1, <1>2

LEMMA OrderStep ==
  ASSUME IInv, TypeOK', OriginInv', HeldInv', [Next]_vars
  PROVE  PassedInOrder'
<1> DEFINE A == Kept(handled)
           B == Kept(routeQ)
           C == Kept(Passing)
           D == Kept(netQ)
           R == Kept(received)
<1>1. /\ handled \in Seq(Messages) /\ routeQ \in Seq(Messages) /\ netQ \in Seq(Messages)
      /\ received \in Seq(Messages) /\ Passing \in Seq(Messages)
  BY PassingTyped DEF IInv, TypeOK
<1>2. A \in Seq(Messages) /\ B \in Seq(Messages) /\ C \in Seq(Messages) /\ D \in Seq(Messages) /\ R \in Seq(Messages)
  BY <1>1, KeptFacts
<1>3. A \o B \o C \o D = R
  <2>1. Kept(handled \o routeQ \o Passing \o netQ) = R
    BY DEF IInv, PassedInOrder, Passing
  <2> DEFINE hr == handled \o routeQ
             hrp == hr \o Passing
             hrpn == hrp \o netQ
  <2>2. Kept(hrpn) = R
    BY <2>1
  <2>3. hr = handled \o routeQ /\ hrp = hr \o Passing /\ hrpn = hrp \o netQ
    OBVIOUS
  <2> HIDE DEF hr, hrp, hrpn, A, B, C, D, R
  <2>4. Kept(hr) = Kept(handled) \o Kept(routeQ) /\ Kept(hrp) = Kept(hr) \o Kept(Passing)
        /\ Kept(hrpn) = Kept(hrp) \o Kept(netQ)
    <3>1. hr \in Seq(Messages)
      BY <1>1, <2>3, ConcatProperties
    <3>2. hrp \in Seq(Messages)
      BY <1>1, <2>3, <3>1, ConcatProperties
    <3>3. Kept(hr) = Kept(handled) \o Kept(routeQ)
      BY <1>1, <2>3, KeptFacts
    <3>4. Kept(hrp) = Kept(hr) \o Kept(Passing)
      BY <1>1, <2>3, <3>1, KeptFacts
    <3>5. Kept(hrpn) = Kept(hrp) \o Kept(netQ)
      BY <1>1, <2>3, <3>2, KeptFacts
    <3>6. QED
      BY <3>3, <3>4, <3>5
  <2>5. QED
    BY <2>2, <2>4 DEF A, B, C, D
<1>4. SUFFICES A' \o B' \o C' \o D' = R'
  <2>1. handled' \in Seq(Messages) /\ routeQ' \in Seq(Messages) /\ netQ' \in Seq(Messages)
    BY DEF TypeOK
  <2>2. Passing' \in Seq(Messages)
    <3>1. CASE main' = "pass"
      <4>1. received' \in Seq(Messages) /\ held' \in Range(received')
        BY <3>1 DEF TypeOK, HeldInv, Arrived
      <4>2. held' \in Messages
        BY <4>1, RangeOfSeq
      <4>3. QED
        BY <3>1, <4>2, OneTyped DEF Passing
    <3>2. CASE main' # "pass"
      BY <3>2 DEF Passing
    <3>3. QED
      BY <3>1, <3>2
  <2> DEFINE p == Passing'
             hr == handled' \o routeQ'
             hrp == hr \o p
             hrpn == hrp \o netQ'
  <2>3. p \in Seq(Messages) /\ hr = handled' \o routeQ' /\ hrp = hr \o p /\ hrpn = hrp \o netQ'
    BY <2>2
  <2>4. PassedInOrder' <=> Kept(hrpn) = R'
    BY DEF PassedInOrder, Passing
  <2>5. A' = Kept(handled') /\ B' = Kept(routeQ') /\ C' = Kept(p) /\ D' = Kept(netQ')
    OBVIOUS
  <2> HIDE DEF hr, hrp, hrpn, p, A, B, C, D, R
  <2>6. Kept(hr) = Kept(handled') \o Kept(routeQ') /\ Kept(hrp) = Kept(hr) \o Kept(p)
        /\ Kept(hrpn) = Kept(hrp) \o Kept(netQ')
    <3>1. hr \in Seq(Messages)
      BY <2>1, <2>3, ConcatProperties
    <3>2. hrp \in Seq(Messages)
      BY <2>3, <3>1, ConcatProperties
    <3>3. Kept(hr) = Kept(handled') \o Kept(routeQ')
      BY <2>1, <2>3, KeptFacts
    <3>4. Kept(hrp) = Kept(hr) \o Kept(p)
      BY <2>3, <3>1, KeptFacts
    <3>5. Kept(hrpn) = Kept(hrp) \o Kept(netQ')
      BY <2>1, <2>3, <3>2, KeptFacts
    <3>6. QED
      BY <3>3, <3>4, <3>5
  <2>7. Kept(hrpn) = A' \o B' \o C' \o D'
    BY <2>5, <2>6
  <2>8. QED
    BY <2>4, <2>7
<1>5. A \o B \in Seq(Messages) /\ A \o B \o C \in Seq(Messages)
  BY <1>2, ConcatProperties
<1>6. CASE ReceivePacket
  <2>1. PICK p \in Packets : LET m == [id |-> Len(received) + 1, body |-> p] IN
                             netQ' = Append(netQ, m) /\ received' = Append(received, m)
    BY <1>6 DEF ReceivePacket
  <2> DEFINE m == [id |-> Len(received) + 1, body |-> p]
             M == Kept(<<m>>)
  <2>2. m \in Messages
    BY <1>1 DEF Messages, Numbered
  <2>3. netQ' = Append(netQ, m) /\ received' = Append(received, m)
    BY <2>1
  <2> HIDE DEF m
  <2>4. D' = D \o M /\ R' = R \o M /\ M \in Seq(Messages)
    BY <1>1, <2>2, <2>3, KeptFacts, OneTyped
  <2>5. handled' = handled /\ routeQ' = routeQ /\ Passing' = Passing
    BY <1>6 DEF ReceivePacket, Passing, mainVars
  <2>6. A' = A /\ B' = B /\ C' = C
    BY <2>5
  <2> HIDE DEF A, B, C, D, R, M
  <2> DEFINE E == A \o B \o C
  <2>7. (E \o D) \o M = E \o (D \o M)
    <3> HIDE DEF E
    <3>1. E \in Seq(Messages) /\ D \in Seq(Messages) /\ M \in Seq(Messages)
      BY <1>2, <1>5, <2>4 DEF E
    <3>2. QED
      BY <3>1, ConcatAssociative
  <2>8. QED
    BY <1>3, <2>4, <2>6, <2>7
<1>7. CASE TakePacket
  <2> DEFINE m == Head(netQ)
             t == Tail(netQ)
             M == Kept(<<m>>)
  <2>1. main = "net" /\ netQ # <<>> /\ netQ' = t /\ handled' = handled /\ routeQ' = routeQ /\ received' = received
    BY <1>7 DEF TakePacket, listenVars
  <2>2. m \in Messages /\ t \in Seq(Messages) /\ D = M \o Kept(t)
    BY <1>1, <2>1, QueueFacts, KeptFacts
  <2>3. Passing = <<>>
    BY <2>1 DEF Passing
  <2>4. \/ main' = "pass" /\ held' = m
        \/ main' = "net" /\ ~IsRouting(m.body)
    BY <1>7, <2>1 DEF TakePacket, mainVars
  <2> HIDE DEF m, t
  <2>5. A' = A /\ B' = B /\ R' = R /\ D' = Kept(t) /\ C = <<>>
    BY <2>1, <2>3, KeptNone
  <2>6. M \in Seq(Messages) /\ Kept(t) \in Seq(Messages)
    BY <2>2, OneTyped, KeptFacts
  <2>7. C' = M
    <3>1. CASE main' = "pass" /\ held' = m
      BY <3>1 DEF Passing
    <3>2. CASE main' = "net" /\ ~IsRouting(m.body)
      <4>1. Passing' = <<>>
        BY <3>2 DEF Passing
      <4>2. M = <<>>
        BY <2>2, <3>2, KeptOne
      <4>3. QED
        BY <4>1, <4>2, KeptNone
    <3>3. QED
      BY <2>4, <3>1, <3>2
  <2> DEFINE T == Kept(t)
             E == A \o B
  <2>8. E \in Seq(Messages) /\ D = M \o T /\ D' = T /\ T \in Seq(Messages)
    BY <1>5, <2>2, <2>5, <2>6
  <2> HIDE DEF T, M
  <2>9. E \o <<>> = E /\ (E \o M) \o T = E \o (M \o T)
    <3> HIDE DEF E
    <3>1. E \in Seq(Messages) /\ T \in Seq(Messages) /\ M \in Seq(Messages)
      BY <2>6, <2>8
    <3>2. QED
      BY <3>1, ConcatEmptySeq, ConcatAssociative
  <2>10. E \o <<>> \o (M \o T) = R
    BY <1>3, <2>5, <2>8
  <2>11. A' \o B' = E
    BY <2>5
  <2> HIDE DEF A, B, C, D, R, E
  <2>12. QED
    BY <2>5, <2>7, <2>8, <2>9, <2>10, <2>11
<1>8. CASE PassMessage
  <2> DEFINE M == Kept(<<held>>)
  <2>1. /\ main = "pass" /\ main' = "net" /\ routeQ' = Append(routeQ, held)
        /\ netQ' = netQ /\ handled' = handled /\ received' = received
    BY <1>8 DEF PassMessage, MainStep, listenVars
  <2>2. held \in Messages
    BY <2>1, ArrivedTyped DEF IInv, HeldInv
  <2>3. B' = B \o M /\ M \in Seq(Messages)
    BY <1>1, <2>1, <2>2, KeptFacts, OneTyped
  <2>4. C = M /\ C' = <<>>
    BY <2>1, KeptNone DEF Passing
  <2>5. A' = A /\ D' = D /\ R' = R
    BY <2>1
  <2> HIDE DEF A, B, C, D, R, M
  <2>6. (A \o B) \o M = A \o (B \o M)
    <3>1. A \in Seq(Messages) /\ B \in Seq(Messages) /\ M \in Seq(Messages)
      BY <1>2, <2>3
    <3>2. QED
      BY <3>1, ConcatAssociative
  <2> DEFINE E == A \o (B \o M)
  <2>7. E \in Seq(Messages) /\ A' \o B' = E
    BY <1>2, <2>3, <2>5, ConcatProperties
  <2>8. E \o D = R
    BY <1>3, <2>4, <2>6
  <2> HIDE DEF E
  <2>9. E \o <<>> = E
    BY <2>7, ConcatEmptySeq
  <2>10. QED
    BY <2>4, <2>5, <2>7, <2>8, <2>9
<1>9. CASE StrategyWoken \/ LookAt \/ Drain
  <2>1. NextMessage /\ netQ' = netQ /\ received' = received /\ main' = main /\ held' = held
    BY <1>9 DEF StrategyWoken, LookAt, Drain, daemonVars, listenVars, mainVars
  <2>2. A' \o B' = A \o B
    BY <1>1, <2>1, NextKept
  <2>3. C' = C /\ D' = D /\ R' = R
    BY <2>1 DEF Passing
  <2> HIDE DEF A, B, C, D, R
  <2>4. QED
    BY <1>3, <2>2, <2>3
<1>10. CASE Listen \/ Pick
  <2>1. handled' = handled /\ netQ' = netQ /\ received' = received /\ main' = main /\ held' = held
    BY <1>10 DEF Listen, Pick, daemonVars, listenVars, mainVars
  <2>2. B' = B
    BY <1>10, ListenTyped, PickFacts
  <2>3. A' = A /\ C' = C /\ D' = D /\ R' = R
    BY <2>1 DEF Passing
  <2> HIDE DEF A, B, C, D, R
  <2>4. QED
    BY <1>3, <2>2, <2>3
<1>11. ASSUME UNCHANGED <<handled, routeQ, netQ, received, Passing>>
       PROVE  A' \o B' \o C' \o D' = R'
  <2>1. A' = A /\ B' = B /\ C' = C /\ D' = D /\ R' = R
    BY <1>11
  <2> HIDE DEF A, B, C, D, R
  <2>2. QED
    BY <1>3, <2>1
<1>12. CASE \/ ReceiveRequest \/ (\E l \in Listeners : Notify(l)) \/ SpuriousWakeup \/ Wait \/ NetDrained
            \/ TakeRequest \/ Relocate \/ IpcDrained \/ UNCHANGED vars
  <2>1. /\ UNCHANGED <<handled, routeQ, netQ, received>>
        /\ (main' = main /\ held' = held) \/ (main # "pass" /\ main' # "pass")
    BY <1>12 DEF ReceiveRequest, Notify, SpuriousWakeup, Wait, NetDrained, TakeRequest, Relocate, IpcDrained, vars,
                 MainStep, listenVars, mainVars
  <2>2. Passing' = Passing
    BY <2>1 DEF Passing
  <2>3. QED
    BY <1>11, <2>1, <2>2
<1>13. CASE \/ StrategyWait \/ Bloom \/ Started \/ BeginCluster \/ BroadcastJoin \/ StrategySpurious
            \/ StrategyTimeout \/ Elect
  <2>1. UNCHANGED <<handled, routeQ, netQ, received, main, held>>
    BY <1>13 DEF StrategyWait, Bloom, Started, BeginCluster, BroadcastJoin, StrategySpurious, StrategyTimeout, Elect,
                 daemonVars, listenVars, mainVars, clusterVars
  <2>2. Passing' = Passing
    BY <2>1 DEF Passing
  <2>3. QED
    BY <1>11, <2>1, <2>2
<1>14. QED
  BY <1>6, <1>7, <1>8, <1>9, <1>10, <1>12, <1>13 DEF Next, MainNext, StrategyNext

-----------------------------------------------------------------------------
(* The head of a cluster.                                                  *)

LEMMA NamedStep ==
  ASSUME IInv, TypeOK', ElectionInv', [Next]_vars
  PROVE  HeadWasNamed'
<1> SUFFICES ASSUME candidate'.told, join' # None
             PROVE  \E i \in DOMAIN received' : /\ received'[i].body.type = "response"
                                                /\ received'[i].body.level = join'.level
                                                /\ received'[i].body.cluster = join'.cluster
                                                /\ received'[i].body.head = candidate'.head
  BY DEF HeadWasNamed, Pertains
<1>1. strategy' = "found"
  BY DEF ElectionInv
<1>2. Arrived \subseteq Arrived'
  BY ArrivedStep
<1>3. CASE Pick
  <2>1. PICK m \in Arrived : Pertains(m.body) /\ m.body.head = candidate'.head
    BY <1>3, PickFacts DEF Named
  <2>2. join' = join /\ received' = received
    BY <1>3 DEF Pick, daemonVars, listenVars
  <2>3. PICK i \in DOMAIN received : received[i] = m
    BY <2>1 DEF Arrived, Range
  <2>4. QED
    BY <2>1, <2>2, <2>3 DEF Pertains
<1>4. CASE UNCHANGED <<candidate, join>>
  <2>1. HeadWasNamed /\ candidate.told /\ join # None
    <3>1. strategy = "found" /\ candidate.told
      BY <1>4 DEF IInv, ElectionInv
    <3>2. QED
      BY <1>4, <3>1 DEF IInv
  <2>2. PICK i \in DOMAIN received : Pertains(received[i].body) /\ received[i].body.head = candidate.head
    BY <2>1 DEF HeadWasNamed
  <2>3. PICK k \in DOMAIN received' : received'[k] = received[i]
    BY <1>2, <2>2 DEF Arrived, Range
  <2>4. QED
    BY <1>4, <2>2, <2>3 DEF Pertains
<1>5. CASE Elect \/ BeginCluster
  BY <1>1, <1>5 DEF Elect, BeginCluster, StrategyStep
<1>6. CASE MainNext \/ SpuriousWakeup \/ ReceivePacket \/ ReceiveRequest \/ (\E l \in Listeners : Notify(l))
  BY <1>4, <1>6 DEF MainNext, Wait, TakePacket, PassMessage, NetDrained, TakeRequest, Relocate, IpcDrained,
                    SpuriousWakeup, ReceivePacket, ReceiveRequest, Notify, clusterVars
<1>7. CASE \/ StrategyWait \/ StrategyWoken \/ Bloom \/ LookAt \/ Started \/ Drain \/ BroadcastJoin \/ Listen
           \/ StrategySpurious \/ StrategyTimeout \/ UNCHANGED vars
  BY <1>4, <1>7 DEF StrategyWait, StrategyWoken, Bloom, LookAt, Started, Drain, BroadcastJoin, Listen,
                    StrategySpurious, StrategyTimeout, clusterVars, vars
<1>8. QED
  BY <1>3, <1>5, <1>6, <1>7 DEF Next, StrategyNext

-----------------------------------------------------------------------------
(* The theorems.                                                           *)

LEMMA InitInv == Init => IInv
<1> SUFFICES ASSUME Init
             PROVE  IInv
  OBVIOUS
<1>1. TypeOK
  BY InitTyped
<1>2. PassedInOrder
  BY DEF Init, PassedInOrder
<1>3. HeadWasNamed /\ OriginInv /\ HeldInv /\ ElectionInv
  BY DEF Init, HeadWasNamed, OriginInv, HeldInv, ElectionInv, Myself
<1>4. QED
  BY <1>1, <1>2, <1>3 DEF IInv

LEMMA Inductive == Spec => []IInv
<1>1. IInv /\ [Next]_vars => IInv'
  <2> SUFFICES ASSUME IInv, [Next]_vars
               PROVE  IInv'
    OBVIOUS
  <2>1. TypeOK'
    <3>1. CASE UNCHANGED vars
      BY <3>1 DEF IInv, TypeOK, vars
    <3>2. QED
      BY <3>1, MainTyped, StrategyTyped DEF Next
  <2>2. OriginInv' /\ HeldInv' /\ ElectionInv'
    BY OriginStep, HeldStep, ElectionStep
  <2>3. PassedInOrder' /\ HeadWasNamed'
    BY <2>1, <2>2, OrderStep, NamedStep
  <2>4. QED
    BY <2>1, <2>2, <2>3 DEF IInv
<1>2. QED
  BY InitInv, <1>1, PTL DEF Spec

\* Bloom filter updates, joins and pills reach the strategy thread in the order they came in, none lost and none
\* twice, though cluster() takes responses out of the queue and puts some back.
THEOREM QueuesKeepOrder == Spec => []QueueInv
<1>1. IInv => QueueInv
  BY DEF IInv, QueueInv
<1>2. QED
  BY <1>1, Inductive, PTL

\* A head other than the node itself was named by a response that arrived, about the cluster of the join.
THEOREM HeadIsNamed == Spec => []HeadWasNamed
<1>1. IInv => HeadWasNamed
  BY DEF IInv
<1>2. QED
  BY <1>1, Inductive, PTL

=============================================================================

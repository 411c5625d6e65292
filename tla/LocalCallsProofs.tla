--------------------------- MODULE LocalCallsProofs ---------------------------
(***************************************************************************)
(* What LocalCalls says of the domain sockets, for every set of calls and  *)
(* every length of a segment.  First what FlattenSeq gives; then what the  *)
(* requests and the answers of the three daemons have in common, a list    *)
(* of facts that is all the rest uses of LocalProtocols; then the parts of *)
(* the inductive invariant, with a lemma for every action.                 *)
(***************************************************************************)
EXTENDS LocalCalls, FiniteSetTheorems, SequenceTheorems, WellFoundedInduction, TLAPS

-----------------------------------------------------------------------------
(* Induction.                                                              *)

\* A set of numbers has a least one: the intervals below its elements are finite sets, among which one
\* is contained in no other.
LEMMA LeastOne ==
  ASSUME NEW S \in SUBSET Nat, S # {}
  PROVE  \E x \in S : \A y \in S : x <= y
<1> DEFINE Below(x) == 0..(x - 1)
           T == {Below(x) : x \in S}
<1>1. T \subseteq FiniteSubsetsOf(Nat) /\ T # {}
  <2>1. \A x \in S : Below(x) \subseteq Nat /\ IsFiniteSet(Below(x))
    BY FS_Interval
  <2>2. QED
    BY <2>1 DEF FiniteSubsetsOf
<1>2. PICK t \in T : \A u \in T : ~(<<u, t>> \in StrictSubsetOrdering(Nat))
  BY <1>1, FS_StrictSubsetOrderingWellFounded, WFMin
<1>3. PICK x \in S : t = Below(x)
  BY <1>2
<1>4. ASSUME NEW y \in S
      PROVE  x <= y
  <2> SUFFICES ASSUME y < x
               PROVE  FALSE
    OBVIOUS
  <2>1. Below(y) \subseteq Below(x) /\ y \in Below(x) /\ y \notin Below(y)
    OBVIOUS
  <2>2. Below(y) \in SUBSET Nat /\ Below(x) \in SUBSET Nat /\ Below(y) # Below(x)
    BY <2>1
  <2>3. <<Below(y), Below(x)>> \in StrictSubsetOrdering(Nat)
    BY <2>1, <2>2 DEF StrictSubsetOrdering
  <2>4. QED
    BY <1>2, <1>3, <2>3
<1>5. QED
  BY <1>4

LEMMA Induction ==
  ASSUME NEW S \in SUBSET Nat, 0 \in S, \A n \in S : n + 1 \in S
  PROVE  \A n \in Nat : n \in S
<1> SUFFICES ASSUME Nat \ S # {}
             PROVE  FALSE
  OBVIOUS
<1>1. PICK x \in Nat \ S : \A y \in Nat \ S : x <= y
  BY LeastOne
<1>2. x - 1 \in Nat /\ x - 1 \notin Nat \ S
  BY <1>1
<1>3. (x - 1) + 1 \in S
  BY <1>2
<1>4. QED
  BY <1>1, <1>3

-----------------------------------------------------------------------------
(* FlattenSeq.                                                             *)

\* f is what FlattenSeq computes of the first n sequences of q.
Flattens(f, q, n) == f = [i \in 1..n |-> IF i = 1 THEN q[i] ELSE f[i - 1] \o q[i]]

LEMMA FlattensFacts ==
  ASSUME NEW f, NEW q, NEW n \in Nat, Flattens(f, q, n)
  PROVE  /\ DOMAIN f = 1..n
         /\ \A i \in 1..n : f[i] = IF i = 1 THEN q[i] ELSE f[i - 1] \o q[i]
<1> DEFINE g == [i \in 1..n |-> IF i = 1 THEN q[i] ELSE f[i - 1] \o q[i]]
<1>1. f = g
  BY DEF Flattens
<1>2. DOMAIN g = 1..n /\ \A i \in 1..n : g[i] = IF i = 1 THEN q[i] ELSE f[i - 1] \o q[i]
  OBVIOUS
<1> HIDE DEF g
<1>3. QED
  BY <1>1, <1>2

LEMMA FlattensExists ==
  ASSUME NEW q
  PROVE  \A n \in Nat : \E f : Flattens(f, q, n)
<1> DEFINE S == {n \in Nat : \E f : Flattens(f, q, n)}
<1>1. 0 \in S
  <2>1. Flattens([i \in 1..0 |-> 0], q, 0)
    BY DEF Flattens
  <2>2. QED
    BY <2>1
<1>2. ASSUME NEW n \in S
      PROVE  n + 1 \in S
  <2>1. PICK f : Flattens(f, q, n)
    OBVIOUS
  <2> DEFINE g == [i \in 1..(n + 1) |-> IF i <= n THEN f[i] ELSE IF i = 1 THEN q[i] ELSE f[i - 1] \o q[i]]
  <2>2. \A i \in 1..(n + 1) : g[i] = IF i = 1 THEN q[i] ELSE g[i - 1] \o q[i]
    BY <2>1, FlattensFacts
  <2>3. g = [i \in 1..(n + 1) |-> IF i = 1 THEN q[i] ELSE g[i - 1] \o q[i]]
    <3>1. DOMAIN g = 1..(n + 1) /\ g = [i \in 1..(n + 1) |-> g[i]]
      OBVIOUS
    <3> HIDE DEF g
    <3>2. QED
      BY <2>2, <3>1
  <2>4. Flattens(g, q, n + 1)
    BY <2>3 DEF Flattens
  <2>5. QED
    BY <2>4
<1>3. S \in SUBSET Nat
  OBVIOUS
<1>4. \A n \in Nat : n \in S
  <2> HIDE DEF S
  <2>1. QED
    BY <1>1, <1>2, <1>3, Induction
<1>5. QED
  BY <1>4

\* Two such functions agree where both are defined and their sequences do.
LEMMA FlattensAgree ==
  ASSUME NEW q, NEW r, NEW m \in Nat, NEW n \in Nat, NEW f, NEW g,
         Flattens(f, q, m), Flattens(g, r, n), m <= n, \A i \in 1..m : q[i] = r[i]
  PROVE  \A i \in 1..m : f[i] = g[i]
<1> DEFINE S == {i \in Nat : i \in 1..m => f[i] = g[i]}
<1>1. 0 \in S
  OBVIOUS
<1>2. ASSUME NEW i \in S
      PROVE  i + 1 \in S
  <2> SUFFICES ASSUME i + 1 \in 1..m
               PROVE  f[i + 1] = g[i + 1]
    OBVIOUS
  <2>1. /\ f[i + 1] = IF i + 1 = 1 THEN q[i + 1] ELSE f[(i + 1) - 1] \o q[i + 1]
        /\ g[i + 1] = IF i + 1 = 1 THEN r[i + 1] ELSE g[(i + 1) - 1] \o r[i + 1]
    BY FlattensFacts
  <2>2. (i + 1) - 1 = i /\ (i + 1 # 1 => i \in 1..m)
    OBVIOUS
  <2>3. QED
    BY <2>1, <2>2
<1>3. S \in SUBSET Nat
  OBVIOUS
<1>4. \A k \in Nat : k \in S
  <2> HIDE DEF S
  <2>1. QED
    BY <1>1, <1>2, <1>3, Induction
<1>5. QED
  BY <1>4

LEMMA FlattensNext ==
  ASSUME NEW q, NEW r, NEW n \in Nat, n # 0, NEW f, NEW g,
         Flattens(f, q, n), Flattens(g, r, n + 1), \A i \in 1..n : q[i] = r[i]
  PROVE  f[n] = g[n]
<1>1. n + 1 \in Nat /\ n <= n + 1 /\ n \in 1..n
  OBVIOUS
<1>2. \A i \in 1..n : f[i] = g[i]
  BY <1>1, FlattensAgree
<1>3. QED
  BY <1>1, <1>2

LEMMA FlattenIs ==
  ASSUME NEW q, Len(q) \in Nat, Len(q) # 0, NEW f, Flattens(f, q, Len(q))
  PROVE  FlattenSeq(q) = f[Len(q)]
<1> DEFINE F == CHOOSE g : g = [i \in 1..Len(q) |-> IF i = 1 THEN q[i] ELSE g[i - 1] \o q[i]]
<1>1. FlattenSeq(q) = F[Len(q)]
  BY DEF FlattenSeq
<1>2. Flattens(F, q, Len(q))
  BY DEF Flattens
<1> HIDE DEF F
<1>3. F[Len(q)] = f[Len(q)]
  BY <1>2, FlattensAgree
<1>4. QED
  BY <1>1, <1>3

LEMMA FlattenEmpty == FlattenSeq(<<>>) = <<>>
BY DEF FlattenSeq

\* The sequences are flattened one after the other.
LEMMA FlattenAppend ==
  ASSUME NEW X, NEW q \in Seq(Seq(X)), NEW s \in Seq(X), FlattenSeq(q) \in Seq(X)
  PROVE  FlattenSeq(Append(q, s)) = FlattenSeq(q) \o s /\ FlattenSeq(Append(q, s)) \in Seq(X)
<1> DEFINE r == Append(q, s)
           n == Len(q)
<1>1. n \in Nat /\ Len(r) = n + 1 /\ r[n + 1] = s /\ \A i \in 1..n : r[i] = q[i]
  OBVIOUS
<1>2. PICK g : Flattens(g, r, n + 1)
  <2>1. \A k \in Nat : \E g : Flattens(g, r, k)
    <3> HIDE DEF r
    <3>1. QED
      BY FlattensExists
  <2>2. QED
    BY <1>1, <2>1
<1>3. FlattenSeq(r) = g[n + 1]
  <2>1. Len(r) \in Nat /\ Len(r) # 0 /\ Flattens(g, r, Len(r))
    BY <1>1, <1>2
  <2>2. FlattenSeq(r) = g[Len(r)]
    <3> HIDE DEF r
    <3>1. QED
      BY <2>1, FlattenIs
  <2>3. QED
    BY <1>1, <2>2
<1>4. FlattenSeq(r) = FlattenSeq(q) \o s
  <2>1. CASE n = 0
    <3>1. q = <<>> /\ FlattenSeq(q) = <<>>
      BY <2>1, FlattenEmpty
    <3>2. g[n + 1] = s
      BY <1>1, <1>2, <2>1, FlattensFacts
    <3>3. QED
      BY <1>3, <3>1, <3>2
  <2>2. CASE n # 0
    <3>1. PICK f : Flattens(f, q, n)
      BY <1>1, FlattensExists
    <3>2. FlattenSeq(q) = f[n]
      BY <1>1, <2>2, <3>1, FlattenIs
    <3>3. f[n] = g[n]
      <4>1. n \in Nat /\ n # 0 /\ \A i \in 1..n : q[i] = r[i]
        BY <1>1, <2>2
      <4> HIDE DEF r, n
      <4>2. QED
        BY <1>2, <3>1, <4>1, FlattensNext
    <3>4. g[n + 1] = g[(n + 1) - 1] \o r[n + 1]
      <4>1. n + 1 \in 1..(n + 1) /\ n + 1 # 1
        BY <1>1, <2>2
      <4>2. n + 1 \in Nat
        BY <1>1
      <4> HIDE DEF r, n
      <4>3. \A i \in 1..(n + 1) : g[i] = IF i = 1 THEN r[i] ELSE g[i - 1] \o r[i]
        BY <1>2, <4>2, FlattensFacts
      <4>4. QED
        BY <4>1, <4>3
    <3>5. (n + 1) - 1 = n
      BY <1>1
    <3>6. QED
      BY <1>1, <1>3, <3>2, <3>3, <3>4, <3>5
  <2>3. QED
    BY <2>1, <2>2
<1>5. QED
  BY <1>4

LEMMA FlattenTyped ==
  ASSUME NEW X
  PROVE  \A q \in Seq(Seq(X)) : FlattenSeq(q) \in Seq(X)
<1> DEFINE S == {n \in Nat : \A q \in Seq(Seq(X)) : Len(q) = n => FlattenSeq(q) \in Seq(X)}
<1>1. 0 \in S
  <2>1. \A q \in Seq(Seq(X)) : Len(q) = 0 => q = <<>>
    OBVIOUS
  <2>2. <<>> \in Seq(X)
    OBVIOUS
  <2>3. QED
    BY <2>1, <2>2, FlattenEmpty
<1>2. ASSUME NEW n \in S
      PROVE  n + 1 \in S
  <2> SUFFICES ASSUME NEW q \in Seq(Seq(X)), Len(q) = n + 1
               PROVE  FlattenSeq(q) \in Seq(X)
    OBVIOUS
  <2>0. q # <<>>
    OBVIOUS
  <2>1. PICK r \in Seq(Seq(X)), s \in Seq(X) : q = Append(r, s)
    BY <2>0, SequenceEmptyOrAppend
  <2>2. Len(r) = n
    BY <2>1
  <2>3. FlattenSeq(r) \in Seq(X)
    BY <2>2
  <2>4. QED
    BY <2>1, <2>3, FlattenAppend
<1>3. S \in SUBSET Nat
  OBVIOUS
<1>4. \A n \in Nat : n \in S
  <2> HIDE DEF S
  <2>1. QED
    BY <1>1, <1>2, <1>3, Induction
<1>5. QED
  <2> SUFFICES ASSUME NEW q \in Seq(Seq(X))
               PROVE  FlattenSeq(q) \in Seq(X)
    OBVIOUS
  <2>1. Len(q) \in S
    BY <1>4
  <2>2. QED
    BY <2>1

LEMMA FlattenOne ==
  ASSUME NEW X, NEW s \in Seq(X)
  PROVE  FlattenSeq(<<s>>) = s
<1>1. <<>> \in Seq(Seq(X)) /\ <<>> \in Seq(X) /\ Append(<<>>, s) = <<s>> /\ <<>> \o s = s
  OBVIOUS
<1>2. FlattenSeq(Append(<<>>, s)) = FlattenSeq(<<>>) \o s
  BY <1>1, FlattenEmpty, FlattenAppend
<1>3. QED
  BY <1>1, <1>2, FlattenEmpty

LEMMA FlattenConcat ==
  ASSUME NEW X, NEW a \in Seq(Seq(X))
  PROVE  \A b \in Seq(Seq(X)) : FlattenSeq(a \o b) = FlattenSeq(a) \o FlattenSeq(b)
<1> DEFINE Same(b) == FlattenSeq(a \o b) = FlattenSeq(a) \o FlattenSeq(b)
           Good == {n \in Nat : \A b \in Seq(Seq(X)) : Len(b) = n => Same(b)}
<1>0. FlattenSeq(a) \in Seq(X)
  BY FlattenTyped
<1>1. 0 \in Good
  <2>1. \A b \in Seq(Seq(X)) : Len(b) = 0 => b = <<>>
    OBVIOUS
  <2>2. a \o <<>> = a /\ FlattenSeq(a) \o <<>> = FlattenSeq(a)
    BY <1>0
  <2>3. Same(<<>>)
    BY <2>2, FlattenEmpty
  <2>4. QED
    BY <2>1, <2>3
<1>2. ASSUME NEW n \in Good
      PROVE  n + 1 \in Good
  <2> SUFFICES ASSUME NEW b \in Seq(Seq(X)), Len(b) = n + 1
               PROVE  Same(b)
    OBVIOUS
  <2>0. b # <<>>
    OBVIOUS
  <2>1. PICK r \in Seq(Seq(X)), e \in Seq(X) : b = Append(r, e)
    BY <2>0, SequenceEmptyOrAppend
  <2>2. Len(r) = n
    BY <2>1
  <2>3. FlattenSeq(a \o r) = FlattenSeq(a) \o FlattenSeq(r)
    BY <2>2
  <2>4. a \o b = Append(a \o r, e) /\ a \o r \in Seq(Seq(X))
    BY <2>1
  <2>5. FlattenSeq(a \o r) \in Seq(X) /\ FlattenSeq(r) \in Seq(X)
    BY <2>4, FlattenTyped
  <2>6. FlattenSeq(a \o b) = FlattenSeq(a \o r) \o e
    BY <2>4, <2>5, FlattenAppend
  <2>7. FlattenSeq(b) = FlattenSeq(r) \o e
    BY <2>1, <2>5, FlattenAppend
  <2>8. (FlattenSeq(a) \o FlattenSeq(r)) \o e = FlattenSeq(a) \o (FlattenSeq(r) \o e)
    <3> DEFINE fa == FlattenSeq(a)
               fr == FlattenSeq(r)
    <3>1. fa \in Seq(X) /\ fr \in Seq(X) /\ e \in Seq(X)
      BY <1>0, <2>5
    <3> HIDE DEF fa, fr, Same, Good
    <3>2. (fa \o fr) \o e = fa \o (fr \o e)
      BY <3>1
    <3>3. QED
      BY <3>2 DEF fa, fr
  <2>9. QED
    BY <2>3, <2>6, <2>7, <2>8
<1>3. Good \in SUBSET Nat
  OBVIOUS
<1>4. \A n \in Nat : n \in Good
  <2> HIDE DEF Good
  <2>1. QED
    BY <1>1, <1>2, <1>3, Induction
<1>5. QED
  <2> SUFFICES ASSUME NEW b \in Seq(Seq(X))
               PROVE  Same(b)
    OBVIOUS
  <2>1. Len(b) \in Good
    BY <1>4
  <2>2. QED
    BY <2>1

\* One send is one field.
LEMMA FlattenSeparately ==
  ASSUME NEW X, NEW f \in Seq(X)
  PROVE  /\ Separately(f) \in Seq(Seq(X)) /\ Len(Separately(f)) = Len(f)
         /\ \A n \in 0..Len(f) : FlattenSeq(SubSeq(Separately(f), 1, n)) = SubSeq(f, 1, n)
<1> DEFINE q == Separately(f)
           S == {n \in Nat : n <= Len(f) => FlattenSeq(SubSeq(q, 1, n)) = SubSeq(f, 1, n)}
<1>1. q \in Seq(Seq(X)) /\ Len(q) = Len(f) /\ \A i \in 1..Len(f) : q[i] = <<f[i]>>
  BY DEF Separately
<1>2. 0 \in S
  <2>1. SubSeq(q, 1, 0) = <<>> /\ SubSeq(f, 1, 0) = <<>>
    BY <1>1
  <2>2. QED
    BY <2>1, FlattenEmpty
<1>3. ASSUME NEW n \in S
      PROVE  n + 1 \in S
  <2> SUFFICES ASSUME n + 1 <= Len(f)
               PROVE  FlattenSeq(SubSeq(q, 1, n + 1)) = SubSeq(f, 1, n + 1)
    OBVIOUS
  <2> HIDE DEF q
  <2>1. FlattenSeq(SubSeq(q, 1, n)) = SubSeq(f, 1, n)
    OBVIOUS
  <2>2. SubSeq(q, 1, n) \in Seq(Seq(X)) /\ SubSeq(q, 1, n + 1) = Append(SubSeq(q, 1, n), <<f[n + 1]>>)
    <3>1. q[n + 1] = <<f[n + 1]>> /\ n + 1 \in 1..Len(q) /\ n \in Nat
      BY <1>1
    <3>2. SubSeq(q, 1, n) \in Seq(Seq(X)) /\ SubSeq(q, 1, n + 1) = Append(SubSeq(q, 1, n), q[n + 1])
      BY <1>1, <3>1
    <3>3. QED
      BY <3>1, <3>2
  <2>3. SubSeq(f, 1, n) \in Seq(X) /\ SubSeq(f, 1, n + 1) = SubSeq(f, 1, n) \o <<f[n + 1]>> /\ <<f[n + 1]>> \in Seq(X)
    OBVIOUS
  <2>4. QED
    BY <2>1, <2>2, <2>3, FlattenAppend
<1>4. S \in SUBSET Nat
  OBVIOUS
<1>5. \A n \in Nat : n \in S
  <2> HIDE DEF S
  <2>1. QED
    BY <1>2, <1>3, <1>4, Induction
<1>6. QED
  BY <1>1, <1>5

Repeat(n, q) == [i \in 1..n |-> q]

LEMMA FlattenRepeat ==
  ASSUME NEW X, NEW q \in Seq(X)
  PROVE  /\ FlattenSeq(Repeat(0, q)) = <<>>
         /\ \A n \in Nat : /\ Repeat(n, q) \in Seq(Seq(X)) /\ FlattenSeq(Repeat(n, q)) \in Seq(X)
                           /\ FlattenSeq(Repeat(n + 1, q)) = FlattenSeq(Repeat(n, q)) \o q
<1>1. Repeat(0, q) = <<>>
  BY DEF Repeat
<1>2. ASSUME NEW n \in Nat
      PROVE  /\ Repeat(n, q) \in Seq(Seq(X)) /\ FlattenSeq(Repeat(n, q)) \in Seq(X)
             /\ FlattenSeq(Repeat(n + 1, q)) = FlattenSeq(Repeat(n, q)) \o q
  <2>1. Repeat(n, q) \in Seq(Seq(X))
    BY DEF Repeat
  <2>2. Repeat(n + 1, q) = Append(Repeat(n, q), q)
    BY DEF Repeat
  <2>3. FlattenSeq(Repeat(n, q)) \in Seq(X)
    BY <2>1, FlattenTyped
  <2>4. FlattenSeq(Append(Repeat(n, q), q)) = FlattenSeq(Repeat(n, q)) \o q
    BY <2>1, <2>3, FlattenAppend
  <2>5. QED
    BY <2>1, <2>2, <2>3, <2>4
<1>3. QED
  BY <1>1, <1>2, FlattenEmpty

\* The chunks of a segment are flattened one by one.
LEMMA FlattenChunks ==
  ASSUME NEW X, NEW q \in Seq(Seq(X))
  PROVE  Chunks(q) \in Seq(Seq(X)) /\ FlattenSeq(Chunks(q)) = Chunks(FlattenSeq(q))
<1> DEFINE Times(n) == FlattenSeq(Repeat(n, q))
           Flat(n) == FlattenSeq(Repeat(n, FlattenSeq(q)))
           Good == {n \in Nat : FlattenSeq(Times(n)) = Flat(n)}
<1>1. FlattenSeq(q) \in Seq(X)
  BY FlattenTyped
<1>2. 0 \in Good
  <2>1. Times(0) = <<>> /\ Flat(0) = <<>>
    BY <1>1, FlattenRepeat
  <2>2. QED
    BY <2>1, FlattenEmpty
<1>3. ASSUME NEW n \in Nat, FlattenSeq(Times(n)) = Flat(n)
      PROVE  FlattenSeq(Times(n + 1)) = Flat(n + 1)
  <2>1. Times(n) \in Seq(Seq(X)) /\ Times(n + 1) = Times(n) \o q
    BY FlattenRepeat
  <2>2. Flat(n + 1) = Flat(n) \o FlattenSeq(q)
    BY <1>1, FlattenRepeat
  <2> HIDE DEF Times, Flat
  <2>3. FlattenSeq(Times(n) \o q) = FlattenSeq(Times(n)) \o FlattenSeq(q)
    BY <2>1, FlattenConcat
  <2>4. QED
    BY <1>3, <2>1, <2>2, <2>3
<1>4. Good \in SUBSET Nat /\ \A n \in Good : n + 1 \in Good
  BY <1>3
<1>5. \A n \in Nat : n \in Good
  <2> HIDE DEF Good
  <2>1. QED
    BY <1>2, <1>4, Induction
<1>6. NumChunks \in Good
  BY <1>5, ProtocolAssumption
<1>7. Times(NumChunks) = Chunks(q) /\ Flat(NumChunks) = Chunks(FlattenSeq(q))
  BY DEF Chunks, Repeat
<1>8. Times(NumChunks) \in Seq(Seq(X))
  BY ProtocolAssumption, FlattenRepeat
<1>9. QED
  BY <1>6, <1>7, <1>8

LEMMA ChunksTyped ==
  ASSUME NEW X, NEW q \in Seq(X)
  PROVE  Chunks(q) \in Seq(X)
<1>1. [i \in 1..NumChunks |-> q] \in Seq(Seq(X))
  BY ProtocolAssumption
<1>2. QED
  BY <1>1, FlattenTyped DEF Chunks

\* \o by another name: the provers take the facts about it as they are stated.
Cat(a, b) == a \o b

LEMMA CatAssociative ==
  ASSUME NEW X, NEW a \in Seq(X), NEW b \in Seq(X), NEW c \in Seq(X)
  PROVE  Cat(Cat(a, b), c) = Cat(a, Cat(b, c)) /\ Cat(a, b) \in Seq(X)
BY DEF Cat

LEMMA FlattenFour ==
  ASSUME NEW X, NEW a \in Seq(X), NEW b \in Seq(X), NEW c \in Seq(X), NEW d \in Seq(X)
  PROVE  FlattenSeq(<<a, b, c, d>>) = Cat(Cat(Cat(a, b), c), d)
<1>1. FlattenSeq(<<a>>) = a
  BY FlattenOne
<1>2. <<a>> \in Seq(Seq(X)) /\ <<a, b>> = Append(<<a>>, b)
  OBVIOUS
<1>3. FlattenSeq(<<a, b>>) = Cat(a, b) /\ FlattenSeq(<<a, b>>) \in Seq(X)
  BY <1>1, <1>2, FlattenAppend DEF Cat
<1>4. <<a, b>> \in Seq(Seq(X)) /\ <<a, b, c>> = Append(<<a, b>>, c)
  OBVIOUS
<1>5. FlattenSeq(Append(<<a, b>>, c)) = FlattenSeq(<<a, b>>) \o c /\ FlattenSeq(Append(<<a, b>>, c)) \in Seq(X)
  BY <1>3, <1>4, FlattenAppend
<1>6. FlattenSeq(<<a, b, c>>) = Cat(Cat(a, b), c) /\ FlattenSeq(<<a, b, c>>) \in Seq(X)
  BY <1>3, <1>4, <1>5 DEF Cat
<1>7. <<a, b, c>> \in Seq(Seq(X)) /\ <<a, b, c, d>> = Append(<<a, b, c>>, d)
  OBVIOUS
<1>8. FlattenSeq(Append(<<a, b, c>>, d)) = FlattenSeq(<<a, b, c>>) \o d
  BY <1>6, <1>7, FlattenAppend
<1>9. QED
  BY <1>6, <1>7, <1>8 DEF Cat

LEMMA FlattenAfter ==
  ASSUME NEW X, NEW h \in Seq(X), NEW a \in Seq(X), NEW b \in Seq(X), NEW c \in Seq(X), NEW d \in Seq(X)
  PROVE  FlattenSeq(<<Cat(h, a), b, c, d>>) = Cat(h, Cat(Cat(Cat(a, b), c), d))
<1>1. Cat(h, a) \in Seq(X)
  BY CatAssociative
<1>2. FlattenSeq(<<Cat(h, a), b, c, d>>) = Cat(Cat(Cat(Cat(h, a), b), c), d)
  BY <1>1, FlattenFour
<1>3. Cat(Cat(Cat(Cat(h, a), b), c), d) = Cat(h, Cat(Cat(Cat(a, b), c), d))
  BY CatAssociative
<1>4. QED
  BY <1>2, <1>3

-----------------------------------------------------------------------------
(* The protocols.                                                          *)

Names == {"type", "payload_size", "payload", "publisher", "name_len", "name", "timestamp", "size", "data",
          "num_chunks", "rv", "chunks", "file_len", "mode", "distance", "orig_level", "orig_clusterId",
          "dest_level", "dest_clusterId", "retries", "timeout", "ttl", "bits", "words", "vector", "nodeId",
          "hops", "need_fwd"}
Filled == Seq(Names) \ {<<>>}

\* A call that the pool serves: its request is what the listener and the job read, its answer what the
\* job sends.
Asks(call_, job, header) ==
  /\ call_.sends \in Seq(Filled) /\ call_.sends # <<>> /\ call_.awaits \in Filled
  /\ job.reads \in Filled /\ job.replies = call_.awaits
  /\ FlattenSeq(call_.sends) = header \o job.reads

\* A call that is a message for the main thread.
Tells(call_, header) ==
  /\ call_.sends \in Seq(Filled) /\ call_.sends # <<>> /\ call_.awaits = <<>>
  /\ FlattenSeq(call_.sends) \in Seq(Names) /\ Len(FlattenSeq(call_.sends)) > Len(header)

LEMMA ContentIs ==
  /\ Content \in Seq(Names)
  /\ Content = ((<<"publisher", "name_len">> \o <<"name">>) \o <<"timestamp", "size">>) \o <<"data">>
<1> DEFINE a == <<"publisher", "name_len">>
           b == <<"publisher", "name_len", "name">>
           c == <<"publisher", "name_len", "name", "timestamp">>
           d == <<"publisher", "name_len", "name", "timestamp", "size">>
<1>1. a \in Seq(Names) /\ b \in Seq(Names) /\ c \in Seq(Names) /\ d \in Seq(Names) /\ Content \in Seq(Names)
  BY DEF Names, Content
<1>2. "name" \in Names /\ "timestamp" \in Names /\ "size" \in Names /\ "data" \in Names
  BY DEF Names
<1>3. b = Append(a, "name") /\ c = Append(b, "timestamp") /\ d = Append(c, "size") /\ Content = Append(d, "data")
  BY DEF Content
<1>4. <<"timestamp", "size">> = Append(<<"timestamp">>, "size") /\ <<"timestamp">> \in Seq(Names)
  BY DEF Names
<1> HIDE DEF a, b, c, d
<1>5. b = a \o <<"name">> /\ c = b \o <<"timestamp">> /\ d = c \o <<"size">> /\ Content = d \o <<"data">>
      /\ <<"timestamp", "size">> = <<"timestamp">> \o <<"size">>
  BY <1>1, <1>2, <1>3, <1>4, AppendIsConcat
<1>6. d = b \o (<<"timestamp">> \o <<"size">>)
  BY <1>1, <1>2, <1>5, ConcatAssociative
<1>7. QED
  BY <1>1, <1>5, <1>6 DEF a

LEMMA LiteralFacts ==
  /\ <<"type">> \o <<"payload_size">> = <<"type", "payload_size">>
  /\ <<"type">> \o <<"payload_size", "payload">> = <<"type", "payload_size", "payload">>
  /\ <<"chunks", "file_len">> \o <<"mode", "distance">> = <<"chunks", "file_len", "mode", "distance">>
<1>1. /\ <<"type">> \in Seq(Names) /\ <<"payload_size">> \in Seq(Names) /\ <<"payload">> \in Seq(Names)
      /\ <<"chunks", "file_len">> \in Seq(Names) /\ <<"mode">> \in Seq(Names) /\ <<"distance">> \in Seq(Names)
      /\ <<"type", "payload_size">> \in Seq(Names) /\ <<"chunks", "file_len", "mode">> \in Seq(Names)
  BY DEF Names
<1>2. "payload_size" \in Names /\ "payload" \in Names /\ "mode" \in Names /\ "distance" \in Names
  BY DEF Names
<1>3. /\ <<"type", "payload_size">> = Append(<<"type">>, "payload_size")
      /\ <<"payload_size", "payload">> = Append(<<"payload_size">>, "payload")
      /\ <<"type", "payload_size", "payload">> = Append(<<"type", "payload_size">>, "payload")
      /\ <<"mode", "distance">> = Append(<<"mode">>, "distance")
      /\ <<"chunks", "file_len", "mode">> = Append(<<"chunks", "file_len">>, "mode")
      /\ <<"chunks", "file_len", "mode", "distance">> = Append(<<"chunks", "file_len", "mode">>, "distance")
  OBVIOUS
<1>4. /\ <<"type", "payload_size">> = <<"type">> \o <<"payload_size">>
      /\ <<"payload_size", "payload">> = <<"payload_size">> \o <<"payload">>
      /\ <<"type", "payload_size", "payload">> = <<"type", "payload_size">> \o <<"payload">>
      /\ <<"mode", "distance">> = <<"mode">> \o <<"distance">>
      /\ <<"chunks", "file_len", "mode">> = <<"chunks", "file_len">> \o <<"mode">>
      /\ <<"chunks", "file_len", "mode", "distance">> = <<"chunks", "file_len", "mode">> \o <<"distance">>
  BY <1>1, <1>2, <1>3, AppendIsConcat
<1>5. <<"type">> \o (<<"payload_size">> \o <<"payload">>) = (<<"type">> \o <<"payload_size">>) \o <<"payload">>
  BY <1>1, ConcatAssociative
<1>6. <<"chunks", "file_len">> \o (<<"mode">> \o <<"distance">>)
         = (<<"chunks", "file_len">> \o <<"mode">>) \o <<"distance">>
  BY <1>1, ConcatAssociative
<1>7. QED
  BY <1>4, <1>5, <1>6

LEMMA ObjectFacts ==
  ASSUME NEW header \in Seq(Names)
  PROVE  /\ Object(header) \in Seq(Filled) /\ Object(header) # <<>>
         /\ FlattenSeq(Object(header)) = Cat(header, Content)
<1> DEFINE first == <<"publisher", "name_len">>
           name == <<"name">>
           about == <<"timestamp", "size">>
           data == <<"data">>
<1>1. first \in Seq(Names) /\ name \in Seq(Names) /\ about \in Seq(Names) /\ data \in Seq(Names)
  BY DEF Names
<1>2. Content = Cat(Cat(Cat(first, name), about), data)
  BY ContentIs DEF Cat
<1>3. Object(header) = <<Cat(header, first), name, about, data>>
  BY DEF Object, Cat
<1>4. Cat(header, first) \in Filled
  BY <1>1 DEF Filled, Cat
<1>5. name \in Filled /\ about \in Filled /\ data \in Filled
  BY <1>1 DEF Filled
<1> HIDE DEF first, name, about, data
<1>6. FlattenSeq(Object(header)) = Cat(header, Content)
  BY <1>1, <1>2, <1>3, FlattenAfter
<1>7. Object(header) \in Seq(Filled) /\ Object(header) # <<>>
  BY <1>3, <1>4, <1>5
<1>8. QED
  BY <1>6, <1>7

LEMMA SeparatelyFacts ==
  ASSUME NEW f \in Filled
  PROVE  /\ Separately(f) \in Seq(Filled) /\ Separately(f) # <<>> /\ Len(Separately(f)) = Len(f)
         /\ FlattenSeq(Separately(f)) = f
         /\ Len(FlattenSeq(SubSeq(Separately(f), 1, Len(f) - 1))) = Len(f) - 1
<1>1. f \in Seq(Names) /\ f # <<>> /\ Len(f) \in Nat /\ Len(f) > 0
  BY DEF Filled
<1>2. Separately(f) \in Seq(Filled) /\ Separately(f) # <<>>
  BY <1>1 DEF Separately, Filled
<1>3. /\ Separately(f) \in Seq(Seq(Names)) /\ Len(Separately(f)) = Len(f)
      /\ \A n \in 0..Len(f) : FlattenSeq(SubSeq(Separately(f), 1, n)) = SubSeq(f, 1, n)
  BY <1>1, FlattenSeparately
<1>4. SubSeq(Separately(f), 1, Len(Separately(f))) = Separately(f) /\ SubSeq(f, 1, Len(f)) = f
  BY <1>1, <1>3, SubSeqFull
<1>5. FlattenSeq(Separately(f)) = f
  <2>1. Len(f) \in 0..Len(f)
    BY <1>1
  <2>2. FlattenSeq(SubSeq(Separately(f), 1, Len(f))) = SubSeq(f, 1, Len(f))
    BY <1>3, <2>1
  <2>3. QED
    BY <1>3, <1>4, <2>2
<1>6. FlattenSeq(SubSeq(Separately(f), 1, Len(f) - 1)) = SubSeq(f, 1, Len(f) - 1)
  <2>1. Len(f) - 1 \in 0..Len(f)
    BY <1>1
  <2>2. QED
    BY <1>3, <2>1
<1>7. Len(SubSeq(f, 1, Len(f) - 1)) = Len(f) - 1
  <2>1. Len(f) - 1 \in Nat /\ \A i \in 1..(Len(f) - 1) : f[i] \in Names
    BY <1>1
  <2>2. \A k \in Nat : (\A i \in 1..k : f[i] \in Names) => Len(SubSeq(f, 1, k)) = k
    OBVIOUS
  <2>3. QED
    BY <2>1, <2>2
<1>8. QED
  BY <1>2, <1>3, <1>5, <1>6, <1>7

LEMMA FilledFacts ==
  /\ Name \in Filled /\ Route \in Filled /\ BfrHeader \in Filled /\ Content \in Filled
  /\ \A a, b \in Filled : a \o b \in Filled /\ Len(a \o b) = Len(a) + Len(b)
  /\ \A a \in Filled : a \in Seq(Names) /\ Len(a) \in Nat /\ Len(a) > 0 /\ Head(a) \in Names
  /\ \A n \in Names : <<n>> \in Filled
<1>1. Name \in Filled /\ Route \in Filled /\ BfrHeader \in Filled /\ Content \in Filled
  BY DEF Filled, Names, Name, Route, BfrHeader, Content
<1>2. \A a, b \in Filled : a \o b \in Filled /\ Len(a \o b) = Len(a) + Len(b)
  BY DEF Filled
<1>3. \A a \in Filled : a \in Seq(Names) /\ Len(a) \in Nat /\ Len(a) > 0 /\ Head(a) \in Names
  BY DEF Filled
<1>4. \A n \in Names : <<n>> \in Filled
  BY DEF Filled
<1>5. QED
  BY <1>1, <1>2, <1>3, <1>4

(* The messages.                                                           *)

LEMMA OneTells ==
  ASSUME NEW f \in Filled, NEW header, Len(header) \in Nat, Len(f) > Len(header)
  PROVE  /\ Tells(Call(<<f>>, <<>>), header)
         /\ FlattenSeq(SubSeq(<<f>>, 1, Len(<<f>>) - 1)) = <<>>
<1>1. f \in Seq(Names) /\ f # <<>>
  BY DEF Filled
<1>2. FlattenSeq(<<f>>) = f
  BY <1>1, FlattenOne
<1>3. <<f>> \in Seq(Filled) /\ <<f>> # <<>>
  OBVIOUS
<1>4. SubSeq(<<f>>, 1, Len(<<f>>) - 1) = <<>>
  OBVIOUS
<1>5. QED
  BY <1>1, <1>2, <1>3, <1>4, FlattenEmpty DEF Tells, Call

LEMMA SeparateTells ==
  ASSUME NEW f \in Filled, NEW header, Len(header) \in Nat, Len(f) > Len(header)
  PROVE  Tells(Call(Separately(f), <<>>), header)
<1>1. f \in Seq(Names)
  BY DEF Filled
<1>2. QED
  BY <1>1, SeparatelyFacts DEF Tells, Call

(* The requests.                                                           *)

LEMMA SeparateAsks ==
  ASSUME NEW f \in Filled, NEW awaits \in Filled, NEW reads \in Filled, NEW header, f = header \o reads
  PROVE  Asks(Call(Separately(f), awaits), Service(reads, awaits), header)
BY SeparatelyFacts DEF Asks, Call, Service

LEMMA OneAsks ==
  ASSUME NEW f \in Filled, NEW awaits \in Filled, NEW reads \in Filled, NEW header, f = header \o reads
  PROVE  Asks(Call(<<f>>, awaits), Service(reads, awaits), header)
<1>1. f \in Seq(Names) /\ f # <<>>
  BY DEF Filled
<1>2. FlattenSeq(<<f>>) = f
  BY <1>1, FlattenOne
<1>3. <<f>> \in Seq(Filled) /\ <<f>> # <<>>
  OBVIOUS
<1>4. QED
  BY <1>2, <1>3 DEF Asks, Call, Service

LEMMA PublishAsks == Asks(Publish, PublishResponse, <<"type">>)
<1>1. <<"type", "payload_size">> \in Seq(Names) /\ <<"type">> \in Filled /\ <<"payload_size">> \in Filled
      /\ <<"rv">> \in Filled
  BY DEF Names, Filled
<1>2. /\ Object(<<"type", "payload_size">>) \in Seq(Filled) /\ Object(<<"type", "payload_size">>) # <<>>
      /\ FlattenSeq(Object(<<"type", "payload_size">>)) = Cat(<<"type", "payload_size">>, Content)
  BY <1>1, ObjectFacts
<1>3. Cat(<<"type", "payload_size">>, Content) = <<"type">> \o (<<"payload_size">> \o Content)
  <2>1. ASSUME NEW a \in Seq(Names), NEW b \in Seq(Names), NEW c \in Seq(Names)
        PROVE  Cat(a \o b, c) = a \o (b \o c)
    BY DEF Cat
  <2>2. <<"type">> \in Seq(Names) /\ <<"payload_size">> \in Seq(Names) /\ Content \in Seq(Names)
    BY <1>1, FilledFacts
  <2>3. Cat(<<"type">> \o <<"payload_size">>, Content) = <<"type">> \o (<<"payload_size">> \o Content)
    BY <2>1, <2>2
  <2>4. QED
    BY <2>3, LiteralFacts
<1>4. <<"payload_size">> \o Content \in Filled
  BY <1>1, FilledFacts
<1>5. QED
  BY <1>1, <1>2, <1>3, <1>4 DEF Asks, Publish, PublishResponse, Call, Service

\* The name of the segment, then its chunks; each comes with its own size.
LEMMA PublishSeqAsks == Asks(PublishSeq, SeqPublish, <<"type">>)
<1> DEFINE type == <<"type">>
           payload == <<"payload_size">>
           number == <<"num_chunks">>
           first == Object(<<"type", "payload_size">>)
           chunk == Object(<<"payload_size">>)
           body == Cat(payload, Content)
<1>1. <<"type", "payload_size">> \in Seq(Names) /\ type \in Filled /\ payload \in Filled /\ number \in Filled
      /\ <<"rv">> \in Filled /\ payload \in Seq(Names) /\ type \in Seq(Names) /\ number \in Seq(Names)
  BY DEF Names, Filled
<1>2. Content \in Filled /\ Content \in Seq(Names) /\ <<"type", "payload_size">> = Cat(type, payload)
  BY FilledFacts, LiteralFacts DEF Cat
<1>3. /\ first \in Seq(Filled) /\ first # <<>> /\ FlattenSeq(first) = Cat(Cat(type, payload), Content)
      /\ chunk \in Seq(Filled) /\ FlattenSeq(chunk) = body
  <2>1. first \in Seq(Filled) /\ first # <<>> /\ FlattenSeq(first) = Cat(<<"type", "payload_size">>, Content)
    BY <1>1, ObjectFacts
  <2>2. chunk \in Seq(Filled) /\ FlattenSeq(chunk) = Cat(payload, Content)
    BY <1>1, ObjectFacts
  <2>3. QED
    BY <1>2, <2>1, <2>2
<1>4. body \in Seq(Names) /\ body \in Filled
  BY <1>1, <1>2, FilledFacts DEF Cat
<1>5. PublishSeq.sends = (first \o <<number>>) \o Chunks(chunk) /\ PublishSeq.awaits = <<"rv">>
  BY DEF PublishSeq, Call
<1>6. SeqPublish.reads = Cat(Cat(body, number), Chunks(body)) /\ SeqPublish.replies = <<"rv">>
  BY DEF SeqPublish, Service, Cat
<1>7. \A q \in Seq(Filled) : q \in Seq(Seq(Names))
  BY DEF Filled
<1> HIDE DEF type, payload, number, first, chunk, body
<1>8. /\ Chunks(chunk) \in Seq(Filled) /\ Chunks(chunk) \in Seq(Seq(Names))
      /\ FlattenSeq(Chunks(chunk)) = Chunks(body) /\ Chunks(body) \in Seq(Names)
  BY <1>3, <1>4, <1>7, ChunksTyped, FlattenChunks
<1>9. first \o <<number>> \in Seq(Filled) /\ FlattenSeq(first \o <<number>>) = Cat(FlattenSeq(first), number)
  <2>1. first \o <<number>> \in Seq(Filled) /\ <<number>> \in Seq(Seq(Names)) /\ first \in Seq(Seq(Names))
    BY <1>1, <1>3, <1>7
  <2>2. FlattenSeq(first \o <<number>>) = FlattenSeq(first) \o FlattenSeq(<<number>>)
    BY <2>1, FlattenConcat
  <2>3. FlattenSeq(<<number>>) = number
    BY <1>1, FlattenOne
  <2>4. QED
    BY <2>1, <2>2, <2>3 DEF Cat
<1>10. FlattenSeq(PublishSeq.sends) = Cat(Cat(FlattenSeq(first), number), Chunks(body))
  <2> DEFINE front == first \o <<number>>
  <2>1. front \in Seq(Seq(Names)) /\ FlattenSeq(front) = Cat(FlattenSeq(first), number)
    BY <1>7, <1>9
  <2>2. PublishSeq.sends = front \o Chunks(chunk)
    BY <1>5
  <2> HIDE DEF front
  <2>3. FlattenSeq(front \o Chunks(chunk)) = FlattenSeq(front) \o FlattenSeq(Chunks(chunk))
    BY <1>8, <2>1, FlattenConcat
  <2>4. QED
    BY <1>8, <2>1, <2>2, <2>3 DEF Cat
<1>11. Cat(Cat(Cat(Cat(type, payload), Content), number), Chunks(body))
          = Cat(type, Cat(Cat(Cat(payload, Content), number), Chunks(body)))
  BY <1>1, <1>2, <1>8, CatAssociative
<1>12. PublishSeq.sends \in Seq(Filled) /\ PublishSeq.sends # <<>>
  BY <1>3, <1>5, <1>8, <1>9
<1>13. Cat(Cat(body, number), Chunks(body)) \in Filled
  <2>1. Cat(body, number) \in Filled
    BY <1>1, <1>4, FilledFacts DEF Cat
  <2>2. QED
    BY <1>8, <2>1 DEF Filled, Cat
<1>14. QED
  BY <1>1, <1>3, <1>5, <1>6, <1>10, <1>11, <1>12, <1>13 DEF Asks, type, body, Cat

LEMMA RetrieveAsks ==
  /\ Asks(Retrieve, RetrieveResponse, <<"type">>)
  /\ Asks(RetrieveSeq, SeqResponse, <<"type">>) /\ Len(RetrieveSeq.awaits) # 1
<1>1. <<"type">> \in Filled /\ <<"rv">> \in Filled /\ <<"chunks", "file_len">> \in Filled
  BY DEF Names, Filled
<1>2. Name \in Filled /\ Content \in Filled /\ <<"rv">> \o Content \in Filled /\ <<"type">> \o Name \in Filled
      /\ Name \o <<"chunks", "file_len">> \in Filled /\ (<<"type">> \o Name) \o <<"chunks", "file_len">> \in Filled
  BY <1>1, FilledFacts
<1>3. Asks(Retrieve, RetrieveResponse, <<"type">>)
  BY <1>2, OneAsks DEF Retrieve, RetrieveResponse
<1>4. (<<"type">> \o Name) \o <<"chunks", "file_len">> = <<"type">> \o (Name \o <<"chunks", "file_len">>)
  <2>1. \A a, b, c \in Filled : (a \o b) \o c = a \o (b \o c)
    BY DEF Filled
  <2>2. QED
    BY <1>1, <1>2, <2>1
<1>5. Asks(RetrieveSeq, SeqResponse, <<"type">>)
  BY <1>2, <1>4, SeparateAsks DEF RetrieveSeq, SeqResponse, SegmentRequest, SegmentContent
<1>6. RetrieveSeq.awaits = <<"rv">> \o Content
  BY DEF RetrieveSeq, Call, SegmentContent
<1>7. Len(<<"rv">> \o Content) = Len(<<"rv">>) + Len(Content)
  BY <1>1, <1>2, FilledFacts
<1>8. Len(<<"rv">>) = 1 /\ Len(Content) = 6
  BY DEF Content
<1>9. QED
  BY <1>3, <1>5, <1>6, <1>7, <1>8

LEMMA RetrieveOptsAsks == Asks(RetrieveOpts, OptResponse, <<"type">>) /\ Len(RetrieveOpts.awaits) # 1
<1> DEFINE type == <<"type">>
           segment == <<"chunks", "file_len">>
           how == <<"mode", "distance">>
           limits == <<"retries", "timeout", "ttl">>
<1>1. type \in Filled /\ segment \in Filled /\ how \in Filled /\ limits \in Filled /\ <<"rv">> \in Filled
  BY DEF Names, Filled
<1>2. Name \in Filled /\ Content \in Filled /\ Route \in Filled /\ <<"rv">> \o Content \in Filled
  BY <1>1, FilledFacts
<1>3. segment \o how = <<"chunks", "file_len", "mode", "distance">>
  BY LiteralFacts
<1>4. /\ RetrieveOpts = Call(Separately(Cat(Cat(Cat(type, Name), segment), Cat(Cat(how, Route), limits))), <<"rv">> \o Content)
      /\ OptResponse = Service(Cat(Cat(Cat(Name, <<"chunks", "file_len", "mode", "distance">>), Route), limits),
                               <<"rv">> \o Content)
  BY DEF RetrieveOpts, OptResponse, SegmentRequest, Options, OptionsContent, Cat
<1>5. Cat(segment, how) = <<"chunks", "file_len", "mode", "distance">>
  BY <1>3 DEF Cat
<1> HIDE DEF type, segment, how, limits
<1>6. \A a \in Filled : a \in Seq(Names)
  BY FilledFacts
<1>7. \A a, b \in Filled : Cat(a, b) \in Filled
  BY FilledFacts DEF Cat
<1>8. Cat(Cat(Cat(type, Name), segment), Cat(Cat(how, Route), limits))
         = Cat(type, Cat(Cat(Cat(Name, Cat(segment, how)), Route), limits))
  <2>1. type \in Seq(Names) /\ Name \in Seq(Names) /\ segment \in Seq(Names) /\ how \in Seq(Names)
        /\ Route \in Seq(Names) /\ limits \in Seq(Names)
    BY <1>1, <1>2, <1>6
  <2>2. ASSUME NEW t \in Seq(Names), NEW n \in Seq(Names), NEW s \in Seq(Names), NEW h \in Seq(Names),
               NEW r \in Seq(Names), NEW l \in Seq(Names)
        PROVE  Cat(Cat(Cat(t, n), s), Cat(Cat(h, r), l)) = Cat(t, Cat(Cat(Cat(n, Cat(s, h)), r), l))
    BY CatAssociative
  <2>3. QED
    BY <2>1, <2>2
<1>9. Cat(Cat(Cat(type, Name), segment), Cat(Cat(how, Route), limits)) \in Filled
      /\ Cat(Cat(Cat(Name, Cat(segment, how)), Route), limits) \in Filled
  BY <1>1, <1>2, <1>7
<1>10. Asks(RetrieveOpts, OptResponse, type)
  <2> DEFINE f == Cat(Cat(Cat(type, Name), segment), Cat(Cat(how, Route), limits))
             r == Cat(Cat(Cat(Name, Cat(segment, how)), Route), limits)
             a == <<"rv">> \o Content
  <2>1. f \in Filled /\ r \in Filled /\ a \in Filled /\ f = type \o r
    BY <1>2, <1>8, <1>9 DEF Cat
  <2>2. RetrieveOpts = Call(Separately(f), a) /\ OptResponse = Service(r, a)
    BY <1>4, <1>5
  <2> HIDE DEF f, r, a
  <2>3. QED
    BY <2>1, <2>2, SeparateAsks
<1>11. RetrieveOpts.awaits = <<"rv">> \o Content
  BY <1>4 DEF Call
<1>12. Len(<<"rv">> \o Content) = Len(<<"rv">>) + Len(Content)
  BY <1>1, <1>2, FilledFacts
<1>13. Len(<<"rv">>) = 1 /\ Len(Content) = 6
  BY DEF Content
<1>14. QED
  BY <1>10, <1>11, <1>12, <1>13 DEF type

LEMMA SummaryAsks ==
  /\ Asks(Summary, SummaryResponse, <<"type">>)
  /\ Asks(FloodSummary, FloodSummaryResponse, <<"type">>)
<1>1. /\ <<"type", "payload_size", "payload">> \in Filled /\ <<"payload_size", "payload">> \in Filled
      /\ <<"bits", "words", "vector">> \in Filled /\ <<"words", "vector">> \in Filled
  BY DEF Names, Filled
<1>2. <<"type", "payload_size", "payload">> = <<"type">> \o <<"payload_size", "payload">>
  BY LiteralFacts
<1>3. Asks(Summary, SummaryResponse, <<"type">>)
  BY <1>1, <1>2, OneAsks DEF Summary, SummaryResponse
<1>4. FloodSummary = Call(<<<<"type", "payload_size", "payload">>>>, <<"words", "vector">>)
      /\ FloodSummaryResponse = Service(<<"payload_size", "payload">>, <<"words", "vector">>)
  BY DEF FloodSummary, FloodSummaryResponse, Summary, SummaryResponse, Call, Service
<1>5. QED
  BY <1>1, <1>2, <1>3, <1>4, OneAsks

LEMMA BfrAsks ==
  /\ Asks(SendQry, FwdQueryResponse, BfrHeader)
  /\ Asks(SendWhere, DestQueryResponse, BfrHeader)
  /\ Asks(QueryDistance, DistQueryResponse, BfrHeader)
<1>1. /\ <<"name_len", "name">> \in Filled /\ <<"distance">> \in Filled /\ <<"distance", "need_fwd">> \in Filled
      /\ BfrHeader \in Filled /\ Route \in Filled
  BY FilledFacts DEF Names, Filled
<1>2. \A a, b, c \in Filled : (a \o b) \o c = a \o (b \o c)
  BY DEF Filled
<1>3. \A a, b \in Filled : a \o b \in Filled
  BY FilledFacts
<1>4. Asks(SendWhere, DestQueryResponse, BfrHeader)
  <2>1. BfrHeader \o <<"name_len", "name">> \in Filled /\ Route \o <<"distance">> \in Filled
    BY <1>1, <1>3
  <2>2. QED
    BY <1>1, <2>1, SeparateAsks DEF SendWhere, DestQueryResponse
<1>5. Asks(QueryDistance, DistQueryResponse, BfrHeader)
  <2>1. BfrHeader \o Route \in Filled
    BY <1>1, <1>3
  <2>2. QED
    BY <1>1, <2>1, SeparateAsks DEF QueryDistance, DistQueryResponse
<1>6. Asks(SendQry, FwdQueryResponse, BfrHeader)
  <2> DEFINE name == <<"name_len", "name">>
             far == <<"distance">>
             f == Cat(Cat(Cat(BfrHeader, name), Route), far)
             r == Cat(Cat(name, Route), far)
             a == Route \o <<"distance", "need_fwd">>
  <2>1. name \in Filled /\ far \in Filled /\ BfrHeader \in Filled /\ Route \in Filled /\ a \in Filled
    BY <1>1, <1>3
  <2>2. SendQry = Call(Separately(f), a) /\ FwdQueryResponse = Service(r, a)
    BY DEF SendQry, FwdQueryResponse, Cat
  <2> HIDE DEF name, far, a
  <2>3. f \in Filled /\ r \in Filled
    BY <1>3, <2>1 DEF Cat
  <2>4. f = Cat(BfrHeader, r)
    <3>1. name \in Seq(Names) /\ far \in Seq(Names) /\ BfrHeader \in Seq(Names) /\ Route \in Seq(Names)
      BY <2>1, FilledFacts
    <3>2. ASSUME NEW h \in Seq(Names), NEW n \in Seq(Names), NEW t \in Seq(Names), NEW l \in Seq(Names)
          PROVE  Cat(Cat(Cat(h, n), t), l) = Cat(h, Cat(Cat(n, t), l))
      BY CatAssociative
    <3>3. QED
      BY <3>1, <3>2
  <2>5. f = BfrHeader \o r
    BY <2>4 DEF Cat
  <2> HIDE DEF f, r
  <2>6. QED
    BY <2>1, <2>2, <2>3, <2>5, SeparateAsks
<1>7. QED
  BY <1>4, <1>5, <1>6

(* All of the daemons.                                                     *)

\* What is sent before the last send of a request.
AllButLast(sends) == FlattenSeq(SubSeq(sends, 1, Len(sends) - 1))

LEMMA KindFacts ==
  /\ KindsOf("ccnud") = {"timeout", "retries", "publish", "publishSeq", "retrieve", "retrieveSeq", "retrieveOpts",
                         "summary"}
  /\ KindsOf("ccnfd") = {"timeout", "retries", "publish", "publishSeq", "retrieve", "retrieveSeq", "summary"}
  /\ KindsOf("bfrd") = {"message", "location", "hops", "forward", "where", "distance"}
  /\ Pooled("ccnud") = {"publish", "publishSeq", "retrieve", "retrieveSeq", "retrieveOpts", "summary"}
  /\ Pooled("ccnfd") = {"publish", "publishSeq", "retrieve", "retrieveSeq", "summary"}
  /\ Pooled("bfrd") = {"forward", "where", "distance"}
<1>1. KindsOf("ccnud") = {"timeout", "retries", "publish", "publishSeq", "retrieve", "retrieveSeq", "retrieveOpts",
                         "summary"}
  BY DEF KindsOf, ClientOf, CcnuClient
<1>2. KindsOf("ccnfd") = {"timeout", "retries", "publish", "publishSeq", "retrieve", "retrieveSeq", "summary"}
  BY DEF KindsOf, ClientOf, CcnfClient
<1>3. KindsOf("bfrd") = {"message", "location", "hops", "forward", "where", "distance"}
  BY DEF KindsOf, ClientOf, BfrClient
<1>4. Pooled("ccnud") = {"publish", "publishSeq", "retrieve", "retrieveSeq", "retrieveOpts", "summary"}
  BY DEF Pooled, HandlerOf, CcnudHandlers
<1>5. Pooled("ccnfd") = {"publish", "publishSeq", "retrieve", "retrieveSeq", "summary"}
  BY DEF Pooled, HandlerOf, CcnfdHandlers
<1>6. Pooled("bfrd") = {"forward", "where", "distance"}
  BY DEF Pooled, HandlerOf, BfrdHandlers
<1>7. QED
  BY <1>1, <1>2, <1>3, <1>4, <1>5, <1>6

LEMMA HeaderFacts ==
  /\ \A d \in Daemons : Header[d] \in Filled
  /\ Header["ccnud"] = <<"type">> /\ Header["ccnfd"] = <<"type">> /\ Header["bfrd"] = BfrHeader
<1>1. Header["ccnud"] = <<"type">> /\ Header["ccnfd"] = <<"type">> /\ Header["bfrd"] = BfrHeader
  BY DEF Header
<1>2. <<"type">> \in Filled /\ BfrHeader \in Filled
  BY FilledFacts DEF Filled, Names
<1>3. QED
  BY <1>1, <1>2 DEF Daemons

LEMMA PooledAsk ==
  \A d \in Daemons : \A k \in Pooled(d) : Asks(ClientOf[d][k], HandlerOf[d][k], Header[d])
<1>1. ASSUME NEW k \in Pooled("ccnud")
      PROVE  Asks(ClientOf["ccnud"][k], HandlerOf["ccnud"][k], <<"type">>)
  <2>1. /\ ClientOf["ccnud"]["publish"] = Publish /\ HandlerOf["ccnud"]["publish"] = PublishResponse
        /\ ClientOf["ccnud"]["publishSeq"] = PublishSeq /\ HandlerOf["ccnud"]["publishSeq"] = SeqPublish
        /\ ClientOf["ccnud"]["retrieve"] = Retrieve /\ HandlerOf["ccnud"]["retrieve"] = RetrieveResponse
        /\ ClientOf["ccnud"]["retrieveSeq"] = RetrieveSeq /\ HandlerOf["ccnud"]["retrieveSeq"] = SeqResponse
        /\ ClientOf["ccnud"]["retrieveOpts"] = RetrieveOpts /\ HandlerOf["ccnud"]["retrieveOpts"] = OptResponse
        /\ ClientOf["ccnud"]["summary"] = Summary /\ HandlerOf["ccnud"]["summary"] = SummaryResponse
    BY DEF ClientOf, HandlerOf, CcnuClient, CcnudHandlers
  <2>2. QED
    BY <2>1, KindFacts, PublishAsks, PublishSeqAsks, RetrieveAsks, RetrieveOptsAsks, SummaryAsks
<1>2. ASSUME NEW k \in Pooled("ccnfd")
      PROVE  Asks(ClientOf["ccnfd"][k], HandlerOf["ccnfd"][k], <<"type">>)
  <2>1. /\ ClientOf["ccnfd"]["publish"] = Publish /\ HandlerOf["ccnfd"]["publish"] = PublishResponse
        /\ ClientOf["ccnfd"]["publishSeq"] = PublishSeq /\ HandlerOf["ccnfd"]["publishSeq"] = SeqPublish
        /\ ClientOf["ccnfd"]["retrieve"] = Retrieve /\ HandlerOf["ccnfd"]["retrieve"] = RetrieveResponse
        /\ ClientOf["ccnfd"]["retrieveSeq"] = RetrieveSeq /\ HandlerOf["ccnfd"]["retrieveSeq"] = SeqResponse
        /\ ClientOf["ccnfd"]["summary"] = FloodSummary /\ HandlerOf["ccnfd"]["summary"] = FloodSummaryResponse
    BY DEF ClientOf, HandlerOf, CcnfClient, CcnfdHandlers, FloodPublish, FloodPublishResponse, FloodPublishSeq,
           FloodSeqPublish, FloodRetrieve, FloodRetrieveResponse, FloodRetrieveSeq, FloodSeqResponse
  <2>2. QED
    BY <2>1, KindFacts, PublishAsks, PublishSeqAsks, RetrieveAsks, SummaryAsks
<1>3. ASSUME NEW k \in Pooled("bfrd")
      PROVE  Asks(ClientOf["bfrd"][k], HandlerOf["bfrd"][k], BfrHeader)
  <2>1. /\ ClientOf["bfrd"]["forward"] = SendQry /\ HandlerOf["bfrd"]["forward"] = FwdQueryResponse
        /\ ClientOf["bfrd"]["where"] = SendWhere /\ HandlerOf["bfrd"]["where"] = DestQueryResponse
        /\ ClientOf["bfrd"]["distance"] = QueryDistance /\ HandlerOf["bfrd"]["distance"] = DistQueryResponse
    BY DEF ClientOf, HandlerOf, BfrClient, BfrdHandlers
  <2>2. QED
    BY <2>1, KindFacts, BfrAsks
<1>4. QED
  BY <1>1, <1>2, <1>3, HeaderFacts DEF Daemons

LEMMA OneFieldTells ==
  ASSUME NEW f \in Filled, Len(f) = 3, NEW header, Len(header) = 1, NEW call_, call_ = Call(<<f>>, <<>>)
  PROVE  Tells(call_, header) /\ Len(AllButLast(call_.sends)) <= Len(header)
<1>0. Len(header) \in Nat /\ Len(f) > Len(header)
  OBVIOUS
<1>1. Tells(Call(<<f>>, <<>>), header) /\ FlattenSeq(SubSeq(<<f>>, 1, Len(<<f>>) - 1)) = <<>>
  BY <1>0, OneTells
<1>2. call_.sends = <<f>>
  BY DEF Call
<1>3. AllButLast(call_.sends) = <<>> /\ Len(<<>>) = 0
  BY <1>1, <1>2 DEF AllButLast
<1>4. QED
  BY <1>1, <1>3

LEMMA OthersTell ==
  \A d \in Daemons : \A k \in KindsOf(d) \ Pooled(d) :
     /\ Tells(ClientOf[d][k], Header[d])
     /\ k # "hops" => Len(AllButLast(ClientOf[d][k].sends)) <= Len(Header[d])
<1>1. ASSUME NEW call_, call_ = Call(<<<<"type", "payload_size", "payload">>>>, <<>>)
      PROVE  Tells(call_, <<"type">>) /\ Len(AllButLast(call_.sends)) <= Len(<<"type">>)
  <2>1. <<"type", "payload_size", "payload">> \in Filled
    BY DEF Names, Filled
  <2>2. Len(<<"type", "payload_size", "payload">>) = 3 /\ Len(<<"type">>) = 1 /\ Len(<<>>) = 0
    OBVIOUS
  <2> DEFINE f == <<"type", "payload_size", "payload">>
             header == <<"type">>
  <2>3. f \in Filled /\ Len(f) = 3 /\ Len(header) = 1 /\ call_ = Call(<<f>>, <<>>) /\ call_.sends = <<f>>
    BY <1>1, <2>1, <2>2 DEF Call
  <2> HIDE DEF f, header
  <2>4. Tells(call_, header) /\ Len(AllButLast(call_.sends)) <= Len(header)
    BY <2>3, OneFieldTells
  <2>5. QED
    BY <2>4 DEF header
<1>2. ASSUME NEW rest \in Filled, NEW call_, call_ = Call(Separately(BfrHeader \o rest), <<>>)
      PROVE  Tells(call_, BfrHeader) /\ (Len(rest) = 1 => Len(AllButLast(call_.sends)) <= Len(BfrHeader))
  <2>1. BfrHeader \o rest \in Filled /\ Len(BfrHeader \o rest) = Len(BfrHeader) + Len(rest)
        /\ Len(BfrHeader) \in Nat /\ Len(rest) \in Nat /\ Len(rest) > 0
    BY FilledFacts
  <2>2. call_.sends = Separately(BfrHeader \o rest)
    BY <1>2 DEF Call
  <2> DEFINE f == BfrHeader \o rest
  <2>3. f \in Filled /\ Len(f) = Len(BfrHeader) + Len(rest) /\ call_ = Call(Separately(f), <<>>) /\ call_.sends = Separately(f)
    BY <1>2, <2>1, <2>2
  <2> HIDE DEF f
  <2>4. Len(f) > Len(BfrHeader)
    BY <2>1, <2>3
  <2>5. Tells(call_, BfrHeader)
    BY <2>1, <2>3, <2>4, SeparateTells
  <2>6. Len(AllButLast(call_.sends)) = Len(f) - 1
    BY <2>3, SeparatelyFacts DEF AllButLast
  <2>7. Len(rest) = 1 => Len(f) - 1 = Len(BfrHeader)
    BY <2>1, <2>3
  <2>8. Len(BfrHeader) <= Len(BfrHeader)
    BY <2>1
  <2>9. QED
    BY <2>5, <2>6, <2>7, <2>8
<1>3. \A k \in KindsOf("ccnud") \ Pooled("ccnud") :
         ClientOf["ccnud"][k] = Call(<<<<"type", "payload_size", "payload">>>>, <<>>)
  BY KindFacts DEF ClientOf, CcnuClient, SetTimeout, SetRetries
<1>4. \A k \in KindsOf("ccnfd") \ Pooled("ccnfd") :
         ClientOf["ccnfd"][k] = Call(<<<<"type", "payload_size", "payload">>>>, <<>>)
  BY KindFacts DEF ClientOf, CcnfClient, FloodSetTimeout, FloodSetRetries, SetTimeout, SetRetries
<1>5. ASSUME NEW k \in KindsOf("bfrd") \ Pooled("bfrd")
      PROVE  /\ Tells(ClientOf["bfrd"][k], BfrHeader)
             /\ k # "hops" => Len(AllButLast(ClientOf["bfrd"][k].sends)) <= Len(BfrHeader)
  <2>1. <<"payload">> \in Filled /\ <<"name_len", "name", "hops">> \in Filled /\ Len(<<"payload">>) = 1
    BY DEF Names, Filled
  <2>2. /\ ClientOf["bfrd"]["message"] = Call(Separately(BfrHeader \o <<"payload">>), <<>>)
        /\ ClientOf["bfrd"]["location"] = Call(Separately(BfrHeader \o <<"payload">>), <<>>)
        /\ ClientOf["bfrd"]["hops"] = Call(Separately(BfrHeader \o <<"name_len", "name", "hops">>), <<>>)
    BY DEF ClientOf, BfrClient, SendMsg, SendLoc, SendDistance
  <2>3. k \in {"message", "location", "hops"}
    BY KindFacts
  <2>4. CASE k = "hops"
    BY <1>2, <2>1, <2>2, <2>4
  <2>5. CASE k \in {"message", "location"}
    BY <1>2, <2>1, <2>2, <2>5
  <2>6. QED
    BY <2>3, <2>4, <2>5
<1>6. QED
  BY <1>1, <1>3, <1>4, <1>5, HeaderFacts DEF Daemons

LEMMA KindsAgree ==
  /\ \A d \in Daemons : Pooled(d) \subseteq KindsOf(d)
  /\ \A d, e \in Daemons : \A k \in KindsOf(d) \cap KindsOf(e) : k \in Pooled(d) <=> k \in Pooled(e)
BY KindFacts DEF Daemons

LEMMA WhereFact ==
  \A d \in Daemons : "where" \in KindsOf(d) =>
     Len(AllButLast(ClientOf[d]["where"].sends)) <= Len(Header[d]) + 1
<1>1. <<"name_len", "name">> \in Filled /\ Len(<<"name_len", "name">>) = 2 /\ BfrHeader \in Filled
  BY FilledFacts DEF Names, Filled
<1> DEFINE f == BfrHeader \o <<"name_len", "name">>
<1>2. f \in Filled /\ Len(f) = Len(BfrHeader) + 2 /\ Len(BfrHeader) \in Nat
  BY <1>1, FilledFacts
<1>3. ClientOf["bfrd"]["where"].sends = Separately(f)
  BY DEF ClientOf, BfrClient, SendWhere, Call
<1> HIDE DEF f
<1>4. Len(Separately(f)) = Len(f) /\ Len(FlattenSeq(SubSeq(Separately(f), 1, Len(f) - 1))) = Len(f) - 1
  BY <1>2, SeparatelyFacts
<1>5. Len(AllButLast(ClientOf["bfrd"]["where"].sends)) = Len(f) - 1
  BY <1>3, <1>4 DEF AllButLast
<1>6. Len(f) - 1 <= Len(BfrHeader) + 1
  BY <1>2
<1>7. \A d \in Daemons : "where" \in KindsOf(d) => d = "bfrd"
  BY KindFacts DEF Daemons
<1>8. QED
  BY <1>5, <1>6, <1>7, HeaderFacts

LEMMA FileFact ==
  \A d \in Daemons : \A k \in KindsOf(d) \cap {"retrieveSeq", "retrieveOpts"} : Len(ClientOf[d][k].awaits) # 1
<1>1. /\ ClientOf["ccnud"]["retrieveSeq"] = RetrieveSeq /\ ClientOf["ccnud"]["retrieveOpts"] = RetrieveOpts
      /\ ClientOf["ccnfd"]["retrieveSeq"] = RetrieveSeq
  BY DEF ClientOf, CcnuClient, CcnfClient, FloodRetrieveSeq
<1>2. \A d \in Daemons : \A k \in KindsOf(d) \cap {"retrieveSeq", "retrieveOpts"} :
         \/ d = "ccnud" /\ k = "retrieveSeq"
         \/ d = "ccnud" /\ k = "retrieveOpts"
         \/ d = "ccnfd" /\ k = "retrieveSeq"
  BY KindFacts DEF Daemons
<1>3. QED
  BY <1>1, <1>2, RetrieveAsks, RetrieveOptsAsks

\* What is left of a sequence after its first m.
Drop(w, m) == SubSeq(w, m + 1, Len(w))

LEMMA DropFacts ==
  ASSUME NEW X, NEW w \in Seq(X), NEW m \in Nat, m <= Len(w)
  PROVE  /\ Drop(w, m) \in Seq(X) /\ Len(Drop(w, m)) = Len(w) - m
         /\ \A i \in 1..(Len(w) - m) : Drop(w, m)[i] = w[i + m]
         /\ Drop(w, 0) = w
<1>1. Len(w) \in Nat /\ \A i \in 1..Len(w) : w[i] \in X
  OBVIOUS
<1>2. Drop(w, m) \in Seq(X) /\ Len(Drop(w, m)) = Len(w) - m
      /\ \A i \in 1..(Len(w) - m) : Drop(w, m)[i] = w[i + m]
  BY <1>1 DEF Drop
<1>3. Drop(w, 0) = w
  BY DEF Drop
<1>4. QED
  BY <1>2, <1>3

LEMMA DropMore ==
  ASSUME NEW X, NEW w \in Seq(X), NEW m \in Nat, NEW n \in Nat, m + n <= Len(w)
  PROVE  Drop(Drop(w, m), n) = Drop(w, m + n)
<1>0. m <= Len(w)
  OBVIOUS
<1>1. /\ Drop(w, m) \in Seq(X) /\ Len(Drop(w, m)) = Len(w) - m
      /\ \A i \in 1..(Len(w) - m) : Drop(w, m)[i] = w[i + m]
  BY <1>0, DropFacts
<1>2. /\ Drop(w, m + n) \in Seq(X) /\ Len(Drop(w, m + n)) = Len(w) - (m + n)
      /\ \A i \in 1..(Len(w) - (m + n)) : Drop(w, m + n)[i] = w[i + (m + n)]
  <2>1. ASSUME NEW k \in Nat, k <= Len(w)
        PROVE  /\ Drop(w, k) \in Seq(X) /\ Len(Drop(w, k)) = Len(w) - k
               /\ \A i \in 1..(Len(w) - k) : Drop(w, k)[i] = w[i + k]
    BY <2>1, DropFacts
  <2>2. m + n \in Nat
    OBVIOUS
  <2>3. QED
    BY <2>1, <2>2
<1> DEFINE v == Drop(w, m)
<1>3. v \in Seq(X) /\ n <= Len(v) /\ Len(v) = Len(w) - m
  BY <1>1
<1>4. /\ Drop(v, n) \in Seq(X) /\ Len(Drop(v, n)) = Len(v) - n
      /\ \A i \in 1..(Len(v) - n) : Drop(v, n)[i] = v[i + n]
  <2> HIDE DEF v
  <2>1. QED
    BY <1>3, DropFacts
<1>5. \A i \in 1..(Len(w) - (m + n)) : Drop(v, n)[i] = Drop(w, m + n)[i]
  BY <1>1, <1>2, <1>3, <1>4
<1>6. QED
  BY <1>2, <1>3, <1>4, <1>5, SeqEqual

LEMMA DropConcat ==
  ASSUME NEW X, NEW w \in Seq(X), NEW v \in Seq(X), NEW m \in Nat, m <= Len(w)
  PROVE  Drop(w \o v, m) = Drop(w, m) \o v
<1>1. /\ Drop(w, m) \in Seq(X) /\ Len(Drop(w, m)) = Len(w) - m
      /\ \A i \in 1..(Len(w) - m) : Drop(w, m)[i] = w[i + m]
  BY DropFacts
<1>2. /\ w \o v \in Seq(X) /\ Len(w \o v) = Len(w) + Len(v)
      /\ \A i \in 1..Len(w) + Len(v) : (w \o v)[i] = IF i <= Len(w) THEN w[i] ELSE v[i - Len(w)]
  BY ConcatProperties
<1> DEFINE wv == w \o v
<1>3. wv \in Seq(X) /\ m <= Len(wv) /\ Len(wv) = Len(w) + Len(v)
  BY <1>2
<1>4. /\ Drop(wv, m) \in Seq(X) /\ Len(Drop(wv, m)) = Len(wv) - m
      /\ \A i \in 1..(Len(wv) - m) : Drop(wv, m)[i] = wv[i + m]
  <2> HIDE DEF wv
  <2>1. QED
    BY <1>3, DropFacts
<1> DEFINE d == Drop(w, m)
<1>5. /\ d \o v \in Seq(X) /\ Len(d \o v) = Len(d) + Len(v)
      /\ \A i \in 1..Len(d) + Len(v) : (d \o v)[i] = IF i <= Len(d) THEN d[i] ELSE v[i - Len(d)]
  <2>1. d \in Seq(X)
    BY <1>1
  <2> HIDE DEF d
  <2>2. QED
    BY <2>1, ConcatProperties
<1>6. ASSUME NEW i \in 1..Len(d \o v)
      PROVE  (d \o v)[i] = Drop(wv, m)[i]
  <2>1. i \in 1..Len(d) + Len(v) /\ i \in 1..(Len(wv) - m) /\ Len(d) = Len(w) - m /\ Len(w) \in Nat /\ Len(v) \in Nat
    BY <1>1, <1>3, <1>5
  <2>2. Drop(wv, m)[i] = wv[i + m] /\ i + m \in 1..Len(w) + Len(v)
    BY <1>4, <2>1
  <2>3. wv[i + m] = IF i + m <= Len(w) THEN w[i + m] ELSE v[i + m - Len(w)]
    BY <1>2, <2>2
  <2>4. (d \o v)[i] = IF i <= Len(d) THEN d[i] ELSE v[i - Len(d)]
    BY <1>5, <2>1
  <2> HIDE DEF wv
  <2>5. CASE i <= Len(d)
    <3>1. d[i] = w[i + m] /\ i + m <= Len(w)
      BY <1>1, <2>1, <2>5
    <3>2. QED
      BY <2>2, <2>3, <2>4, <2>5, <3>1
  <2>6. CASE ~(i <= Len(d))
    <3>1. ~(i + m <= Len(w)) /\ i + m - Len(w) = i - Len(d)
      BY <2>1, <2>6
    <3> HIDE DEF d
    <3>2. QED
      BY <2>2, <2>3, <2>4, <2>6, <3>1
  <2>7. QED
    BY <2>5, <2>6
<1>7. Len(d \o v) = Len(Drop(wv, m))
  BY <1>1, <1>3, <1>4, <1>5
<1>8. QED
  BY <1>4, <1>5, <1>6, <1>7, SeqEqual

\* The sends of a request, one after the other; its last is not empty.
LEMMA SendsFacts ==
  ASSUME NEW q \in Seq(Filled), q # <<>>
  PROVE  /\ Len(q) \in Nat /\ Len(q) > 0
         /\ FlattenSeq(SubSeq(q, 1, 0)) = <<>> /\ SubSeq(q, 1, Len(q)) = q
         /\ \A m \in 0..Len(q), n \in 0..Len(q) : FlattenSeq(SubSeq(q, m + 1, n)) \in Seq(Names)
         /\ \A m \in 0..Len(q), n \in 0..Len(q) : m <= n =>
               FlattenSeq(SubSeq(q, 1, n)) = FlattenSeq(SubSeq(q, 1, m)) \o FlattenSeq(SubSeq(q, m + 1, n))
         /\ Len(AllButLast(q)) < Len(FlattenSeq(q))
<1>1. q \in Seq(Seq(Names)) /\ Len(q) \in Nat /\ Len(q) > 0 /\ q[Len(q)] \in Filled
  BY DEF Filled
<1>2. SubSeq(q, 1, 0) = <<>> /\ SubSeq(q, 1, Len(q)) = q
  BY <1>1, SubSeqFull
<1>3. ASSUME NEW m \in 0..Len(q), NEW n \in 0..Len(q)
      PROVE  /\ SubSeq(q, m + 1, n) \in Seq(Seq(Names)) /\ FlattenSeq(SubSeq(q, m + 1, n)) \in Seq(Names)
             /\ SubSeq(q, 1, n) \in Seq(Seq(Names)) /\ FlattenSeq(SubSeq(q, 1, n)) \in Seq(Names)
  <2>1. SubSeq(q, m + 1, n) \in Seq(Seq(Names)) /\ SubSeq(q, 1, n) \in Seq(Seq(Names))
    <3>1. \A i \in (m + 1)..n : q[i] \in Seq(Names)
      BY <1>1
    <3>2. \A i \in 1..n : q[i] \in Seq(Names)
      BY <1>1
    <3>3. m + 1 \in Int /\ n \in Int /\ 1 \in Int
      OBVIOUS
    <3>4. QED
      BY <3>1, <3>2, <3>3, SubSeqProperties
  <2>2. QED
    BY <2>1, FlattenTyped
<1>4. ASSUME NEW m \in 0..Len(q), NEW n \in 0..Len(q), m <= n
      PROVE  FlattenSeq(SubSeq(q, 1, n)) = FlattenSeq(SubSeq(q, 1, m)) \o FlattenSeq(SubSeq(q, m + 1, n))
  <2>1. SubSeq(q, 1, m) \o SubSeq(q, m + 1, n) = SubSeq(q, 1, n)
    <3>1. 1 \in 1..Len(q) + 1 /\ m \in (1 - 1)..Len(q) /\ n \in m..Len(q)
      BY <1>1, <1>4
    <3>2. QED
      BY <1>1, <3>1, ConcatAdjacentSubSeq
  <2>2. SubSeq(q, 1, m) \in Seq(Seq(Names)) /\ SubSeq(q, m + 1, n) \in Seq(Seq(Names))
    BY <1>3
  <2>3. FlattenSeq(SubSeq(q, 1, m) \o SubSeq(q, m + 1, n)) = FlattenSeq(SubSeq(q, 1, m)) \o FlattenSeq(SubSeq(q, m + 1, n))
    BY <2>2, FlattenConcat
  <2>4. QED
    BY <2>1, <2>3
<1>5. Len(AllButLast(q)) < Len(FlattenSeq(q))
  <2> DEFINE last == Len(q)
             m == Len(q) - 1
  <2>1. m \in 0..Len(q) /\ last \in 0..Len(q) /\ m <= last /\ m + 1 = last
    BY <1>1
  <2>2. SubSeq(q, last, last) = <<q[last]>>
    <3>1. last \in Int /\ \A i \in last..last : q[i] \in Filled
      BY <1>1
    <3>2. /\ SubSeq(q, last, last) \in Seq(Filled)
          /\ Len(SubSeq(q, last, last)) = IF last <= last THEN last - last + 1 ELSE 0
          /\ \A i \in 1..(last - last + 1) : SubSeq(q, last, last)[i] = q[last + i - 1]
      <4> HIDE DEF last
      <4>1. QED
        BY <3>1, SubSeqProperties
    <3>3. Len(SubSeq(q, last, last)) = 1 /\ SubSeq(q, last, last)[1] = q[last]
      BY <1>1, <3>2
    <3>4. \A s \in Seq(Filled) : Len(s) = 1 => s = <<s[1]>>
      OBVIOUS
    <3>5. QED
      BY <3>2, <3>3, <3>4
  <2>3. q[last] \in Seq(Names) /\ Len(q[last]) \in Nat /\ Len(q[last]) > 0
    BY <1>1, FilledFacts
  <2>4. FlattenSeq(<<q[last]>>) = q[last]
    BY <2>3, FlattenOne
  <2>5. FlattenSeq(SubSeq(q, 1, last)) = FlattenSeq(SubSeq(q, 1, m)) \o FlattenSeq(SubSeq(q, m + 1, last))
    <3> HIDE DEF last, m
    <3>1. QED
      BY <1>4, <2>1
  <2>6. FlattenSeq(q) = AllButLast(q) \o q[last]
    BY <1>2, <2>1, <2>2, <2>4, <2>5 DEF AllButLast
  <2>7. AllButLast(q) \in Seq(Names)
    <3>1. FlattenSeq(SubSeq(q, 1, m)) \in Seq(Names)
      BY <1>3, <2>1
    <3>2. QED
      BY <3>1 DEF AllButLast
  <2>8. Len(AllButLast(q) \o q[last]) = Len(AllButLast(q)) + Len(q[last]) /\ Len(AllButLast(q)) \in Nat
    BY <2>3, <2>7
  <2>9. QED
    BY <2>3, <2>6, <2>8
<1>6. QED
  BY <1>1, <1>2, <1>3, <1>4, <1>5, FlattenEmpty

LEMMA FieldFacts ==
  /\ "error" \in Fields /\ "garbage" \in Fields
  /\ \A d \in Daemons : \A k \in KindsOf(d) :
        Range(ClientOf[d][k].awaits) \subseteq Fields /\ Range(FlattenSeq(ClientOf[d][k].sends)) \subseteq Fields
<1>1. "error" \in Fields /\ "garbage" \in Fields
  BY DEF Fields
<1>2. ASSUME NEW d \in Daemons, NEW k \in KindsOf(d)
      PROVE  Range(ClientOf[d][k].awaits) \subseteq Fields /\ Range(FlattenSeq(ClientOf[d][k].sends)) \subseteq Fields
  <2> DEFINE Of(e, j) == Range(ClientOf[e][j].awaits) \cup Range(FlattenSeq(ClientOf[e][j].sends))
             All(e) == UNION {Of(e, j) : j \in KindsOf(e)}
  <2>1. Of(d, k) \subseteq All(d)
    <3> HIDE DEF Of
    <3>1. QED
      OBVIOUS
  <2>2. All(d) \subseteq UNION {All(e) : e \in Daemons}
    <3> HIDE DEF All
    <3>1. QED
      OBVIOUS
  <2>3. Fields = (UNION {All(e) : e \in Daemons}) \cup {"error", "garbage"}
    BY DEF Fields, NamedFields
  <2>4. Of(d, k) \subseteq Fields
    <3> HIDE DEF Of, All
    <3>1. QED
      BY <2>1, <2>2, <2>3
  <2>5. QED
    BY <2>4
<1>3. QED
  BY <1>1, <1>2

\* What a client of kind k has sent when it has sent the first n parts, and what follows up to the last.
Wrote(d, k, n) == FlattenSeq(SubSeq(ClientOf[d][k].sends, 1, n))
Piece(d, k, m, n) == FlattenSeq(SubSeq(ClientOf[d][k].sends, m + 1, n))
NumSends(d, k) == Len(ClientOf[d][k].sends)

LEMMA WriteFacts ==
  ASSUME NEW d \in Daemons, NEW k \in KindsOf(d)
  PROVE  /\ NumSends(d, k) \in Nat /\ NumSends(d, k) > 0
         /\ Pauses(ClientOf[d][k].sends) = {NumSends(d, k) - 1, NumSends(d, k)}
         /\ Wrote(d, k, 0) = <<>>
         /\ \A n \in 0..NumSends(d, k) : Wrote(d, k, n) \in Seq(Fields)
         /\ \A m, n \in 0..NumSends(d, k) : m <= n =>
               Piece(d, k, m, n) \in Seq(Fields) /\ Wrote(d, k, n) = Wrote(d, k, m) \o Piece(d, k, m, n)
         /\ Len(Wrote(d, k, NumSends(d, k) - 1)) < Len(Wrote(d, k, NumSends(d, k)))
<1> DEFINE q == ClientOf[d][k].sends
           last == NumSends(d, k)
<1>1. q \in Seq(Filled) /\ q # <<>>
  BY PooledAsk, OthersTell DEF Asks, Tells
<1>2. /\ last \in Nat /\ last > 0
      /\ FlattenSeq(SubSeq(q, 1, 0)) = <<>> /\ SubSeq(q, 1, last) = q
      /\ \A m \in 0..last, n \in 0..last : FlattenSeq(SubSeq(q, m + 1, n)) \in Seq(Names)
      /\ \A m \in 0..last, n \in 0..last : m <= n =>
            FlattenSeq(SubSeq(q, 1, n)) = FlattenSeq(SubSeq(q, 1, m)) \o FlattenSeq(SubSeq(q, m + 1, n))
      /\ Len(AllButLast(q)) < Len(FlattenSeq(q))
  <2>1. last = Len(q)
    BY DEF NumSends
  <2> HIDE DEF q, last
  <2>2. QED
    BY <1>1, <2>1, SendsFacts
<1>3. \A m, n \in 0..last : Piece(d, k, m, n) \in Seq(Names)
  BY <1>2 DEF Piece
<1>4. ASSUME NEW n \in 0..last
      PROVE  Wrote(d, k, n) \in Seq(Names)
  <2>1. 0 \in 0..last /\ 0 + 1 = 1
    BY <1>2
  <2>2. FlattenSeq(SubSeq(q, 0 + 1, n)) \in Seq(Names)
    BY <1>2, <2>1
  <2>3. QED
    BY <2>1, <2>2 DEF Wrote
<1>5. \A m, n \in 0..last : m <= n => Wrote(d, k, n) = Wrote(d, k, m) \o Piece(d, k, m, n)
  BY <1>2 DEF Wrote, Piece
<1>6. Wrote(d, k, 0) = <<>> /\ Len(Wrote(d, k, last - 1)) < Len(Wrote(d, k, last))
      /\ Wrote(d, k, last) = FlattenSeq(q)
  BY <1>2 DEF Wrote, AllButLast, NumSends
<1>7. Range(Wrote(d, k, last)) \subseteq Fields
  BY <1>6, FieldFacts
<1>8. ASSUME NEW m \in 0..last, NEW n \in 0..last, m <= n
      PROVE  Piece(d, k, m, n) \in Seq(Fields)
  <2>1. Wrote(d, k, last) = Wrote(d, k, n) \o Piece(d, k, n, last) /\ Wrote(d, k, n) = Wrote(d, k, m) \o Piece(d, k, m, n)
    <3>1. last \in 0..last /\ n <= last
      BY <1>2
    <3> HIDE DEF last
    <3>2. QED
      BY <1>5, <1>8, <3>1
  <2>2. Wrote(d, k, n) \in Seq(Names) /\ Piece(d, k, n, last) \in Seq(Names) /\ Wrote(d, k, m) \in Seq(Names)
        /\ Piece(d, k, m, n) \in Seq(Names)
    BY <1>2, <1>3, <1>4
  <2>3. Range(Wrote(d, k, n)) \subseteq Range(Wrote(d, k, last)) /\ Range(Piece(d, k, m, n)) \subseteq Range(Wrote(d, k, n))
    <3>1. \A v, w \in Seq(Names) : Range(v \o w) = Range(v) \cup Range(w)
      BY RangeConcatenation
    <3>2. Range(Wrote(d, k, n)) \subseteq Range(Wrote(d, k, n) \o Piece(d, k, n, last))
      BY <2>2, <3>1
    <3>3. Range(Piece(d, k, m, n)) \subseteq Range(Wrote(d, k, m) \o Piece(d, k, m, n))
      BY <2>2, <3>1
    <3>4. QED
      BY <2>1, <3>2, <3>3
  <2>4. Range(Piece(d, k, m, n)) \subseteq Fields
    BY <1>7, <2>3
  <2>5. Piece(d, k, m, n) \in Seq(Range(Piece(d, k, m, n)))
    BY <2>2, SeqOfRange
  <2>6. QED
    BY <2>4, <2>5, SeqMonotonic
<1>9. ASSUME NEW n \in 0..last
      PROVE  Wrote(d, k, n) \in Seq(Fields)
  <2>1. Wrote(d, k, last) = Wrote(d, k, n) \o Piece(d, k, n, last)
    <3>1. last \in 0..last /\ n <= last
      BY <1>2
    <3> HIDE DEF last
    <3>2. QED
      BY <1>5, <3>1
  <2>2. Wrote(d, k, n) \in Seq(Names) /\ Piece(d, k, n, last) \in Seq(Names)
    BY <1>2, <1>3, <1>4
  <2>3. Range(Wrote(d, k, n)) \subseteq Range(Wrote(d, k, last))
    BY <2>1, <2>2, RangeConcatenation
  <2>4. Wrote(d, k, n) \in Seq(Range(Wrote(d, k, n)))
    BY <2>2, SeqOfRange
  <2>5. QED
    BY <1>7, <2>3, <2>4, SeqMonotonic
<1>10. Pauses(q) = {last - 1, last}
  BY DEF Pauses, NumSends
<1>11. QED
  BY <1>2, <1>5, <1>6, <1>8, <1>9, <1>10

\* What a job reads is what its client writes after the header, and it answers what its client awaits.
LEMMA AskFacts ==
  ASSUME NEW d \in Daemons, NEW k \in Pooled(d)
  PROVE  /\ k \in KindsOf(d)
         /\ Len(Wrote(d, k, NumSends(d, k))) = Len(Header[d]) + Len(HandlerOf[d][k].reads)
         /\ Drop(Wrote(d, k, NumSends(d, k)), Len(Header[d])) = HandlerOf[d][k].reads
         /\ HandlerOf[d][k].reads \in Seq(Fields) /\ HandlerOf[d][k].reads # <<>>
         /\ "garbage" \notin Range(HandlerOf[d][k].reads)
         /\ HandlerOf[d][k].replies = ClientOf[d][k].awaits
         /\ ClientOf[d][k].awaits \in Seq(Fields) /\ ClientOf[d][k].awaits # <<>>
         /\ Head(ClientOf[d][k].awaits) # "error"
         /\ Len(Header[d]) \in Nat
<1> DEFINE reads == HandlerOf[d][k].reads
           awaits == ClientOf[d][k].awaits
           header == Header[d]
           all == Wrote(d, k, NumSends(d, k))
<1>1. k \in KindsOf(d)
  BY KindsAgree
<1>2. Asks(ClientOf[d][k], HandlerOf[d][k], Header[d])
  BY PooledAsk
<1>3. all = FlattenSeq(ClientOf[d][k].sends)
  <2>1. ClientOf[d][k].sends \in Seq(Filled)
    BY <1>2 DEF Asks
  <2>2. SubSeq(ClientOf[d][k].sends, 1, Len(ClientOf[d][k].sends)) = ClientOf[d][k].sends
    BY <2>1, SubSeqFull
  <2>3. QED
    BY <2>2 DEF Wrote, NumSends
<1>4. all = header \o reads /\ reads \in Filled /\ awaits \in Filled /\ HandlerOf[d][k].replies = awaits
  BY <1>2, <1>3 DEF Asks
<1>5. header \in Filled
  BY HeaderFacts
<1> HIDE DEF reads, awaits, header, all
<1>6. header \in Seq(Names) /\ reads \in Seq(Names) /\ awaits \in Seq(Names) /\ reads # <<>> /\ awaits # <<>>
  BY <1>4, <1>5 DEF Filled
<1>7. Len(all) = Len(header) + Len(reads) /\ Len(header) \in Nat
  BY <1>4, <1>6
<1>8. Drop(all, Len(header)) = reads
  <2>1. Drop(header \o reads, Len(header)) = Drop(header, Len(header)) \o reads
    BY <1>6, <1>7, DropConcat
  <2>2. Drop(header, Len(header)) = <<>>
    BY <1>6 DEF Drop
  <2>3. QED
    BY <1>4, <1>6, <2>1, <2>2
<1>9. Range(reads) \subseteq Fields
  <2>1. Range(all) \subseteq Fields
    BY <1>1, <1>3, FieldFacts
  <2>2. QED
    BY <1>4, <1>6, <2>1, RangeConcatenation
<1>10. Range(awaits) \subseteq Fields
  BY <1>1, FieldFacts DEF awaits
<1>11. reads \in Seq(Fields) /\ awaits \in Seq(Fields)
  BY <1>6, <1>9, <1>10, SeqOfRange, SeqMonotonic
<1>12. "garbage" \notin Range(reads)
  <2>1. Range(reads) \subseteq Names
    BY <1>6, RangeOfSeq
  <2>2. "garbage" \notin Names
    BY DEF Names
  <2>3. QED
    BY <2>1, <2>2
<1>13. Head(awaits) # "error"
  <2>1. Head(awaits) \in Names
    BY <1>4, FilledFacts
  <2>2. "error" \notin Names
    BY DEF Names
  <2>3. QED
    BY <2>1, <2>2
<1>14. QED
  BY <1>1, <1>4, <1>6, <1>7, <1>8, <1>11, <1>12, <1>13 DEF reads, awaits, header, all

\* A message is longer than its header and, but for one, has nothing but the header before its last send.
LEMMA TellFacts ==
  ASSUME NEW d \in Daemons, NEW k \in KindsOf(d), k \notin Pooled(d)
  PROVE  /\ ClientOf[d][k].awaits = <<>>
         /\ Len(Wrote(d, k, NumSends(d, k))) > Len(Header[d]) /\ Len(Header[d]) \in Nat
         /\ Body(d, k) = Drop(Wrote(d, k, NumSends(d, k)), Len(Header[d]))
         /\ k # "hops" => Len(Wrote(d, k, NumSends(d, k) - 1)) <= Len(Header[d])
<1>1. Tells(ClientOf[d][k], Header[d])
  BY OthersTell
<1>2. Wrote(d, k, NumSends(d, k)) = FlattenSeq(ClientOf[d][k].sends)
  <2>1. ClientOf[d][k].sends \in Seq(Filled)
    BY <1>1 DEF Tells
  <2>2. SubSeq(ClientOf[d][k].sends, 1, Len(ClientOf[d][k].sends)) = ClientOf[d][k].sends
    BY <2>1, SubSeqFull
  <2>3. QED
    BY <2>2 DEF Wrote, NumSends
<1>3. Len(Header[d]) \in Nat
  BY HeaderFacts, FilledFacts
<1>4. Body(d, k) = Drop(Wrote(d, k, NumSends(d, k)), Len(Header[d]))
  BY <1>2 DEF Body, Drop
<1>5. k # "hops" => Len(Wrote(d, k, NumSends(d, k) - 1)) <= Len(Header[d])
  BY OthersTell DEF AllButLast, Wrote, NumSends
<1>6. QED
  BY <1>1, <1>2, <1>3, <1>4, <1>5 DEF Tells
-----------------------------------------------------------------------------
(* The inductive invariant.  Global parts first, then the life of a call,  *)
(* from both ends of its connection.                                       *)

\* The messages in the order they came: applied, queued, in the hands of the listener, not yet accepted.
Hand == IF listener.at \in {"header", "body", "enqueue"} THEN {listener.conn} ELSE {}
Lined == Range(applied) \cup Range(queue) \cup Hand \cup Range(backlog)

InOrder(b, s) == \A i, j \in 1..Len(s) : i < j => s[i] # s[j] /\ s[j] \notin b[s[i]]
Precede(b, A, B) == \A x \in A, y \in B : x # y /\ y \notin b[x]

LineInv ==
  /\ InOrder(before, applied) /\ InOrder(before, queue) /\ InOrder(before, backlog)
  /\ Precede(before, Range(applied), Range(queue) \cup Hand \cup Range(backlog))
  /\ Precede(before, Range(queue), Hand \cup Range(backlog))
  /\ Precede(before, Hand, Range(backlog))
  /\ \A c \in Lined : call[c].at # "idle"
  /\ \A c \in Calls : \A d \in before[c] : call[d].at # "idle"

\* A job is queued once, and nothing is left of a daemon that has ended.
JobsInv ==
  /\ \A i, j \in 1..Len(jobs) : i # j => jobs[i] # jobs[j]
  /\ \A i \in 1..Len(jobs) : handler[jobs[i]].at = "queued"

DaemonInv ==
  /\ listener.at # "accept" => listener.conn \in Calls
  /\ ~alive => /\ backlog = <<>> /\ queue = <<>> /\ jobs = <<>> /\ listener = Listening
               /\ \A c \in Calls : handler[c].at = "closed"

Waiting(c) == c \in Range(backlog) \/ (listener.at = "header" /\ listener.conn = c)
InBody(c) == listener.at = "body" /\ listener.conn = c
Served == {"queued", "reading", "working", "replying"}

HandlerInv(c) ==
  /\ Waiting(c) \/ InBody(c) => handler[c].at = "none"
  /\ alive => (handler[c].at = "none" <=> handler[c].kind = NoKind)
  /\ handler[c].at \in Served => handler[c].kind # NoKind
  /\ alive /\ call[c].at = "idle" => handler[c].at = "none"

PerformedInv(c) ==
  /\ performed[c] # 0 => performed[c] = 1 /\ (c \in Range(applied) \/ handler[c].at \in {"replying", "closed"})
  /\ c \in Range(applied) => performed[c] = 1 /\ handler[c].at \in {"none", "closed"}

Ended == {"done", "dead", "killed"}
ClientInv(c) ==
  /\ call[c].at = "idle" => call[c].kind = NoKind /\ call[c].sent = 0
                            /\ up[c] = <<>> /\ down[c] = <<>> /\ shut[c] = {}
  /\ call[c].at # "idle" => call[c].kind \in KindsOf(service)
  /\ call[c].rv # "none" => call[c].at = "done"
  /\ call[c].at \in {"idle", "sending", "receiving"} => call[c].got = <<>>
  /\ "client" \in shut[c] => call[c].at \in Ended
  /\ alive /\ call[c].at = "done" => "client" \in shut[c]
  /\ call[c].at = "sending" =>
       down[c] = <<>> /\ call[c].sent \in {0, NumSends(service, call[c].kind) - 1}

\* What the daemon has not read is the rest of what its client has sent: r is the client's side of the call, u
\* the stream, m the number of fields that were read.
SentBy(d, r, n) ==
  /\ n \in {0, NumSends(d, r.kind) - 1, NumSends(d, r.kind)}
  /\ r.at = "sending" => n = r.sent
  /\ r.at \in {"receiving", "spinning", "done"} => n = NumSends(d, r.kind)
Unread(d, r, u, m) ==
  \E n \in 0..NumSends(d, r.kind) :
     SentBy(d, r, n) /\ Len(Wrote(d, r.kind, n)) >= m /\ u = Drop(Wrote(d, r.kind, n), m)

Nothing(c) == "client" \in shut[c] /\ up[c] = <<>>
Understood(c) == handler[c].kind = call[c].kind /\ handler[c].got = Script(c).reads /\ call[c].at # "sending"
RequestInv(c) ==
  /\ Waiting(c) => Unread(service, call[c], up[c], 0)
  /\ InBody(c) => /\ listener.kind = call[c].kind /\ call[c].kind \notin Pooled(service)
                  /\ Unread(service, call[c], up[c], Len(Header[service]))
  /\ handler[c].at \in {"queued", "reading"} =>
       (handler[c].kind = call[c].kind /\ Unread(service, call[c], up[c], Len(Header[service]))) \/ Nothing(c)
  /\ handler[c].at \in {"working", "replying"} =>
       up[c] = <<>> /\ (Understood(c) \/ (Garbled(c) /\ "client" \in shut[c]))

\* The daemon closes its end while a client sends only when it gives up a short name.
EndInv(c) ==
  /\ alive /\ "daemon" \in shut[c] /\ call[c].at \in {"sending", "receiving"} =>
       handler[c].at = "closed" /\ (call[c].at = "sending" => call[c].short /\ call[c].kind = "forward")
  /\ call[c].at \in {"killed", "spinning"} => ~alive \/ (call[c].short /\ call[c].kind = "forward")

\* What a client that waits has not read is a beginning of its answer, or an error.
AnswerInv(c) ==
  LET answer == Client(c).awaits IN
  call[c].at = "receiving" =>
     /\ answer # <<>>
     /\ down[c] \in {<<>>, Front(answer), answer, <<"error">>}
     /\ down[c] = answer => performed[c] = 1
     /\ handler[c].at \in {"none", "queued", "reading", "working"} => down[c] = <<>>
     /\ handler[c].at = "replying" =>
          \/ down[c] = <<>> /\ handler[c].left = <<"error">>
          \/ down[c] = <<>> /\ handler[c].left = answer /\ performed[c] = 1
          \/ down[c] = Front(answer) /\ handler[c].left = <<Last(answer)>> /\ performed[c] = 1
     /\ alive /\ handler[c].at = "closed" => down[c] \in {<<>>, answer, <<"error">>}

ReturnInv(c) ==
  call[c].rv = "ok" /\ call[c].kind # "distance" => call[c].got = Client(c).awaits /\ down[c] = <<>>

InLine(c) == c \in Range(backlog) \cup Range(queue) \cup Hand

\* A message nobody answers stays in the line until it is applied.
UpdateInv(c) ==
  alive /\ call[c].at \in {"sending", "done"} /\ call[c].kind # "hops" /\ Client(c).awaits = <<>> =>
     /\ handler[c].kind = NoKind
     /\ performed[c] = 1 \/ InLine(c)

CallInv(c) ==
  /\ HandlerInv(c) /\ PerformedInv(c) /\ ClientInv(c) /\ RequestInv(c)
  /\ EndInv(c) /\ AnswerInv(c) /\ ReturnInv(c) /\ UpdateInv(c)

IInv == TypeOK /\ LineInv /\ JobsInv /\ DaemonInv /\ \A c \in Calls : CallInv(c)

-----------------------------------------------------------------------------
(* Lists of calls.                                                         *)

LEMMA RangeFacts ==
  ASSUME NEW s \in Seq(Calls)
  PROVE  /\ Range(s) \subseteq Calls /\ Range(<<>>) = {}
         /\ \A c \in Calls : Range(Append(s, c)) = Range(s) \cup {c} /\ Append(s, c) \in Seq(Calls)
         /\ s # <<>> => Head(s) \in Calls /\ Tail(s) \in Seq(Calls) /\ Range(s) = Range(Tail(s)) \cup {Head(s)}
<1>1. Range(s) \subseteq Calls /\ Range(<<>>) = {}
  BY RangeOfSeq DEF Range
<1>2. ASSUME NEW c \in Calls
      PROVE  Range(Append(s, c)) = Range(s) \cup {c} /\ Append(s, c) \in Seq(Calls)
  <2>1. DOMAIN Append(s, c) = 1..(Len(s) + 1) /\ DOMAIN s = 1..Len(s) /\ Len(s) \in Nat
    OBVIOUS
  <2>2. \A i \in 1..(Len(s) + 1) : Append(s, c)[i] = IF i = Len(s) + 1 THEN c ELSE s[i]
    OBVIOUS
  <2>3. QED
    BY <2>1, <2>2 DEF Range
<1>3. ASSUME s # <<>>
      PROVE  Head(s) \in Calls /\ Tail(s) \in Seq(Calls) /\ Range(s) = Range(Tail(s)) \cup {Head(s)}
  <2>1. /\ DOMAIN Tail(s) = 1..(Len(s) - 1) /\ DOMAIN s = 1..Len(s) /\ Len(s) \in Nat /\ Len(s) # 0
        /\ Tail(s) \in Seq(Calls) /\ Head(s) = s[1]
    BY <1>3
  <2>2. \A i \in 1..(Len(s) - 1) : Tail(s)[i] = s[i + 1]
    BY <1>3
  <2>3. \A i \in 1..Len(s) : i = 1 \/ (i - 1 \in 1..(Len(s) - 1) /\ s[i] = Tail(s)[i - 1])
    BY <2>1, <2>2
  <2>4. Range(s) \subseteq Range(Tail(s)) \cup {Head(s)}
    BY <2>1, <2>3 DEF Range
  <2>5. Range(Tail(s)) \cup {Head(s)} \subseteq Range(s)
    <3>1. \A i \in 1..(Len(s) - 1) : i + 1 \in 1..Len(s)
      BY <2>1
    <3>2. 1 \in 1..Len(s)
      BY <2>1
    <3>3. QED
      BY <2>1, <2>2, <3>1, <3>2 DEF Range
  <2>6. QED
    BY <2>1, <2>4, <2>5
<1>4. QED
  BY <1>1, <1>2, <1>3

LEMMA InOrderFacts ==
  ASSUME NEW b, NEW s \in Seq(Calls), InOrder(b, s)
  PROVE  /\ InOrder(b, <<>>)
         /\ \A c \in Calls : Precede(b, Range(s), {c}) => InOrder(b, Append(s, c))
         /\ s # <<>> => InOrder(b, Tail(s)) /\ Precede(b, {Head(s)}, Range(Tail(s)))
<1>1. InOrder(b, <<>>)
  BY DEF InOrder
<1>2. ASSUME NEW c \in Calls, Precede(b, Range(s), {c})
      PROVE  InOrder(b, Append(s, c))
  <2>1. \A i \in 1..Len(s) : s[i] # c /\ c \notin b[s[i]]
    BY <1>2 DEF Precede, Range
  <2>2. Len(Append(s, c)) = Len(s) + 1 /\ Len(s) \in Nat
    OBVIOUS
  <2>3. \A i \in 1..(Len(s) + 1) : Append(s, c)[i] = IF i = Len(s) + 1 THEN c ELSE s[i]
    OBVIOUS
  <2>4. QED
    BY <2>1, <2>2, <2>3 DEF InOrder
<1>3. ASSUME s # <<>>
      PROVE  InOrder(b, Tail(s)) /\ Precede(b, {Head(s)}, Range(Tail(s)))
  <2>1. Len(Tail(s)) = Len(s) - 1 /\ Len(s) \in Nat /\ Len(s) # 0 /\ Head(s) = s[1] /\ DOMAIN Tail(s) = 1..Len(Tail(s))
    BY <1>3
  <2>2. \A i \in 1..Len(Tail(s)) : Tail(s)[i] = s[i + 1] /\ i + 1 \in 1..Len(s)
    BY <1>3
  <2>3. InOrder(b, Tail(s))
    BY <2>1, <2>2 DEF InOrder
  <2>4. \A i \in 1..Len(Tail(s)) : Head(s) # Tail(s)[i] /\ Tail(s)[i] \notin b[Head(s)]
    BY <2>1, <2>2 DEF InOrder
  <2>5. QED
    BY <2>1, <2>3, <2>4 DEF Precede, Range
<1>4. QED
  BY <1>1, <1>2, <1>3

-----------------------------------------------------------------------------
(* The calls a step does not touch.                                        *)

Same(d) ==
  /\ service' = service /\ alive' = alive
  /\ call'[d] = call[d] /\ handler'[d] = handler[d] /\ up'[d] = up[d] /\ down'[d] = down[d]
  /\ shut'[d] = shut[d] /\ performed'[d] = performed[d]
  /\ Waiting(d)' => Waiting(d)
  /\ InBody(d)' => InBody(d) /\ listener'.kind = listener.kind
  /\ (d \in Range(applied))' <=> d \in Range(applied)
  /\ InLine(d) => InLine(d)'

LEMMA Untouched ==
  ASSUME NEW d \in Calls, Same(d), CallInv(d)
  PROVE  CallInv(d)'
<1>1. /\ service' = service /\ alive' = alive
      /\ call'[d] = call[d] /\ handler'[d] = handler[d] /\ up'[d] = up[d] /\ down'[d] = down[d]
      /\ shut'[d] = shut[d] /\ performed'[d] = performed[d]
      /\ Waiting(d)' => Waiting(d)
      /\ InBody(d)' => InBody(d) /\ listener'.kind = listener.kind
      /\ (d \in Range(applied))' <=> d \in Range(applied)
      /\ InLine(d) => InLine(d)'
  BY DEF Same
<1>2. HandlerInv(d)'
  BY <1>1 DEF CallInv, HandlerInv
<1>3. PerformedInv(d)'
  BY <1>1 DEF CallInv, PerformedInv
<1>4. ClientInv(d)'
  BY <1>1 DEF CallInv, ClientInv, KindsOf, NumSends
<1>5. RequestInv(d)'
  <2>1. Understood(d)' <=> Understood(d)
    BY <1>1 DEF Understood, Script
  <2>2. (Garbled(d)' <=> Garbled(d)) /\ (Nothing(d)' <=> Nothing(d))
    BY <1>1 DEF Garbled, Nothing
  <2>3. QED
    BY <1>1, <2>1, <2>2 DEF CallInv, RequestInv, Pooled
<1>6. EndInv(d)'
  BY <1>1 DEF CallInv, EndInv
<1>7. AnswerInv(d)'
  <2>1. Client(d)' = Client(d)
    BY <1>1 DEF Client
  <2>2. QED
    BY <1>1, <2>1 DEF CallInv, AnswerInv
<1>8. ReturnInv(d)'
  BY <1>1 DEF CallInv, ReturnInv, Client
<1>9. UpdateInv(d)'
  BY <1>1 DEF CallInv, UpdateInv, Client
<1>10. QED
  BY <1>2, <1>3, <1>4, <1>5, <1>6, <1>7, <1>8, <1>9 DEF CallInv
-----------------------------------------------------------------------------
(* A request on its way.                                                   *)

Sender(d, r) == r.kind \in KindsOf(d) /\ (r.at = "sending" => r.sent \in {0, NumSends(d, r.kind) - 1})

LEMMA UnreadFacts ==
  ASSUME NEW d \in Daemons, NEW r, Sender(d, r), NEW u, NEW m \in Nat, Unread(d, r, u, m)
  PROVE  \E n \in 0..NumSends(d, r.kind) :
            /\ SentBy(d, r, n) /\ Len(Wrote(d, r.kind, n)) >= m /\ u = Drop(Wrote(d, r.kind, n), m)
            /\ u \in Seq(Fields) /\ Len(u) = Len(Wrote(d, r.kind, n)) - m /\ Len(Wrote(d, r.kind, n)) \in Nat
            /\ n = NumSends(d, r.kind)
               \/ (/\ r.at \notin {"receiving", "spinning", "done"}
                   /\ Len(Wrote(d, r.kind, n)) <= Len(Wrote(d, r.kind, NumSends(d, r.kind) - 1))
                   /\ Len(Wrote(d, r.kind, n)) < Len(Wrote(d, r.kind, NumSends(d, r.kind))))
            /\ r.at = "sending" => n # NumSends(d, r.kind)
<1>1. PICK n \in 0..NumSends(d, r.kind) :
         SentBy(d, r, n) /\ Len(Wrote(d, r.kind, n)) >= m /\ u = Drop(Wrote(d, r.kind, n), m)
  BY DEF Unread
<1> DEFINE k == r.kind
           L == NumSends(d, r.kind)
           w == Wrote(d, r.kind, n)
<1>2. /\ L \in Nat /\ L > 0 /\ Wrote(d, k, 0) = <<>> /\ w \in Seq(Fields) /\ Wrote(d, k, L - 1) \in Seq(Fields)
      /\ Wrote(d, k, L) \in Seq(Fields)
      /\ Len(Wrote(d, k, L - 1)) < Len(Wrote(d, k, L))
  <2>1. k \in KindsOf(d)
    BY DEF Sender
  <2>2. L \in Nat /\ L > 0
    BY <2>1, WriteFacts
  <2>3. n \in 0..L /\ L - 1 \in 0..L /\ L \in 0..L
    BY <2>2
  <2>4. QED
    BY <2>1, <2>2, <2>3, WriteFacts
<1>3. n \in {0, L - 1, L} /\ (r.at \in {"receiving", "spinning", "done"} => n = L) /\ (r.at = "sending" => n # L)
  BY <1>1, <1>2 DEF SentBy, Sender
<1>4. Len(w) \in Nat /\ (n # L => Len(w) <= Len(Wrote(d, k, L - 1)) /\ Len(w) < Len(Wrote(d, k, L)))
  BY <1>2, <1>3
<1>5. u \in Seq(Fields) /\ Len(u) = Len(w) - m
  <2> HIDE DEF w
  <2>1. u = Drop(w, m) /\ m <= Len(w)
    BY <1>1, <1>4 DEF w
  <2>2. QED
    BY <1>2, <2>1, DropFacts
<1>6. QED
  BY <1>1, <1>3, <1>4, <1>5

LEMMA UnreadNone ==
  ASSUME NEW d \in Daemons, NEW r, r.kind \in KindsOf(d), r.at = "sending", r.sent = 0
  PROVE  Unread(d, r, <<>>, 0)
<1>1. 0 \in 0..NumSends(d, r.kind) /\ Wrote(d, r.kind, 0) = <<>>
  BY WriteFacts
<1>2. Drop(<<>>, 0) = <<>>
  BY DEF Drop
<1>3. QED
  BY <1>1, <1>2 DEF Unread, SentBy

LEMMA UnreadSend ==
  ASSUME NEW d \in Daemons, NEW r, Sender(d, r), NEW u, NEW m \in Nat, Unread(d, r, u, m),
         r.at = "sending", NEW n \in Pauses(ClientOf[d][r.kind].sends), n > r.sent,
         NEW r2, r2.kind = r.kind,
         (r2.at = "sending" /\ r2.sent = n) \/ (r2.at \in {"receiving", "done"} /\ n = NumSends(d, r.kind))
  PROVE  Unread(d, r2, u \o FlattenSeq(SubSeq(ClientOf[d][r.kind].sends, r.sent + 1, n)), m)
<1> DEFINE k == r.kind
           L == NumSends(d, r.kind)
           i == r.sent
           p == Piece(d, r.kind, r.sent, n)
<1>1. k \in KindsOf(d)
  BY DEF Sender
<1>2. L \in Nat /\ L > 0 /\ n \in {L - 1, L} /\ n \in 0..L /\ i \in 0..L /\ i <= n
  <2>1. L \in Nat /\ L > 0 /\ n \in {L - 1, L}
    BY <1>1, WriteFacts
  <2>2. i \in {0, L - 1}
    BY DEF Sender
  <2>3. QED
    BY <2>1, <2>2
<1>3. Wrote(d, k, i) \in Seq(Fields) /\ Wrote(d, k, n) \in Seq(Fields)
      /\ p \in Seq(Fields) /\ Wrote(d, k, n) = Wrote(d, k, i) \o p
  <2> HIDE DEF k
  <2>1. \A x, y \in 0..L : x <= y => Piece(d, k, x, y) \in Seq(Fields) /\ Wrote(d, k, y) = Wrote(d, k, x) \o Piece(d, k, x, y)
    BY <1>1, WriteFacts DEF k
  <2>2. \A x \in 0..L : Wrote(d, k, x) \in Seq(Fields)
    BY <1>1, WriteFacts DEF k
  <2>3. p = Piece(d, k, i, n)
    BY DEF k
  <2> HIDE DEF L, i, p
  <2>4. QED
    BY <1>2, <2>1, <2>2, <2>3
<1>4. Len(Wrote(d, k, i)) >= m /\ u = Drop(Wrote(d, k, i), m)
  BY DEF Unread, SentBy
<1>5. Drop(Wrote(d, k, n), m) = u \o p /\ Len(Wrote(d, k, n)) >= m
  <2> HIDE DEF p
  <2>1. Len(Wrote(d, k, i)) \in Nat /\ Len(p) \in Nat
    BY <1>3
  <2>2. \A v, w \in Seq(Fields) : m <= Len(w) => Drop(w \o v, m) = Drop(w, m) \o v /\ Len(w \o v) = Len(w) + Len(v)
    BY DropConcat
  <2>3. Drop(Wrote(d, k, i) \o p, m) = Drop(Wrote(d, k, i), m) \o p
        /\ Len(Wrote(d, k, i) \o p) = Len(Wrote(d, k, i)) + Len(p)
    BY <1>3, <1>4, <2>1, <2>2
  <2>4. QED
    BY <1>3, <1>4, <2>1, <2>3
<1>6. SentBy(d, r2, n)
  BY <1>2 DEF SentBy
<1>7. QED
  BY <1>2, <1>5, <1>6 DEF Unread, Piece

\* A client that stops leaves what it has sent.
LEMMA UnreadKept ==
  ASSUME NEW d, NEW r, NEW u, NEW m, Unread(d, r, u, m), NEW r2, r2.kind = r.kind,
         r2.at \in {"dead", "killed"} \/ (r.at = "receiving" /\ r2.at \in {"spinning", "done"})
  PROVE  Unread(d, r2, u, m)
BY DEF Unread, SentBy

LEMMA UnreadHeader ==
  ASSUME NEW d \in Daemons, NEW r, Sender(d, r), NEW u, Unread(d, r, u, 0), Len(u) >= Len(Header[d])
  PROVE  Unread(d, r, SubSeq(u, Len(Header[d]) + 1, Len(u)), Len(Header[d]))
<1> DEFINE h == Len(Header[d])
<1>1. h \in Nat
  BY HeaderFacts, FilledFacts
<1>2. PICK n \in 0..NumSends(d, r.kind) :
         SentBy(d, r, n) /\ u = Drop(Wrote(d, r.kind, n), 0)
            /\ u \in Seq(Fields) /\ Len(u) = Len(Wrote(d, r.kind, n)) - 0
  <2>1. 0 \in Nat
    OBVIOUS
  <2>2. QED
    BY <2>1, UnreadFacts
<1>3. Wrote(d, r.kind, n) \in Seq(Fields)
  BY WriteFacts DEF Sender
<1>4. u = Wrote(d, r.kind, n)
  <2>1. 0 <= Len(Wrote(d, r.kind, n))
    BY <1>3
  <2>2. QED
    BY <1>2, <1>3, <2>1, DropFacts
<1>5. Len(Wrote(d, r.kind, n)) >= h /\ SubSeq(u, h + 1, Len(u)) = Drop(Wrote(d, r.kind, n), h)
  BY <1>4 DEF Drop
<1>6. QED
  BY <1>2, <1>5 DEF Unread

\* Once all that a job reads is there, its client has sent all of it.
LEMMA UnreadJob ==
  ASSUME NEW d \in Daemons, NEW r, Sender(d, r), r.kind \in Pooled(d), NEW u, Unread(d, r, u, Len(Header[d])),
         Len(u) >= Len(HandlerOf[d][r.kind].reads)
  PROVE  /\ u = HandlerOf[d][r.kind].reads /\ r.at # "sending"
         /\ SubSeq(u, 1, Len(HandlerOf[d][r.kind].reads)) = u
         /\ SubSeq(u, Len(HandlerOf[d][r.kind].reads) + 1, Len(u)) = <<>>
<1> DEFINE h == Len(Header[d])
           L == NumSends(d, r.kind)
           reads == HandlerOf[d][r.kind].reads
<1>1. h \in Nat /\ Len(Wrote(d, r.kind, L)) = h + Len(reads) /\ Drop(Wrote(d, r.kind, L), h) = reads
      /\ reads \in Seq(Fields)
  BY AskFacts
<1>2. PICK n \in 0..L :
         /\ u = Drop(Wrote(d, r.kind, n), h)
         /\ Len(u) = Len(Wrote(d, r.kind, n)) - h /\ Len(Wrote(d, r.kind, n)) \in Nat
         /\ n = L \/ Len(Wrote(d, r.kind, n)) < Len(Wrote(d, r.kind, L))
         /\ r.at = "sending" => n # L
  <2>1. h \in Nat
    BY <1>1
  <2>2. QED
    BY <2>1, UnreadFacts
<1>3. Len(reads) \in Nat
  BY <1>1
<1>4. n = L
  <2> DEFINE a == Len(Wrote(d, r.kind, n))
             b == Len(Wrote(d, r.kind, L))
  <2>1. /\ a \in Nat /\ h \in Nat /\ Len(reads) \in Nat /\ a - h >= Len(reads) /\ b = h + Len(reads)
        /\ n = L \/ a < b
    BY <1>1, <1>2, <1>3
  <2> HIDE DEF a, b, h, reads
  <2>2. QED
    BY <2>1
<1>5. u = reads /\ r.at # "sending"
  BY <1>1, <1>2, <1>4
<1>6. SubSeq(reads, 1, Len(reads)) = reads /\ SubSeq(reads, Len(reads) + 1, Len(reads)) = <<>>
  <2> HIDE DEF reads
  <2>1. QED
    BY <1>1
<1>7. QED
  BY <1>5, <1>6

LEMMA UnreadWhere ==
  ASSUME NEW d \in Daemons, NEW r, Sender(d, r), r.kind = "where", NEW u, Unread(d, r, u, Len(Header[d])),
         Len(u) >= 2
  PROVE  r.at # "sending"
<1> DEFINE h == Len(Header[d])
           L == NumSends(d, r.kind)
<1>1. h \in Nat
  BY HeaderFacts, FilledFacts
<1>2. Len(Wrote(d, r.kind, L - 1)) <= h + 1
  <2>1. r.kind \in KindsOf(d)
    BY DEF Sender
  <2>2. QED
    BY <2>1, WhereFact DEF AllButLast, Wrote, NumSends
<1>3. PICK n \in 0..L :
         /\ Len(u) = Len(Wrote(d, r.kind, n)) - h /\ Len(Wrote(d, r.kind, n)) \in Nat
         /\ n = L \/ Len(Wrote(d, r.kind, n)) <= Len(Wrote(d, r.kind, L - 1))
         /\ r.at = "sending" => n # L
  BY <1>1, UnreadFacts
<1>4. Len(Wrote(d, r.kind, L - 1)) \in Nat
  <2>1. r.kind \in KindsOf(d)
    BY DEF Sender
  <2>2. L \in Nat /\ L > 0
    BY <2>1, WriteFacts
  <2>3. L - 1 \in 0..L
    BY <2>2
  <2>4. Wrote(d, r.kind, L - 1) \in Seq(Fields)
    BY <2>1, <2>3, WriteFacts
  <2>5. QED
    BY <2>4
<1>5. QED
  BY <1>1, <1>2, <1>3, <1>4

\* The body of a message comes at once, but for the update of a distance.
LEMMA UnreadBody ==
  ASSUME NEW d \in Daemons, NEW r, Sender(d, r), r.kind \notin Pooled(d), NEW u, Unread(d, r, u, Len(Header[d]))
  PROVE  /\ u = Body(d, r.kind) => r.at # "sending"
         /\ u # <<>> /\ r.kind # "hops" => u = Body(d, r.kind)
         /\ u = <<>> => r.at \notin {"receiving", "spinning", "done"}
<1> DEFINE h == Len(Header[d])
           L == NumSends(d, r.kind)
<1>1. r.kind \in KindsOf(d)
  BY DEF Sender
<1>2. /\ h \in Nat /\ Len(Wrote(d, r.kind, L)) > h /\ Body(d, r.kind) = Drop(Wrote(d, r.kind, L), h)
      /\ r.kind # "hops" => Len(Wrote(d, r.kind, L - 1)) <= h
  BY <1>1, TellFacts
<1>3. PICK n \in 0..L :
         /\ u = Drop(Wrote(d, r.kind, n), h) /\ u \in Seq(Fields)
         /\ Len(u) = Len(Wrote(d, r.kind, n)) - h /\ Len(Wrote(d, r.kind, n)) \in Nat
         /\ n = L \/ (/\ r.at \notin {"receiving", "spinning", "done"}
                      /\ Len(Wrote(d, r.kind, n)) <= Len(Wrote(d, r.kind, L - 1))
                      /\ Len(Wrote(d, r.kind, n)) < Len(Wrote(d, r.kind, L)))
         /\ r.at = "sending" => n # L
  BY <1>2, UnreadFacts
<1>4. Wrote(d, r.kind, L) \in Seq(Fields) /\ Wrote(d, r.kind, L - 1) \in Seq(Fields)
  <2>1. L \in Nat /\ L > 0
    BY <1>1, WriteFacts
  <2>2. L \in 0..L /\ L - 1 \in 0..L
    BY <2>1
  <2>3. QED
    BY <1>1, <2>2, WriteFacts
<1>5. Len(Body(d, r.kind)) = Len(Wrote(d, r.kind, L)) - h
  <2>1. h <= Len(Wrote(d, r.kind, L)) /\ Len(Wrote(d, r.kind, L)) \in Nat
    BY <1>2, <1>4
  <2>2. QED
    BY <1>2, <1>4, <2>1, DropFacts
<1>6. Len(Wrote(d, r.kind, L - 1)) \in Nat /\ Len(Wrote(d, r.kind, L)) \in Nat
      /\ (n = L \/ (/\ Len(Wrote(d, r.kind, n)) <= Len(Wrote(d, r.kind, L - 1))
                   /\ Len(Wrote(d, r.kind, n)) < Len(Wrote(d, r.kind, L))))
      /\ (r.at \in {"receiving", "spinning", "done"} => n = L) /\ (r.at = "sending" => n # L)
  BY <1>3, <1>4
<1>7. /\ u = Body(d, r.kind) => n = L
      /\ u # <<>> /\ r.kind # "hops" => u = Body(d, r.kind)
  <2>1. u # <<>> => Len(u) > 0
    <3>1. \A s \in Seq(Fields) : s # <<>> => Len(s) > 0
      OBVIOUS
    <3>2. QED
      BY <1>3, <3>1
  <2>2. Len(u) = Len(Wrote(d, r.kind, n)) - h /\ Len(Wrote(d, r.kind, n)) \in Nat
    BY <1>3
  <2>3. u = Body(d, r.kind) => n = L
    <3> DEFINE a == Len(Wrote(d, r.kind, n))
               b == Len(Wrote(d, r.kind, L))
               body == Body(d, r.kind)
    <3>1. /\ a \in Nat /\ h \in Nat /\ b \in Nat /\ Len(u) = a - h /\ Len(body) = b - h /\ (n = L \/ a < b)
      BY <1>2, <1>5, <1>6, <2>2
    <3> HIDE DEF a, b, h, body
    <3>2. u = body => n = L
      BY <3>1
    <3>3. QED
      BY <3>2 DEF body
  <2>4. u # <<>> /\ r.kind # "hops" => n = L
    BY <1>2, <1>6, <2>1, <2>2
  <2>5. n = L => u = Body(d, r.kind)
    BY <1>2, <1>3
  <2>6. QED
    BY <2>3, <2>4, <2>5
<1>8. u = <<>> => n # L
  <2>1. Len(<<>>) = 0
    OBVIOUS
  <2>2. QED
    BY <1>2, <1>3, <1>4, <2>1
<1>9. QED
  BY <1>6, <1>7, <1>8

LEMMA UnreadNothing ==
  ASSUME NEW d \in Daemons, NEW r, Sender(d, r), Unread(d, r, <<>>, 0)
  PROVE  r.at \notin {"receiving", "spinning", "done"}
<1> DEFINE L == NumSends(d, r.kind)
<1>1. r.kind \in KindsOf(d) /\ 0 \in Nat
  BY DEF Sender
<1>2. PICK n \in 0..L :
         /\ Len(<<>>) = Len(Wrote(d, r.kind, n)) - 0 /\ Len(Wrote(d, r.kind, n)) \in Nat
         /\ n = L \/ r.at \notin {"receiving", "spinning", "done"}
  BY <1>1, UnreadFacts
<1>3. Len(Wrote(d, r.kind, L)) > 0
  <2>1. L \in Nat /\ L > 0 /\ Len(Wrote(d, r.kind, L - 1)) < Len(Wrote(d, r.kind, L))
    BY <1>1, WriteFacts
  <2>2. L - 1 \in 0..L /\ L \in 0..L
    BY <2>1
  <2>3. Wrote(d, r.kind, L - 1) \in Seq(Fields) /\ Wrote(d, r.kind, L) \in Seq(Fields)
    BY <1>1, <2>2, WriteFacts
  <2>4. Len(Wrote(d, r.kind, L - 1)) \in Nat /\ Len(Wrote(d, r.kind, L)) \in Nat
    BY <2>3
  <2>5. QED
    BY <2>1, <2>4
<1>4. QED
  BY <1>2, <1>3
-----------------------------------------------------------------------------
(* What a step writes.                                                     *)

CallAts == {"idle", "sending", "receiving", "spinning", "done", "dead", "killed"}
CallRecs ==
  [at : CallAts, kind : KindsOf(service) \cup {NoKind}, short : BOOLEAN, sent : Nat, got : Seq(Fields),
   rv : {"none", "ok", "failed"}]
HandlerAts == {"none", "queued", "reading", "working", "replying", "closed"}
HandlerRecs == [at : HandlerAts, kind : Pooled(service) \cup {NoKind}, got : Seq(Fields), left : Seq(Fields)]
ListenerRecs ==
  [at : {"accept", "header", "body", "enqueue", "signal"}, conn : Calls \cup {NoCall},
   kind : KindsOf(service) \cup {NoKind}]

LEMMA TypeFacts ==
  TypeOK <=> /\ service \in Daemons /\ alive \in BOOLEAN
             /\ call \in [Calls -> CallRecs] /\ handler \in [Calls -> HandlerRecs] /\ listener \in ListenerRecs
             /\ up \in [Calls -> Seq(Fields)] /\ down \in [Calls -> Seq(Fields)]
             /\ shut \in [Calls -> SUBSET {"client", "daemon"}]
             /\ backlog \in Seq(Calls) /\ jobs \in Seq(Calls) /\ queue \in Seq(Calls) /\ applied \in Seq(Calls)
             /\ main \in {"starting", "waiting", "awake"}
             /\ performed \in [Calls -> 0..1] /\ before \in [Calls -> SUBSET Calls]
BY DEF TypeOK, CallRecs, CallAts, HandlerRecs, HandlerAts, ListenerRecs

LEMMA TypeStep ==
  ASSUME TypeOK, service' = service, alive' \in BOOLEAN,
         call' \in [Calls -> CallRecs], handler' \in [Calls -> HandlerRecs], listener' \in ListenerRecs,
         up' \in [Calls -> Seq(Fields)], down' \in [Calls -> Seq(Fields)],
         shut' \in [Calls -> SUBSET {"client", "daemon"}],
         backlog' \in Seq(Calls), jobs' \in Seq(Calls), queue' \in Seq(Calls), applied' \in Seq(Calls),
         main' \in {"starting", "waiting", "awake"},
         performed' \in [Calls -> 0..1], before' \in [Calls -> SUBSET Calls]
  PROVE  TypeOK'
<1>1. KindsOf(service)' = KindsOf(service) /\ Pooled(service)' = Pooled(service) /\ service' \in Daemons
  BY DEF KindsOf, Pooled, TypeOK
<1>2. CallRecs' = CallRecs /\ HandlerRecs' = HandlerRecs /\ ListenerRecs' = ListenerRecs
  BY <1>1 DEF CallRecs, HandlerRecs, ListenerRecs
<1>3. call' \in [Calls -> CallRecs'] /\ handler' \in [Calls -> HandlerRecs'] /\ listener' \in ListenerRecs'
  BY <1>2
<1>4. /\ call' \in [Calls -> [at : {"idle", "sending", "receiving", "spinning", "done", "dead", "killed"},
                              kind : KindsOf(service') \cup {NoKind}, short : BOOLEAN, sent : Nat,
                              got : Seq(Fields), rv : {"none", "ok", "failed"}]]
      /\ handler' \in [Calls -> [at : {"none", "queued", "reading", "working", "replying", "closed"},
                                 kind : Pooled(service') \cup {NoKind}, got : Seq(Fields), left : Seq(Fields)]]
      /\ listener' \in [at : {"accept", "header", "body", "enqueue", "signal"}, conn : Calls \cup {NoCall},
                        kind : KindsOf(service') \cup {NoKind}]
  BY <1>3 DEF CallRecs, CallAts, HandlerRecs, HandlerAts, ListenerRecs
<1>5. {backlog', jobs', queue', applied'} \subseteq Seq(Calls)
  OBVIOUS
<1>6. QED
  BY <1>1, <1>4, <1>5 DEF TypeOK

\* The client's side of a call.
Turn(c, kind, short, at, sent, got, rv) ==
  /\ call'[c].kind = kind /\ call'[c].short = short
  /\ call'[c].at = at /\ call'[c].sent = sent /\ call'[c].got = got /\ call'[c].rv = rv
  /\ \A d \in Calls : d # c => call'[d] = call[d]
  /\ call' \in [Calls -> CallRecs]
Moved(c, at, sent, got, rv) == Turn(c, call[c].kind, call[c].short, at, sent, got, rv)

LEMMA CallStep ==
  ASSUME call \in [Calls -> CallRecs], NEW c \in Calls, NEW rec \in CallRecs, call' = [call EXCEPT ![c] = rec]
  PROVE  Turn(c, rec.kind, rec.short, rec.at, rec.sent, rec.got, rec.rv)
BY DEF Turn

LEMMA FinishStep ==
  ASSUME call \in [Calls -> CallRecs], NEW c \in Calls, NEW at \in CallAts, NEW rv \in {"none", "ok", "failed"},
         Finish(c, at, rv)
  PROVE  Moved(c, at, 0, call[c].got, rv)
<1>1. call' = [call EXCEPT ![c].at = at, ![c].rv = rv, ![c].sent = 0]
  BY DEF Finish
<1>2. call'[c] = [call[c] EXCEPT !.at = at, !.rv = rv, !.sent = 0] /\ \A d \in Calls : d # c => call'[d] = call[d]
  BY <1>1
<1>3. call[c] \in CallRecs
  OBVIOUS
<1>4. QED
  BY <1>1, <1>2, <1>3 DEF Moved, Turn, CallRecs

-----------------------------------------------------------------------------
(* The client's steps.                                                     *)

\* One client moves on, and nothing of the daemon does.
ClientMoves(c, at, sent, got, rv) ==
  /\ at # "idle" /\ Moved(c, at, sent, got, rv)
  /\ UNCHANGED <<service, daemonVars, history>>
  /\ up' \in [Calls -> Seq(Fields)] /\ down' \in [Calls -> Seq(Fields)]
  /\ shut' \in [Calls -> SUBSET {"client", "daemon"}]
  /\ \A d \in Calls : d # c => up'[d] = up[d] /\ down'[d] = down[d] /\ shut'[d] = shut[d]

LEMMA ClientKeeps ==
  ASSUME IInv, NEW c \in Calls, NEW at, NEW sent, NEW got, NEW rv, ClientMoves(c, at, sent, got, rv),
         ClientInv(c)', RequestInv(c)', EndInv(c)', AnswerInv(c)', ReturnInv(c)', UpdateInv(c)'
  PROVE  IInv'
<1>1. /\ UNCHANGED <<service, alive, backlog, listener, jobs, handler, queue, main, performed, applied, before>>
      /\ at # "idle" /\ call'[c].at = at /\ \A d \in Calls : d # c => call'[d] = call[d]
      /\ call' \in [Calls -> CallRecs]
      /\ up' \in [Calls -> Seq(Fields)] /\ down' \in [Calls -> Seq(Fields)]
      /\ shut' \in [Calls -> SUBSET {"client", "daemon"}]
      /\ \A d \in Calls : d # c => up'[d] = up[d] /\ down'[d] = down[d] /\ shut'[d] = shut[d]
  BY DEF ClientMoves, Moved, Turn, daemonVars, history
<1>2. TypeOK /\ CallInv(c)
  BY DEF IInv
<1>3. TypeOK'
  BY <1>1, <1>2, TypeFacts, TypeStep
<1>4. /\ Range(applied)' = Range(applied) /\ Range(queue)' = Range(queue) /\ Range(backlog)' = Range(backlog)
      /\ Hand' = Hand /\ Lined' = Lined /\ Listening' = Listening
      /\ \A d \in Calls : /\ (Waiting(d)' <=> Waiting(d)) /\ (InBody(d)' <=> InBody(d))
                          /\ (InLine(d)' <=> InLine(d))
  BY <1>1 DEF Hand, Lined, Listening, Waiting, InBody, InLine
<1>5. LineInv'
  <2>1. LineInv /\ \A d \in Calls : call[d].at # "idle" => call'[d].at # "idle"
    BY <1>1 DEF IInv
  <2>2. Lined \subseteq Calls /\ \A d \in Calls : before[d] \subseteq Calls
    <3>1. Hand \subseteq Calls
      BY DEF IInv, DaemonInv, Hand
    <3>2. QED
      BY <1>2, <3>1, TypeFacts, RangeFacts DEF Lined
  <2>3. InOrder(before, applied)' /\ InOrder(before, queue)' /\ InOrder(before, backlog)'
    BY <1>1, <2>1 DEF LineInv
  <2>4. /\ Precede(before, Range(applied), Range(queue) \cup Hand \cup Range(backlog))'
        /\ Precede(before, Range(queue), Hand \cup Range(backlog))'
        /\ Precede(before, Hand, Range(backlog))'
    BY <1>1, <1>4, <2>1 DEF LineInv
  <2>5. /\ \A d \in Lined : call'[d].at # "idle"
        /\ \A e \in Calls : \A d \in before'[e] : call'[d].at # "idle"
    BY <1>1, <2>1, <2>2 DEF LineInv
  <2>6. QED
    BY <1>4, <2>3, <2>4, <2>5 DEF LineInv
<1>6. JobsInv'
  BY <1>1 DEF IInv, JobsInv
<1>7. DaemonInv'
  BY <1>1, <1>4 DEF IInv, DaemonInv
<1>8. CallInv(c)'
  <2>1. HandlerInv(c)'
    BY <1>1, <1>2, <1>4 DEF CallInv, HandlerInv
  <2>2. PerformedInv(c)'
    BY <1>1, <1>2, <1>4 DEF CallInv, PerformedInv
  <2>3. QED
    BY <2>1, <2>2 DEF CallInv
<1>9. ASSUME NEW d \in Calls, d # c
      PROVE  CallInv(d)'
  <2>1. Same(d)
    BY <1>1, <1>4, <1>9 DEF Same
  <2>2. CallInv(d)
    BY DEF IInv
  <2>3. QED
    BY <2>1, <2>2, Untouched
<1>10. QED
  BY <1>3, <1>5, <1>6, <1>7, <1>8, <1>9 DEF IInv

\* What the daemon knows of a call whose client stops.
LEMMA StoppedKeeps ==
  ASSUME IInv, NEW c \in Calls, UNCHANGED <<service, daemonVars, history>>, up'[c] = up[c],
         shut[c] \subseteq shut'[c], call'[c].kind = call[c].kind, call'[c].short = call[c].short,
         call[c].at # "idle",
         call'[c].at \in {"dead", "killed"} \/ (call[c].at = "receiving" /\ call'[c].at \in {"spinning", "done"})
  PROVE  RequestInv(c)' /\ UpdateInv(c)'
<1>1. UNCHANGED <<service, alive, backlog, listener, jobs, handler, queue, main, performed, applied, before>>
  BY DEF daemonVars, history
<1>2. CallInv(c)
  BY DEF IInv
<1>3. RequestInv(c)'
  <2>1. \A m : Unread(service, call[c], up[c], m) => Unread(service', call'[c], up'[c], m)
    BY <1>1, UnreadKept
  <2>2. Waiting(c)' = Waiting(c) /\ InBody(c)' = InBody(c) /\ Header[service'] = Header[service]
        /\ Pooled(service)' = Pooled(service)
    BY <1>1 DEF Waiting, InBody, Pooled
  <2>3. (Nothing(c) => Nothing(c)') /\ (Garbled(c)' <=> Garbled(c)) /\ (Understood(c) => Understood(c)')
    BY <1>1 DEF Nothing, Garbled, Understood, Script
  <2>4. QED
    BY <1>1, <1>2, <2>1, <2>2, <2>3 DEF CallInv, RequestInv
<1>4. UpdateInv(c)'
  BY <1>1, <1>2 DEF CallInv, AnswerInv, UpdateInv, Client
<1>5. QED
  BY <1>3, <1>4

LEMMA FinishKeeps ==
  ASSUME IInv, NEW c \in Calls, NEW at \in Ended, NEW rv \in {"none", "ok", "failed"}, Finish(c, at, rv),
         UNCHANGED <<service, daemonVars, up, history>>,
         call[c].at \in {"sending", "receiving", "spinning"}, at = "done" => call[c].at = "receiving",
         rv # "none" => at = "done", rv = "ok" => call[c].kind = "distance",
         at = "killed" => ~alive \/ (call[c].short /\ call[c].kind = "forward")
  PROVE  IInv'
<1>1. TypeOK /\ CallInv(c)
  BY DEF IInv
<1>2. Moved(c, at, 0, call[c].got, rv)
  BY <1>1, TypeFacts, FinishStep DEF CallAts, Ended
<1>3. /\ down' \in [Calls -> Seq(Fields)] /\ shut' \in [Calls -> SUBSET {"client", "daemon"}] /\ up' = up
      /\ down'[c] = <<>> /\ shut'[c] = shut[c] \cup {"client"}
      /\ \A d \in Calls : d # c => down'[d] = down[d] /\ shut'[d] = shut[d]
  <2>1. down \in [Calls -> Seq(Fields)] /\ shut \in [Calls -> SUBSET {"client", "daemon"}] /\ <<>> \in Seq(Fields)
    BY <1>1, TypeFacts
  <2>2. QED
    BY <2>1 DEF Finish, Closed
<1>4. ClientMoves(c, at, 0, call[c].got, rv)
  BY <1>1, <1>2, <1>3, TypeFacts DEF ClientMoves, Ended
<1>5. /\ call'[c].kind = call[c].kind /\ call'[c].short = call[c].short /\ call'[c].at = at
      /\ call'[c].got = call[c].got /\ call'[c].rv = rv
  BY <1>2 DEF Moved, Turn
<1>6. service' = service /\ alive' = alive /\ handler' = handler
  BY DEF daemonVars
<1>7. RequestInv(c)' /\ UpdateInv(c)'
  BY <1>3, <1>5, StoppedKeeps DEF Ended
<1>8. ClientInv(c)'
  BY <1>1, <1>3, <1>5, <1>6 DEF CallInv, ClientInv, Ended, KindsOf
<1>9. EndInv(c)'
  BY <1>5, <1>6 DEF EndInv, Ended
<1>10. AnswerInv(c)'
  BY <1>5 DEF AnswerInv, Ended
<1>11. ReturnInv(c)'
  BY <1>5 DEF ReturnInv
<1>12. QED
  BY <1>4, <1>7, <1>8, <1>9, <1>10, <1>11, ClientKeeps

LEMMA SendKilledKeeps ==
  ASSUME IInv, NEW c \in Calls, SendKilled(c)
  PROVE  IInv'
<1>1. CallInv(c) /\ call[c].at = "sending" /\ "daemon" \in shut[c]
  BY DEF IInv, SendKilled
<1>2. alive => call[c].short /\ call[c].kind = "forward"
  BY <1>1 DEF CallInv, EndInv
<1>3. QED
  BY <1>1, <1>2, FinishKeeps DEF SendKilled, Ended, IInv, TypeOK

LEMMA ReceiveEndKeeps ==
  ASSUME IInv, NEW c \in Calls, ReceiveEnd(c)
  PROVE  IInv'
<1>1. CASE Finish(c, "done", "failed")
  BY <1>1, FinishKeeps DEF ReceiveEnd, Ended
<1>2. CASE call[c].kind = "distance" /\ Finish(c, "done", "ok")
  BY <1>2, FinishKeeps DEF ReceiveEnd, Ended
<1>3. QED
  BY <1>1, <1>2 DEF ReceiveEnd

LEMMA DieKeeps ==
  ASSUME IInv, NEW c \in Calls, Die(c)
  PROVE  IInv'
BY FinishKeeps DEF Die, Ended

\* A client that has more to send, or waits for its answer, or is done.
LEMMA SendStep ==
  ASSUME IInv, NEW c \in Calls, Send(c)
  PROVE  /\ call[c].at = "sending" /\ "daemon" \notin shut[c] /\ Sender(service, call[c])
         /\ UNCHANGED <<service, daemonVars, down, history>>
         /\ up' \in [Calls -> Seq(Fields)] /\ shut' \in [Calls -> SUBSET {"client", "daemon"}]
         /\ \A d \in Calls : d # c => up'[d] = up[d] /\ shut'[d] = shut[d]
         /\ \E n \in Pauses(Client(c).sends) :
               /\ n > call[c].sent /\ n \in Nat
               /\ up'[c] = up[c] \o FlattenSeq(SubSeq(Client(c).sends, call[c].sent + 1, n))
               /\ \/ /\ n = NumSends(service, call[c].kind) - 1
                     /\ Moved(c, "sending", n, <<>>, "none") /\ shut'[c] = shut[c]
                  \/ /\ n = NumSends(service, call[c].kind) /\ Client(c).awaits # <<>>
                     /\ Moved(c, "receiving", 0, <<>>, "none") /\ shut'[c] = shut[c]
                  \/ /\ n = NumSends(service, call[c].kind) /\ Client(c).awaits = <<>>
                     /\ Moved(c, "done", 0, <<>>, "ok") /\ shut'[c] = shut[c] \cup {"client"}
<1> DEFINE k == call[c].kind
           L == NumSends(service, k)
           sends == Client(c).sends
<1>1. TypeOK /\ CallInv(c) /\ service \in Daemons
  BY DEF IInv, TypeOK
<1>2. call[c].at = "sending" /\ "daemon" \notin shut[c] /\ UNCHANGED <<service, daemonVars, down, history>>
  BY DEF Send
<1>3. k \in KindsOf(service) /\ Sender(service, call[c]) /\ call[c].got = <<>> /\ call[c].rv = "none"
  BY <1>1, <1>2, TypeFacts DEF CallInv, ClientInv, Sender, CallRecs
<1>4. PICK n \in Pauses(sends) :
         /\ n > call[c].sent
         /\ up' = [up EXCEPT ![c] = @ \o FlattenSeq(SubSeq(sends, call[c].sent + 1, n))]
         /\ IF n < Len(sends) THEN call' = [call EXCEPT ![c].sent = n] /\ UNCHANGED shut
            ELSE IF Client(c).awaits # <<>>
                 THEN call' = [call EXCEPT ![c].sent = 0, ![c].at = "receiving"] /\ UNCHANGED shut
            ELSE call' = [call EXCEPT ![c].sent = 0, ![c].at = "done", ![c].rv = "ok"] /\ Closed(c, "client")
  BY DEF Send
<1>5. L \in Nat /\ L > 0 /\ n \in {L - 1, L} /\ Len(sends) = L /\ call[c].sent \in {0, L - 1}
  <2>1. L \in Nat /\ L > 0 /\ Pauses(ClientOf[service][k].sends) = {L - 1, L}
    BY <1>1, <1>3, WriteFacts
  <2>2. QED
    BY <1>2, <1>3, <1>4, <2>1 DEF Client, NumSends, Sender
<1>6. FlattenSeq(SubSeq(sends, call[c].sent + 1, n)) \in Seq(Fields)
  <2> DEFINE i == call[c].sent
  <2>1. i \in 0..L /\ n \in 0..L /\ i <= n
    BY <1>4, <1>5
  <2>2. \A x, y \in 0..L : x <= y => Piece(service, k, x, y) \in Seq(Fields)
    BY <1>1, <1>3, WriteFacts
  <2>3. Piece(service, k, i, n) = FlattenSeq(SubSeq(sends, i + 1, n))
    BY DEF Piece, Client
  <2> HIDE DEF i, L, k, sends
  <2>4. QED
    BY <2>1, <2>2, <2>3 DEF i
<1>7. /\ up' \in [Calls -> Seq(Fields)] /\ \A d \in Calls : d # c => up'[d] = up[d]
      /\ up'[c] = up[c] \o FlattenSeq(SubSeq(sends, call[c].sent + 1, n))
  <2> DEFINE piece == FlattenSeq(SubSeq(sends, call[c].sent + 1, n))
  <2>1. up \in [Calls -> Seq(Fields)] /\ piece \in Seq(Fields) /\ up' = [up EXCEPT ![c] = up[c] \o piece]
    BY <1>1, <1>4, <1>6, TypeFacts
  <2> HIDE DEF piece
  <2>2. up[c] \o piece \in Seq(Fields)
    BY <2>1
  <2>3. up' \in [Calls -> Seq(Fields)] /\ up'[c] = up[c] \o piece /\ \A d \in Calls : d # c => up'[d] = up[d]
    BY <2>1, <2>2
  <2>4. QED
    BY <2>3 DEF piece
<1>8. shut \in [Calls -> SUBSET {"client", "daemon"}] /\ call \in [Calls -> CallRecs]
  BY <1>1, TypeFacts
<1>9. CASE n < Len(sends)
  <2>1. n = L - 1 /\ n \in Nat /\ call' = [call EXCEPT ![c].sent = n] /\ shut' = shut
    BY <1>4, <1>5, <1>9
  <2>2. Moved(c, "sending", n, <<>>, "none")
    <3>1. /\ call'[c] = [call[c] EXCEPT !.sent = n] /\ \A d \in Calls : d # c => call'[d] = call[d]
          /\ call[c] \in CallRecs
      BY <1>8, <2>1
    <3>2. call' \in [Calls -> CallRecs]
      BY <1>8, <2>1, <3>1 DEF CallRecs, CallAts
    <3>3. QED
      BY <1>2, <1>3, <3>1, <3>2 DEF Moved, Turn, CallRecs
  <2>3. QED
    BY <1>2, <1>3, <1>4, <1>7, <1>8, <2>1, <2>2
<1>10. CASE ~(n < Len(sends)) /\ Client(c).awaits # <<>>
  <2>1. n = L /\ n \in Nat /\ call' = [call EXCEPT ![c].sent = 0, ![c].at = "receiving"] /\ shut' = shut
    BY <1>4, <1>5, <1>10
  <2>2. Moved(c, "receiving", 0, <<>>, "none")
    <3>1. /\ call'[c] = [call[c] EXCEPT !.sent = 0, !.at = "receiving"] /\ \A d \in Calls : d # c => call'[d] = call[d]
          /\ call[c] \in CallRecs
      BY <1>8, <2>1
    <3>2. call' \in [Calls -> CallRecs]
      BY <1>8, <2>1, <3>1 DEF CallRecs, CallAts
    <3>3. QED
      BY <1>2, <1>3, <3>1, <3>2 DEF Moved, Turn, CallRecs
  <2>3. QED
    BY <1>2, <1>3, <1>4, <1>7, <1>8, <1>10, <2>1, <2>2
<1>11. CASE ~(n < Len(sends)) /\ Client(c).awaits = <<>>
  <2>1. n = L /\ n \in Nat /\ call' = [call EXCEPT ![c].sent = 0, ![c].at = "done", ![c].rv = "ok"]
        /\ shut' = [shut EXCEPT ![c] = shut[c] \cup {"client"}]
    BY <1>4, <1>5, <1>11 DEF Closed
  <2>2. Moved(c, "done", 0, <<>>, "ok")
    <3>1. /\ call'[c] = [call[c] EXCEPT !.sent = 0, !.at = "done", !.rv = "ok"] /\ \A d \in Calls : d # c => call'[d] = call[d]
          /\ call[c] \in CallRecs
      BY <1>8, <2>1
    <3>2. call' \in [Calls -> CallRecs]
      BY <1>8, <2>1, <3>1 DEF CallRecs, CallAts
    <3>3. QED
      BY <1>2, <1>3, <3>1, <3>2 DEF Moved, Turn, CallRecs
  <2>3. /\ shut' \in [Calls -> SUBSET {"client", "daemon"}] /\ shut'[c] = shut[c] \cup {"client"}
        /\ \A d \in Calls : d # c => shut'[d] = shut[d]
    BY <1>8, <2>1
  <2>4. QED
    BY <1>2, <1>3, <1>4, <1>7, <1>11, <2>1, <2>2, <2>3
<1>12. QED
  BY <1>9, <1>10, <1>11

LEMMA SendKeeps ==
  ASSUME IInv, NEW c \in Calls, Send(c)
  PROVE  IInv'
<1>1. TypeOK /\ CallInv(c) /\ service \in Daemons
  BY DEF IInv, TypeOK
<1>2. /\ call[c].at = "sending" /\ "daemon" \notin shut[c] /\ Sender(service, call[c])
      /\ UNCHANGED <<service, daemonVars, down, history>>
      /\ up' \in [Calls -> Seq(Fields)] /\ shut' \in [Calls -> SUBSET {"client", "daemon"}]
      /\ \A d \in Calls : d # c => up'[d] = up[d] /\ shut'[d] = shut[d]
  BY SendStep
<1>3. PICK n \in Pauses(Client(c).sends) :
         /\ n > call[c].sent /\ n \in Nat
         /\ up'[c] = up[c] \o FlattenSeq(SubSeq(Client(c).sends, call[c].sent + 1, n))
         /\ \/ /\ n = NumSends(service, call[c].kind) - 1
               /\ Moved(c, "sending", n, <<>>, "none") /\ shut'[c] = shut[c]
            \/ /\ n = NumSends(service, call[c].kind) /\ Client(c).awaits # <<>>
               /\ Moved(c, "receiving", 0, <<>>, "none") /\ shut'[c] = shut[c]
            \/ /\ n = NumSends(service, call[c].kind) /\ Client(c).awaits = <<>>
               /\ Moved(c, "done", 0, <<>>, "ok") /\ shut'[c] = shut[c] \cup {"client"}
  BY SendStep
<1>4. UNCHANGED <<service, alive, backlog, listener, jobs, handler, queue, main, performed, applied, before, down>>
  BY <1>2 DEF daemonVars, history
<1>5. "client" \notin shut[c] /\ handler[c].at \notin {"working", "replying"} /\ down[c] = <<>>
  BY <1>1, <1>2 DEF CallInv, ClientInv, RequestInv, Understood, Ended
<1>6. /\ call'[c].kind = call[c].kind /\ call'[c].short = call[c].short /\ call'[c].got = <<>>
      /\ (call'[c].at = "sending" /\ call'[c].sent = n /\ n = NumSends(service, call[c].kind) - 1)
         \/ (call'[c].at \in {"receiving", "done"} /\ n = NumSends(service, call[c].kind))
      /\ call'[c].at = "receiving" => Client(c).awaits # <<>>
      /\ call'[c].at = "done" => Client(c).awaits = <<>> /\ shut'[c] = shut[c] \cup {"client"}
      /\ call'[c].at # "done" => shut'[c] = shut[c] /\ call'[c].rv = "none"
  BY <1>3 DEF Moved, Turn
<1>7. RequestInv(c)'
  <2>1. ASSUME NEW m \in Nat, Unread(service, call[c], up[c], m)
        PROVE  Unread(service', call'[c], up'[c], m)
    <3> DEFINE r == call[c]
               u == up[c]
               r2 == call'[c]
               d == service
    <3>1. /\ d \in Daemons /\ Sender(d, r) /\ Unread(d, r, u, m) /\ r.at = "sending"
          /\ n \in Pauses(ClientOf[d][r.kind].sends) /\ n > r.sent /\ r2.kind = r.kind
          /\ (r2.at = "sending" /\ r2.sent = n) \/ (r2.at \in {"receiving", "done"} /\ n = NumSends(d, r.kind))
          /\ up'[c] = u \o FlattenSeq(SubSeq(ClientOf[d][r.kind].sends, r.sent + 1, n)) /\ service' = d
      <4>1. d \in Daemons /\ Sender(d, r) /\ Unread(d, r, u, m) /\ r.at = "sending" /\ service' = d
        BY <1>1, <1>2, <1>4, <2>1
      <4>2. Client(c) = ClientOf[d][r.kind]
        BY DEF Client
      <4>3. n \in Pauses(ClientOf[d][r.kind].sends) /\ n > r.sent /\ r2.kind = r.kind
        BY <1>3, <1>6, <4>2
      <4>4. (r2.at = "sending" /\ r2.sent = n) \/ (r2.at \in {"receiving", "done"} /\ n = NumSends(d, r.kind))
        BY <1>6
      <4>5. up'[c] = u \o FlattenSeq(SubSeq(ClientOf[d][r.kind].sends, r.sent + 1, n))
        BY <1>3, <4>2
      <4>6. QED
        BY <4>1, <4>3, <4>4, <4>5
    <3> HIDE DEF r, u, r2, d
    <3>2. Unread(d, r2, u \o FlattenSeq(SubSeq(ClientOf[d][r.kind].sends, r.sent + 1, n)), m)
      BY <3>1, UnreadSend
    <3>3. QED
      BY <3>1, <3>2 DEF r2
  <2>2. Waiting(c)' = Waiting(c) /\ InBody(c)' = InBody(c) /\ Header[service'] = Header[service]
        /\ Pooled(service)' = Pooled(service)
    BY <1>4 DEF Waiting, InBody, Pooled
  <2>3. Len(Header[service]) \in Nat /\ 0 \in Nat
    BY <1>1, HeaderFacts, FilledFacts
  <2>4. ~Nothing(c)
    BY <1>5 DEF Nothing
  <2>5. QED
    BY <1>1, <1>4, <1>5, <1>6, <2>1, <2>2, <2>3, <2>4 DEF CallInv, RequestInv
<1>8. ClientInv(c)'
  BY <1>1, <1>2, <1>4, <1>5, <1>6 DEF CallInv, ClientInv, Ended, Sender, KindsOf
<1>9. EndInv(c)'
  BY <1>2, <1>6 DEF EndInv
<1>10. AnswerInv(c)'
  <2> SUFFICES ASSUME call'[c].at = "receiving"
               PROVE  AnswerInv(c)'
    BY DEF AnswerInv
  <2>1. Client(c)' = Client(c) /\ Client(c).awaits # <<>> /\ down'[c] = <<>>
    BY <1>4, <1>5, <1>6 DEF Client
  <2>2. handler'[c].at # "replying"
    BY <1>4, <1>5
  <2>3. QED
    BY <2>1, <2>2 DEF AnswerInv
<1>11. ReturnInv(c)'
  BY <1>4, <1>5, <1>6 DEF ReturnInv, Client
<1>12. UpdateInv(c)'
  <2>1. InLine(c)' = InLine(c) /\ Client(c)' = Client(c)
    BY <1>4, <1>6 DEF InLine, Hand, Client
  <2>2. QED
    BY <1>1, <1>2, <1>4, <1>6, <2>1 DEF CallInv, UpdateInv
<1>13. \E at, sent, rv : ClientMoves(c, at, sent, <<>>, rv)
  <2>1. down' \in [Calls -> Seq(Fields)] /\ \A d \in Calls : down'[d] = down[d]
    BY <1>1, <1>4, TypeFacts
  <2>2. \E at, sent, rv : at # "idle" /\ Moved(c, at, sent, <<>>, rv)
    BY <1>3
  <2>3. QED
    BY <1>2, <2>1, <2>2 DEF ClientMoves
<1>14. QED
  BY <1>7, <1>8, <1>9, <1>10, <1>11, <1>12, <1>13, ClientKeeps

LEMMA AwaitsFacts ==
  ASSUME NEW d \in Daemons, NEW k \in KindsOf(d)
  PROVE  ClientOf[d][k].awaits \in Seq(Fields) /\ (ClientOf[d][k].awaits # <<>> <=> k \in Pooled(d))
<1>1. CASE k \in Pooled(d)
  BY <1>1, AskFacts
<1>2. CASE k \notin Pooled(d)
  <2>1. <<>> \in Seq(Fields)
    OBVIOUS
  <2>2. QED
    BY <1>2, <2>1, TellFacts
<1>3. QED
  BY <1>1, <1>2

LEMMA FrontFacts ==
  ASSUME NEW X, NEW s \in Seq(X), s # <<>>
  PROVE  /\ Front(s) \in Seq(X) /\ Len(Front(s)) = Len(s) - 1 /\ Front(s) \o <<Last(s)>> = s
         /\ Last(s) \in X /\ Len(s) \in Nat /\ Len(s) > 0
<1>1. Front(s) \in Seq(X) /\ Len(Front(s)) = Len(s) - 1 /\ \A i \in 1..(Len(s) - 1) : Front(s)[i] = s[i]
  <2>1. Len(s) \in Nat /\ Len(s) > 0 /\ \A i \in 1..Len(s) : s[i] \in X
    OBVIOUS
  <2>2. ASSUME NEW n \in Nat, n <= Len(s)
        PROVE  /\ SubSeq(s, 1, n) \in Seq(X) /\ Len(SubSeq(s, 1, n)) = n
               /\ \A i \in 1..n : SubSeq(s, 1, n)[i] = s[i]
    <3>1. \A i \in 1..n : i \in 1..Len(s) /\ s[i] \in X
      BY <2>1, <2>2
    <3>2. Len(SubSeq(s, 1, n)) = n
      BY <2>1
    <3>3. \A i \in 1..n : SubSeq(s, 1, n)[i] = s[i]
      BY <2>1
    <3>4. SubSeq(s, 1, n) \in Seq(X)
      BY <2>1, <3>1
    <3>5. QED
      BY <3>2, <3>3, <3>4
  <2>3. Len(s) - 1 \in Nat /\ Len(s) - 1 <= Len(s) /\ Front(s) = SubSeq(s, 1, Len(s) - 1)
    BY <2>1 DEF Front
  <2>4. QED
    BY <2>2, <2>3
<1>2. Last(s) = s[Len(s)] /\ Len(s) \in Nat /\ Len(s) > 0 /\ Last(s) \in X
  BY DEF Last
<1>3. Front(s) \o <<Last(s)>> \in Seq(X) /\ Len(Front(s) \o <<Last(s)>>) = Len(s)
  BY <1>1, <1>2
<1>4. \A i \in 1..Len(s) : (Front(s) \o <<Last(s)>>)[i] = s[i]
  BY <1>1, <1>2
<1>5. QED
  BY <1>1, <1>2, <1>3, <1>4

\* A client that has enough fields, and no error, has its answer.
LEMMA ReceiveStep ==
  ASSUME IInv, NEW c \in Calls, Receive(c)
  PROVE  /\ call[c].at = "receiving" /\ Client(c).awaits # <<>> /\ Client(c).awaits \in Seq(Fields)
         /\ UNCHANGED <<service, daemonVars, up, history>>
         /\ shut' = [shut EXCEPT ![c] = shut[c] \cup {"client"}]
         /\ down' \in [Calls -> Seq(Fields)] /\ \A d \in Calls : d # c => down'[d] = down[d]
         /\ \/ /\ ~Refused(c) /\ down[c] = Client(c).awaits /\ performed[c] = 1 /\ down'[c] = <<>>
               /\ Moved(c, "done", call[c].sent, Client(c).awaits, "ok")
            \/ Refused(c) /\ \E got : Moved(c, "done", call[c].sent, got, "failed")
<1> DEFINE answer == Client(c).awaits
           n == IF Refused(c) THEN 1 ELSE Len(answer)
           w == down[c]
<1>1. TypeOK /\ CallInv(c) /\ service \in Daemons /\ call[c].at = "receiving"
  BY DEF IInv, TypeOK, Receive
<1>2. answer # <<>> /\ w \in {<<>>, Front(answer), answer, <<"error">>} /\ (w = answer => performed[c] = 1)
  BY <1>1 DEF CallInv, AnswerInv
<1>3. answer \in Seq(Fields)
  BY <1>1, AwaitsFacts DEF CallInv, ClientInv, Client
<1>4. /\ call' = [call EXCEPT ![c].at = "done", ![c].rv = IF Refused(c) THEN "failed" ELSE "ok",
                              ![c].got = SubSeq(w, 1, n)]
      /\ down' = [down EXCEPT ![c] = SubSeq(w, n + 1, Len(w))]
      /\ HasAnswer(c) \/ Refused(c)
      /\ UNCHANGED <<service, daemonVars, up, history>>
      /\ shut' = [shut EXCEPT ![c] = shut[c] \cup {"client"}]
  BY DEF Receive, Closed
<1>5. /\ down \in [Calls -> Seq(Fields)] /\ w \in Seq(Fields) /\ call \in [Calls -> CallRecs] /\ call[c] \in CallRecs
      /\ n \in Nat
  <2>1. down \in [Calls -> Seq(Fields)] /\ w \in Seq(Fields) /\ call \in [Calls -> CallRecs] /\ call[c] \in CallRecs
    BY <1>1, TypeFacts
  <2>2. n \in Nat
    <3> HIDE DEF answer
    <3>1. QED
      BY <1>3
  <2>3. QED
    BY <2>1, <2>2
<1>6. ~Refused(c) => w = answer
  <2> SUFFICES ASSUME ~Refused(c)
               PROVE  w = answer
    OBVIOUS
  <2>1. Len(w) >= Len(answer)
    BY <1>4 DEF HasAnswer
  <2>2. w # <<>> => Head(w) # "error"
    BY DEF Refused
  <2>3. Len(answer) \in Nat /\ Len(answer) > 0 /\ Len(Front(answer)) = Len(answer) - 1
    <3> HIDE DEF answer
    <3>1. QED
      BY <1>2, <1>3, FrontFacts
  <2>4. w # <<>> /\ w # Front(answer)
    <3> HIDE DEF answer, w
    <3>1. Len(<<>>) = 0
      OBVIOUS
    <3>2. QED
      BY <2>1, <2>3, <3>1
  <2>5. w # <<"error">>
    <3> HIDE DEF w
    <3>1. Head(<<"error">>) = "error" /\ <<"error">> # <<>>
      OBVIOUS
    <3>2. QED
      BY <2>2, <3>1
  <2> HIDE DEF w, answer
  <2>6. QED
    BY <1>2, <2>4, <2>5
<1>7. SubSeq(w, 1, n) \in Seq(Fields) /\ SubSeq(w, n + 1, Len(w)) \in Seq(Fields)
      /\ (w = answer /\ n = Len(answer) => SubSeq(w, 1, n) = answer /\ SubSeq(w, n + 1, Len(w)) = <<>>)
  <2> HIDE DEF w, n, answer
  <2>1. Refused(c) => Len(w) >= 1
    BY <1>5 DEF Refused, w
  <2>2. n <= Len(w) /\ Len(w) \in Nat
    BY <1>3, <1>4, <1>5, <2>1 DEF n, HasAnswer, w, answer
  <2>3. SubSeq(w, 1, n) \in Seq(Fields) /\ SubSeq(w, n + 1, Len(w)) \in Seq(Fields)
    BY <1>5, <2>2
  <2>4. SubSeq(answer, 1, Len(answer)) = answer /\ SubSeq(answer, Len(answer) + 1, Len(answer)) = <<>>
    BY <1>3
  <2>5. QED
    BY <2>3, <2>4
<1>8. /\ down' \in [Calls -> Seq(Fields)] /\ down'[c] = SubSeq(w, n + 1, Len(w))
      /\ \A d \in Calls : d # c => down'[d] = down[d]
  <2> HIDE DEF n, w
  <2>1. QED
    BY <1>4, <1>5, <1>7
<1>9. Moved(c, "done", call[c].sent, SubSeq(w, 1, n), IF Refused(c) THEN "failed" ELSE "ok")
  <2> DEFINE g == SubSeq(w, 1, n)
             rv == IF Refused(c) THEN "failed" ELSE "ok"
  <2>1. rv \in {"none", "ok", "failed"} /\ g \in Seq(Fields) /\ "done" \in CallAts
    BY <1>7 DEF CallAts
  <2>2. call' = [call EXCEPT ![c].at = "done", ![c].rv = rv, ![c].got = g]
    BY <1>4
  <2> HIDE DEF g, rv
  <2>3. call'[c] = [call[c] EXCEPT !.at = "done", !.rv = rv, !.got = g] /\ \A d \in Calls : d # c => call'[d] = call[d]
    BY <1>5, <2>2
  <2>4. call' \in [Calls -> CallRecs]
    BY <1>5, <2>1, <2>2, <2>3 DEF CallRecs
  <2>5. Moved(c, "done", call[c].sent, g, rv)
    BY <1>5, <2>3, <2>4 DEF Moved, Turn, CallRecs
  <2>6. QED
    BY <2>5 DEF g, rv
<1>10. CASE Refused(c)
  BY <1>1, <1>2, <1>3, <1>4, <1>8, <1>9, <1>10
<1>11. CASE ~Refused(c)
  <2>1. w = answer /\ n = Len(answer) /\ performed[c] = 1
    BY <1>2, <1>6, <1>11
  <2>2. SubSeq(w, 1, n) = answer /\ SubSeq(w, n + 1, Len(w)) = <<>>
    BY <1>7, <2>1
  <2>3. Moved(c, "done", call[c].sent, answer, "ok") /\ down'[c] = <<>>
    <3> HIDE DEF w, n, answer
    <3>1. QED
      BY <1>8, <1>9, <1>11, <2>2
  <2>4. QED
    BY <1>1, <1>2, <1>3, <1>4, <1>8, <1>11, <2>1, <2>3
<1>12. QED
  BY <1>10, <1>11

LEMMA ReceiveKeeps ==
  ASSUME IInv, NEW c \in Calls, Receive(c)
  PROVE  IInv'
<1>1. TypeOK /\ CallInv(c) /\ shut \in [Calls -> SUBSET {"client", "daemon"}] /\ up \in [Calls -> Seq(Fields)]
  BY TypeFacts DEF IInv
<1>2. /\ call[c].at = "receiving" /\ Client(c).awaits # <<>>
      /\ UNCHANGED <<service, daemonVars, up, history>>
      /\ shut' = [shut EXCEPT ![c] = shut[c] \cup {"client"}]
      /\ down' \in [Calls -> Seq(Fields)] /\ \A d \in Calls : d # c => down'[d] = down[d]
      /\ \E got, rv : Moved(c, "done", call[c].sent, got, rv)
      /\ call'[c].kind = call[c].kind /\ call'[c].short = call[c].short /\ call'[c].at = "done"
      /\ (call'[c].rv = "ok" /\ call'[c].got = Client(c).awaits /\ down'[c] = <<>>) \/ call'[c].rv = "failed"
  BY ReceiveStep DEF Moved, Turn
<1>3. UNCHANGED <<service, alive, backlog, listener, jobs, handler, queue, main, performed, applied, before>>
  BY <1>2 DEF daemonVars, history
<1>4. /\ shut' \in [Calls -> SUBSET {"client", "daemon"}] /\ shut'[c] = shut[c] \cup {"client"}
      /\ \A d \in Calls : d # c => shut'[d] = shut[d]
  BY <1>1, <1>2
<1>5. \E got, rv : ClientMoves(c, "done", call[c].sent, got, rv)
  BY <1>1, <1>2, <1>4 DEF ClientMoves
<1>6. RequestInv(c)' /\ UpdateInv(c)'
  BY <1>2, <1>4, StoppedKeeps
<1>7. ClientInv(c)'
  BY <1>1, <1>2, <1>3, <1>4 DEF CallInv, ClientInv, Ended, KindsOf
<1>8. EndInv(c)' /\ AnswerInv(c)'
  BY <1>2 DEF EndInv, AnswerInv
<1>9. ReturnInv(c)'
  BY <1>2, <1>3 DEF ReturnInv, Client
<1>10. QED
  BY <1>5, <1>6, <1>7, <1>8, <1>9, ClientKeeps

LEMMA ReceiveForEverKeeps ==
  ASSUME IInv, NEW c \in Calls, ReceiveForEver(c)
  PROVE  IInv'
<1>1. TypeOK /\ CallInv(c) /\ service \in Daemons /\ call \in [Calls -> CallRecs] /\ call[c] \in CallRecs
      /\ shut \in [Calls -> SUBSET {"client", "daemon"}] /\ up \in [Calls -> Seq(Fields)]
      /\ down \in [Calls -> Seq(Fields)]
  BY TypeFacts DEF IInv, TypeOK
<1>2. /\ call[c].at = "receiving" /\ "daemon" \in shut[c] /\ LastOfFile(c) /\ ~Refused(c)
      /\ call' = [call EXCEPT ![c].at = "spinning"] /\ UNCHANGED <<service, daemonVars, streams, history>>
  BY DEF ReceiveForEver
<1>3. UNCHANGED <<service, alive, backlog, listener, jobs, handler, queue, main, performed, applied, before,
                  up, down, shut>>
  BY <1>2 DEF daemonVars, streams, history
<1>4. Moved(c, "spinning", call[c].sent, call[c].got, call[c].rv)
  <2>1. call'[c] = [call[c] EXCEPT !.at = "spinning"] /\ \A d \in Calls : d # c => call'[d] = call[d]
    BY <1>1, <1>2
  <2>2. QED
    BY <1>1, <1>2, <2>1 DEF Moved, Turn, CallRecs, CallAts
<1>5. call'[c].kind = call[c].kind /\ call'[c].short = call[c].short /\ call'[c].at = "spinning"
      /\ call'[c].rv = call[c].rv
  BY <1>4 DEF Moved, Turn
<1>6. ~alive
  <2> SUFFICES ASSUME alive
               PROVE  FALSE
    OBVIOUS
  <2> DEFINE answer == Client(c).awaits
             w == down[c]
  <2>1. handler[c].at = "closed"
    BY <1>1, <1>2 DEF CallInv, EndInv
  <2>2. answer # <<>> /\ w \in {<<>>, answer, <<"error">>}
    BY <1>1, <1>2, <2>1 DEF CallInv, AnswerInv
  <2>3. Len(w) = Len(answer) - 1 /\ Len(answer) # 1
    <3>1. call[c].kind \in KindsOf(service) \cap {"retrieveSeq", "retrieveOpts"}
      BY <1>1, <1>2 DEF CallInv, ClientInv, LastOfFile
    <3>2. QED
      BY <1>1, <1>2, <3>1, FileFact DEF LastOfFile, Client
  <2>4. answer \in Seq(Fields)
    BY <1>1, <1>2, AwaitsFacts DEF CallInv, ClientInv, Client
  <2>5. w = <<>> \/ Head(w) # "error"
    BY <1>2 DEF Refused
  <2> HIDE DEF w, answer
  <2>6. Len(answer) \in Nat /\ Len(<<>>) = 0 /\ Head(<<"error">>) = "error" /\ <<"error">> # <<>>
    BY <2>4
  <2>7. QED
    BY <2>2, <2>3, <2>5, <2>6
<1>7. \E got, rv : ClientMoves(c, "spinning", call[c].sent, got, rv)
  <2>1. ClientMoves(c, "spinning", call[c].sent, call[c].got, call[c].rv)
    BY <1>1, <1>2, <1>3, <1>4 DEF ClientMoves
  <2>2. QED
    BY <2>1
<1>8. RequestInv(c)' /\ UpdateInv(c)'
  <2>1. up'[c] = up[c] /\ shut[c] \subseteq shut'[c]
    BY <1>3
  <2>2. QED
    BY <1>2, <1>5, <2>1, StoppedKeeps
<1>9. ClientInv(c)'
  BY <1>1, <1>2, <1>3, <1>5 DEF CallInv, ClientInv, Ended, KindsOf
<1>10. EndInv(c)' /\ AnswerInv(c)'
  BY <1>3, <1>5, <1>6 DEF EndInv, AnswerInv
<1>11. ReturnInv(c)'
  BY <1>1, <1>2, <1>5 DEF ReturnInv, CallInv, ClientInv
<1>12. QED
  BY <1>7, <1>8, <1>9, <1>10, <1>11, ClientKeeps

LEMMA LinedFacts ==
  ASSUME IInv
  PROVE  /\ Hand \subseteq Calls /\ Range(applied) \subseteq Calls /\ Range(queue) \subseteq Calls
         /\ Range(backlog) \subseteq Calls /\ Lined \subseteq Calls
<1>1. Hand \subseteq Calls
  BY DEF IInv, DaemonInv, Hand
<1>2. QED
  BY <1>1, TypeFacts, RangeFacts DEF Lined, IInv

\* A call begins at the end of the line, after all the calls that have returned.
LEMMA ConnectKeeps ==
  ASSUME IInv, NEW c \in Calls, NEW k \in KindsOf(service), NEW short \in BOOLEAN, Connect(c, k, short)
  PROVE  IInv'
<1> DEFINE at == IF alive THEN "sending" ELSE "done"
           rv == IF alive THEN "none" ELSE "failed"
           old == {d \in Calls : Returned(d)}
<1>1. TypeOK /\ CallInv(c) /\ service \in Daemons /\ call \in [Calls -> CallRecs] /\ call[c] \in CallRecs
      /\ LineInv /\ DaemonInv /\ backlog \in Seq(Calls) /\ applied \in Seq(Calls) /\ queue \in Seq(Calls)
      /\ before \in [Calls -> SUBSET Calls]
  BY TypeFacts DEF IInv, TypeOK
<1>2. /\ call[c].at = "idle"
      /\ call' = [call EXCEPT ![c].kind = k, ![c].short = short, ![c].at = at, ![c].rv = rv]
      /\ backlog' = IF alive THEN Append(backlog, c) ELSE backlog
      /\ before' = [before EXCEPT ![c] = old]
      /\ UNCHANGED <<service, alive, up, down, shut, listener, jobs, handler, queue, main, performed, applied>>
  BY DEF Connect, streams
<1>3. /\ call'[c].kind = k /\ call'[c].short = short /\ call'[c].at = at /\ call'[c].sent = 0
      /\ call'[c].got = <<>> /\ call'[c].rv = rv /\ \A d \in Calls : d # c => call'[d] = call[d]
      /\ call' \in [Calls -> CallRecs]
  <2>1. at \in CallAts /\ rv \in {"none", "ok", "failed"}
    BY DEF CallAts
  <2> HIDE DEF at, rv
  <2>2. call'[c] = [call[c] EXCEPT !.kind = k, !.short = short, !.at = at, !.rv = rv]
        /\ \A d \in Calls : d # c => call'[d] = call[d]
    BY <1>1, <1>2
  <2>3. call[c].sent = 0 /\ call[c].got = <<>>
    BY <1>1, <1>2 DEF CallInv, ClientInv
  <2>4. call' \in [Calls -> CallRecs]
    BY <1>1, <1>2, <2>1, <2>2 DEF CallRecs
  <2>5. QED
    BY <1>1, <2>2, <2>3, <2>4 DEF CallRecs
<1>4. c \notin Lined /\ \A d \in Calls : c \notin before[d]
  BY <1>1, <1>2 DEF LineInv
<1>5. backlog' \in Seq(Calls) /\ (alive => Range(backlog') = Range(backlog) \cup {c}) /\ (~alive => backlog' = backlog)
  BY <1>1, <1>2, RangeFacts
<1>6. before' \in [Calls -> SUBSET Calls] /\ before'[c] = old /\ \A d \in Calls : d # c => before'[d] = before[d]
  BY <1>1, <1>2
<1>7. TypeOK'
  BY <1>1, <1>2, <1>3, <1>5, <1>6, TypeFacts, TypeStep
<1>8. Hand' = Hand /\ Hand \subseteq Calls /\ Range(applied) \subseteq Calls /\ Range(queue) \subseteq Calls
      /\ Range(backlog) \subseteq Calls /\ Range(backlog') \subseteq Range(backlog) \cup {c}
  <2>1. Hand' = Hand
    BY <1>2 DEF Hand
  <2>2. QED
    BY <1>5, <2>1, LinedFacts
<1>9. LineInv'
  <2>1. /\ c \notin Range(applied) /\ c \notin Range(queue) /\ c \notin Hand /\ c \notin Range(backlog)
    BY <1>4 DEF Lined
  <2>2. \A s \in Seq(Calls) : Range(s) \subseteq Calls /\ c \notin Range(s) /\ InOrder(before, s) => InOrder(before', s)
    <3>1. \A s \in Seq(Calls) : \A i \in 1..Len(s) : s[i] \in Range(s)
      BY DEF Range
    <3>2. \A s \in Seq(Calls) : \A i \in 1..Len(s) : Range(s) \subseteq Calls /\ c \notin Range(s) => before'[s[i]] = before[s[i]]
      BY <1>6, <3>1
    <3>3. QED
      BY <3>2 DEF InOrder
  <2>3. InOrder(before', applied') /\ InOrder(before', queue') /\ InOrder(before', backlog)
    BY <1>1, <1>2, <1>8, <2>1, <2>2 DEF LineInv
  <2>4. Precede(before', Range(backlog), {c})
    BY <1>4, <1>6, <1>8, <2>1 DEF Precede
  <2>5. InOrder(before', backlog')
    BY <1>1, <1>2, <2>3, <2>4, InOrderFacts
  <2>6. \A A \in SUBSET Calls, B \in SUBSET Calls :
           c \notin A /\ Precede(before, A, B) => Precede(before', A, B \cup {c}) /\ Precede(before', A, B)
    BY <1>4, <1>6 DEF Precede
  <2>7. \A A, B, C : Precede(before', A, B) /\ C \subseteq B => Precede(before', A, C)
    BY DEF Precede
  <2>8. Precede(before', Range(applied), Range(queue) \cup Hand \cup Range(backlog'))
    <3>1. Precede(before', Range(applied), (Range(queue) \cup Hand \cup Range(backlog)) \cup {c})
      BY <1>1, <1>8, <2>1, <2>6 DEF LineInv
    <3>2. QED
      BY <1>8, <2>7, <3>1
  <2>9. Precede(before', Range(queue), Hand \cup Range(backlog'))
    <3>1. Precede(before', Range(queue), (Hand \cup Range(backlog)) \cup {c})
      BY <1>1, <1>8, <2>1, <2>6 DEF LineInv
    <3>2. QED
      BY <1>8, <2>7, <3>1
  <2>10. Precede(before', Hand, Range(backlog'))
    <3>1. Precede(before', Hand, Range(backlog) \cup {c})
      BY <1>1, <1>8, <2>1, <2>6 DEF LineInv
    <3>2. QED
      BY <1>8, <2>7, <3>1
  <2>11. at # "idle" /\ \A d \in Calls : call[d].at # "idle" => call'[d].at # "idle"
    BY <1>3
  <2>12. \A d \in Lined' : call'[d].at # "idle"
    <3>1. Lined' \subseteq Lined \cup {c} /\ Lined \subseteq Calls
      BY <1>2, <1>8 DEF Lined
    <3>2. QED
      BY <1>1, <1>3, <2>11, <3>1 DEF LineInv
  <2>13. \A e \in Calls : \A d \in before'[e] : call'[d].at # "idle"
    <3>1. \A d \in old : d \in Calls /\ call'[d].at # "idle"
      BY <1>3, <2>11 DEF Returned
    <3>2. QED
      BY <1>1, <1>6, <2>11, <3>1 DEF LineInv
  <2>14. QED
    BY <1>2, <1>8, <2>3, <2>5, <2>8, <2>9, <2>10, <2>12, <2>13 DEF LineInv
<1>10. JobsInv'
  BY <1>2 DEF IInv, JobsInv
<1>11. DaemonInv'
  BY <1>1, <1>2 DEF DaemonInv, Listening
<1>12. CallInv(c)'
  <2>1. ~InBody(c)' /\ (Waiting(c)' => alive) /\ (alive => InLine(c)')
    <3>1. c \notin Hand
      BY <1>4 DEF Lined
    <3>2. Waiting(c)' => alive
      BY <1>1, <1>2, <3>1 DEF Waiting, Hand, DaemonInv, Range
    <3>3. QED
      BY <1>2, <1>5, <3>1, <3>2 DEF InBody, InLine, Hand
  <2>2. alive => handler[c].at = "none" /\ handler[c].kind = NoKind
    BY <1>1, <1>2 DEF CallInv, HandlerInv
  <2>3. ~alive => handler[c].at = "closed"
    BY <1>1 DEF DaemonInv
  <2>4. up[c] = <<>> /\ down[c] = <<>> /\ shut[c] = {}
    BY <1>1, <1>2 DEF CallInv, ClientInv
  <2>5. HandlerInv(c)'
    BY <1>1, <1>2, <1>3, <2>1, <2>2, <2>3 DEF HandlerInv, CallInv, Served
  <2>6. PerformedInv(c)'
    BY <1>1, <1>2 DEF PerformedInv, CallInv
  <2>7. ClientInv(c)'
    BY <1>2, <1>3, <2>4 DEF ClientInv, Ended, KindsOf
  <2>8. RequestInv(c)'
    <3>1. Waiting(c)' => Unread(service, call'[c], <<>>, 0)
      BY <1>1, <1>3, <2>1, UnreadNone
    <3>2. QED
      BY <1>2, <2>1, <2>2, <2>3, <2>4, <3>1 DEF RequestInv
  <2>9. EndInv(c)' /\ AnswerInv(c)' /\ ReturnInv(c)'
    BY <1>2, <1>3, <2>4 DEF EndInv, AnswerInv, ReturnInv
  <2>10. UpdateInv(c)'
    BY <1>2, <1>3, <2>1, <2>2 DEF UpdateInv
  <2>11. QED
    BY <2>5, <2>6, <2>7, <2>8, <2>9, <2>10 DEF CallInv
<1>13. ASSUME NEW d \in Calls, d # c
       PROVE  CallInv(d)'
  <2>1. (Waiting(d)' => Waiting(d)) /\ (InBody(d)' => InBody(d)) /\ (InLine(d) => InLine(d)')
    BY <1>2, <1>5, <1>8, <1>13 DEF Waiting, InBody, InLine
  <2>2. Same(d)
    BY <1>2, <1>3, <1>13, <2>1 DEF Same
  <2>3. CallInv(d)
    BY DEF IInv
  <2>4. QED
    BY <2>2, <2>3, Untouched
<1>14. QED
  BY <1>7, <1>9, <1>10, <1>11, <1>12, <1>13 DEF IInv

-----------------------------------------------------------------------------
(* The listener's steps.                                                   *)

\* The daemon's side of a call.
HandlerTurn(c, at, kind, got, left) ==
  /\ handler'[c].at = at /\ handler'[c].kind = kind /\ handler'[c].got = got /\ handler'[c].left = left
  /\ \A d \in Calls : d # c => handler'[d] = handler[d]
  /\ handler' \in [Calls -> HandlerRecs]

LEMMA AddJobStep ==
  ASSUME handler \in [Calls -> HandlerRecs], NEW c \in Calls, NEW k \in Pooled(service), AddJob(c, k)
  PROVE  HandlerTurn(c, "queued", k, handler[c].got, handler[c].left)
<1>1. handler' = [handler EXCEPT ![c] = [handler[c] EXCEPT !.at = "queued", !.kind = k]]
  BY DEF AddJob
<1>2. /\ handler'[c] = [handler[c] EXCEPT !.at = "queued", !.kind = k] /\ handler[c] \in HandlerRecs
      /\ \A d \in Calls : d # c => handler'[d] = handler[d]
  BY <1>1
<1>3. handler' \in [Calls -> HandlerRecs]
  BY <1>1, <1>2 DEF HandlerRecs, HandlerAts
<1>4. QED
  BY <1>2, <1>3 DEF HandlerTurn, HandlerRecs

LEMMA SetStep ==
  ASSUME handler \in [Calls -> HandlerRecs], NEW c \in Calls, NEW at \in HandlerAts, NEW got \in Seq(Fields),
         NEW left \in Seq(Fields), Set(c, at, got, left)
  PROVE  HandlerTurn(c, at, handler[c].kind, got, left)
<1>1. handler' = [handler EXCEPT ![c] = [handler[c] EXCEPT !.at = at, !.got = got, !.left = left]]
  BY DEF Set
<1>2. /\ handler'[c] = [handler[c] EXCEPT !.at = at, !.got = got, !.left = left] /\ handler[c] \in HandlerRecs
      /\ \A d \in Calls : d # c => handler'[d] = handler[d]
  BY <1>1
<1>3. handler' \in [Calls -> HandlerRecs]
  BY <1>1, <1>2 DEF HandlerRecs
<1>4. QED
  BY <1>2, <1>3 DEF HandlerTurn, HandlerRecs

\* The line is no longer than it was, in the same order.
LEMMA LineKept ==
  ASSUME LineInv, UNCHANGED <<call, before>>,
         InOrder(before, applied'), InOrder(before, queue'), InOrder(before, backlog'),
         Precede(before, Range(applied'), Range(queue') \cup Hand' \cup Range(backlog')),
         Precede(before, Range(queue'), Hand' \cup Range(backlog')),
         Precede(before, Hand', Range(backlog')),
         Range(applied') \cup Range(queue') \cup Hand' \cup Range(backlog') \subseteq Lined
  PROVE  LineInv'
BY DEF LineInv, Lined

\* The listener lets go of its connection, or not.
LEMMA LineLeft ==
  ASSUME LineInv, UNCHANGED <<call, before, applied, queue, backlog>>, Hand' \subseteq Hand
  PROVE  LineInv'
<1>1. /\ InOrder(before, applied') /\ InOrder(before, queue') /\ InOrder(before, backlog')
  BY DEF LineInv
<1>2. /\ Precede(before, Range(applied'), Range(queue') \cup Hand' \cup Range(backlog'))
      /\ Precede(before, Range(queue'), Hand' \cup Range(backlog'))
      /\ Precede(before, Hand', Range(backlog'))
  BY DEF LineInv, Precede
<1>3. Range(applied') \cup Range(queue') \cup Hand' \cup Range(backlog') \subseteq Lined
  BY DEF Lined
<1>4. QED
  BY <1>1, <1>2, <1>3, LineKept

LEMMA AcceptKeeps ==
  ASSUME IInv, Accept
  PROVE  IInv'
<1> DEFINE c == Head(backlog)
<1>1. TypeOK /\ LineInv /\ JobsInv /\ DaemonInv /\ backlog \in Seq(Calls)
  BY TypeFacts DEF IInv
<1>2. /\ listener.at = "accept" /\ backlog # <<>>
      /\ listener' = [at |-> "header", conn |-> c, kind |-> NoKind] /\ backlog' = Tail(backlog)
      /\ UNCHANGED <<service, alive, call, up, down, shut, jobs, handler, queue, main, performed, applied, before>>
  BY DEF Accept, streams, history
<1>3. c \in Calls /\ backlog' \in Seq(Calls) /\ Range(backlog) = Range(backlog') \cup {c}
  BY <1>1, <1>2, RangeFacts
<1>4. InOrder(before, backlog') /\ Precede(before, {c}, Range(backlog'))
  BY <1>1, <1>2, InOrderFacts DEF LineInv
<1> HIDE DEF c
<1>5. listener' \in ListenerRecs
  BY <1>2, <1>3 DEF ListenerRecs
<1>6. TypeOK'
  BY <1>1, <1>2, <1>3, <1>5, TypeFacts, TypeStep
<1>7. Hand = {} /\ Hand' = {c}
  BY <1>2 DEF Hand
<1>8. LineInv'
  <2>1. InOrder(before, applied') /\ InOrder(before, queue')
    BY <1>1, <1>2 DEF LineInv
  <2>2. Precede(before, Range(applied'), Range(queue') \cup Hand' \cup Range(backlog'))
        /\ Precede(before, Range(queue'), Hand' \cup Range(backlog'))
    <3>1. Range(queue') \cup Hand' \cup Range(backlog') = Range(queue) \cup Hand \cup Range(backlog)
          /\ Hand' \cup Range(backlog') = Hand \cup Range(backlog)
      BY <1>2, <1>3, <1>7
    <3>2. QED
      BY <1>1, <1>2, <3>1 DEF LineInv
  <2>3. Range(applied') \cup Range(queue') \cup Hand' \cup Range(backlog') \subseteq Lined
    BY <1>2, <1>3, <1>7 DEF Lined
  <2>4. QED
    BY <1>1, <1>2, <1>4, <1>7, <2>1, <2>2, <2>3, LineKept
<1>9. JobsInv'
  BY <1>1, <1>2 DEF JobsInv
<1>10. DaemonInv'
  BY <1>1, <1>2, <1>3 DEF DaemonInv
<1>11. ASSUME NEW d \in Calls
       PROVE  CallInv(d)'
  <2>1. (Waiting(d)' => Waiting(d)) /\ ~InBody(d)' /\ (InLine(d) => InLine(d)')
    BY <1>2, <1>3, <1>7 DEF Waiting, InBody, InLine
  <2>2. Same(d)
    BY <1>2, <2>1 DEF Same
  <2>3. CallInv(d)
    BY DEF IInv
  <2>4. QED
    BY <2>2, <2>3, Untouched
<1>12. QED
  BY <1>6, <1>8, <1>9, <1>10, <1>11 DEF IInv

LEMMA JobAdded ==
  ASSUME IInv, NEW c \in Calls, listener.conn = c, listener.at = "header", NEW k \in Pooled(service), AddJob(c, k),
         UNCHANGED <<service, alive, call, down, shut, backlog, queue, main, history>>,
         up' \in [Calls -> Seq(Fields)], \A d \in Calls : d # c => up'[d] = up[d],
         \/ k = call[c].kind /\ Unread(service, call[c], up'[c], Len(Header[service]))
         \/ "client" \in shut[c] /\ up'[c] = <<>>,
         call[c].at \in {"sending", "done"} => Client(c).awaits # <<>>
  PROVE  IInv'
<1>1. TypeOK /\ LineInv /\ JobsInv /\ DaemonInv /\ CallInv(c) /\ service \in Daemons /\ handler \in [Calls -> HandlerRecs]
      /\ jobs \in Seq(Calls)
  BY TypeFacts DEF IInv, TypeOK
<1>2. /\ jobs' = Append(jobs, c)
      /\ listener' = IF k = "publishSeq" THEN [at |-> "enqueue", conn |-> c, kind |-> k] ELSE Listening
      /\ UNCHANGED <<performed, applied, before>>
  BY DEF AddJob, history
<1>3. /\ handler'[c].at = "queued" /\ handler'[c].kind = k /\ \A d \in Calls : d # c => handler'[d] = handler[d]
      /\ handler' \in [Calls -> HandlerRecs]
  BY <1>1, AddJobStep DEF HandlerTurn
<1>4. alive /\ Waiting(c) /\ handler[c].at = "none" /\ Hand = {c}
  <2>1. Waiting(c) /\ Hand = {c}
    BY DEF Waiting, Hand
  <2>2. alive
    BY <1>1 DEF DaemonInv, Listening
  <2>3. QED
    BY <1>1, <2>1, <2>2 DEF CallInv, HandlerInv
<1>5. k # NoKind /\ k \in KindsOf(service)
  BY <1>1, KindsAgree, KindsAssumption DEF AllKinds
<1>6. c \notin Range(backlog)
  BY <1>1, <1>4 DEF LineInv, Precede
<1>7. listener' \in ListenerRecs /\ listener'.at \in {"accept", "enqueue"} /\ (listener'.at # "accept" => listener'.conn = c)
  BY <1>2, <1>5 DEF ListenerRecs, Listening
<1>8. TypeOK'
  <2>1. jobs' \in Seq(Calls)
    BY <1>1, <1>2
  <2>2. QED
    BY <1>1, <1>2, <1>3, <1>7, <2>1, TypeFacts, TypeStep
<1>9. Hand' \subseteq Hand
  BY <1>4, <1>7 DEF Hand
<1>10. LineInv'
  BY <1>1, <1>2, <1>9, LineLeft
<1>11. JobsInv'
  <2>1. Len(jobs') = Len(jobs) + 1 /\ Len(jobs) \in Nat
        /\ \A i \in 1..(Len(jobs) + 1) : jobs'[i] = IF i = Len(jobs) + 1 THEN c ELSE jobs[i]
    BY <1>1, <1>2
  <2>2. \A i \in 1..Len(jobs) : jobs[i] \in Calls /\ jobs[i] # c
    BY <1>1, <1>4 DEF JobsInv
  <2> DEFINE n == Len(jobs)
  <2> HIDE DEF n
  <2>3. \A i \in 1..(n + 1) : handler'[jobs'[i]].at = "queued"
    <3>1. n \in Nat /\ (\A i \in 1..n : handler[jobs[i]].at = "queued")
      BY <1>1, <2>1 DEF JobsInv, n
    <3>2. \A i \in 1..n : jobs[i] \in Calls /\ jobs[i] # c
      BY <2>2 DEF n
    <3>3. \A i \in 1..(n + 1) : jobs'[i] = IF i = n + 1 THEN c ELSE jobs[i]
      BY <2>1 DEF n
    <3>4. \A i \in 1..(n + 1) : i = n + 1 \/ i \in 1..n
      BY <3>1
    <3>5. QED
      BY <1>3, <3>1, <3>2, <3>3, <3>4
  <2>4. \A i, j \in 1..(n + 1) : i # j => jobs'[i] # jobs'[j]
    <3>1. n \in Nat /\ \A i, j \in 1..n : i # j => jobs[i] # jobs[j]
      BY <1>1, <2>1 DEF JobsInv, n
    <3>2. \A i \in 1..n : jobs[i] \in Calls /\ jobs[i] # c
      BY <2>2 DEF n
    <3>3. \A i \in 1..(n + 1) : jobs'[i] = IF i = n + 1 THEN c ELSE jobs[i]
      BY <2>1 DEF n
    <3>4. \A i \in 1..(n + 1) : i = n + 1 \/ i \in 1..n
      BY <3>1
    <3>5. QED
      BY <3>1, <3>2, <3>3, <3>4
  <2>5. QED
    BY <2>1, <2>3, <2>4 DEF JobsInv, n
<1>12. DaemonInv'
  BY <1>4, <1>7 DEF DaemonInv
<1>13. CallInv(c)'
  <2>1. ~Waiting(c)' /\ ~InBody(c)'
    BY <1>6, <1>7 DEF Waiting, InBody
  <2>2. HandlerInv(c)'
    <3>1. call[c].at # "idle"
      BY <1>1, <1>4 DEF LineInv, Lined
    <3>2. QED
      BY <1>3, <1>5, <2>1, <3>1 DEF HandlerInv, Served
  <2>3. PerformedInv(c)'
    <3>1. performed[c] = 0 /\ c \notin Range(applied)
      BY <1>1, <1>4 DEF LineInv, Precede, CallInv, PerformedInv
    <3>2. QED
      BY <1>2, <3>1 DEF PerformedInv
  <2>4. ClientInv(c)'
    <3>1. call[c].at # "idle"
      BY <1>1, <1>4 DEF LineInv, Lined
    <3>2. QED
      BY <1>1, <3>1 DEF CallInv, ClientInv, KindsOf, NumSends
  <2>5. RequestInv(c)'
    BY <1>3, <2>1 DEF RequestInv, Nothing
  <2>6. EndInv(c)'
    BY <1>1, <1>4 DEF CallInv, EndInv
  <2>7. AnswerInv(c)'
    BY <1>1, <1>2, <1>3, <1>4 DEF CallInv, AnswerInv, Client
  <2>8. ReturnInv(c)'
    BY <1>1 DEF CallInv, ReturnInv, Client
  <2>9. UpdateInv(c)'
    BY DEF UpdateInv, Client
  <2>10. QED
    BY <2>2, <2>3, <2>4, <2>5, <2>6, <2>7, <2>8, <2>9 DEF CallInv
<1>14. ASSUME NEW d \in Calls, d # c
       PROVE  CallInv(d)'
  <2>1. (Waiting(d)' => Waiting(d)) /\ ~InBody(d)' /\ (InLine(d) => InLine(d)')
    BY <1>4, <1>7, <1>14 DEF Waiting, InBody, InLine
  <2>2. Same(d)
    BY <1>2, <1>3, <1>14, <2>1 DEF Same
  <2>3. CallInv(d)
    BY DEF IInv
  <2>4. QED
    BY <2>2, <2>3, Untouched
<1>15. QED
  BY <1>8, <1>10, <1>11, <1>12, <1>13, <1>14 DEF IInv

LEMMA ListenerTurns ==
  ASSUME IInv, NEW c \in Calls, listener.conn = c, listener.at \in {"header", "body"},
         listener' \in ListenerRecs, listener'.at \in {"accept", "body", "enqueue"},
         listener'.at # "accept" => listener'.conn = c,
         UNCHANGED <<service, alive, call, down, backlog, jobs, handler, queue, main, history>>,
         up' \in [Calls -> Seq(Fields)], shut' \in [Calls -> SUBSET {"client", "daemon"}],
         \A d \in Calls : d # c => up'[d] = up[d] /\ shut'[d] = shut[d],
         "client" \in shut[c] <=> "client" \in shut'[c],
         listener'.at = "body" => /\ listener'.kind = call[c].kind /\ call[c].kind \notin Pooled(service)
                                  /\ Unread(service, call[c], up'[c], Len(Header[service])),
         "daemon" \in shut'[c] => "daemon" \in shut[c] \/ call[c].at \notin {"sending", "receiving"},
         listener'.at = "accept" =>
            call[c].at \notin {"sending", "done"} \/ call[c].kind = "hops" \/ Client(c).awaits # <<>>
  PROVE  IInv'
<1>1. TypeOK /\ LineInv /\ JobsInv /\ DaemonInv /\ CallInv(c) /\ service \in Daemons
  BY DEF IInv, TypeOK
<1>2. UNCHANGED <<performed, applied, before>>
  BY DEF history
<1>3. alive /\ Hand = {c} /\ handler[c].at = "none" /\ (Hand' = {c} \/ (Hand' = {} /\ listener'.at = "accept"))
  <2>1. Hand = {c} /\ (Waiting(c) \/ InBody(c))
    BY DEF Waiting, InBody, Hand
  <2>2. alive
    BY <1>1 DEF DaemonInv, Listening
  <2>3. Hand' = {c} \/ (Hand' = {} /\ listener'.at = "accept")
    BY DEF Hand
  <2>4. QED
    BY <1>1, <2>1, <2>2, <2>3 DEF CallInv, HandlerInv
<1>4. c \notin Range(backlog) /\ call[c].at # "idle"
  BY <1>1, <1>3 DEF LineInv, Precede, Lined
<1>5. TypeOK'
  BY <1>1, <1>2, TypeFacts, TypeStep
<1>6. LineInv'
  BY <1>1, <1>2, <1>3, LineLeft
<1>7. JobsInv'
  BY <1>1 DEF JobsInv
<1>8. DaemonInv'
  BY <1>1, <1>3 DEF DaemonInv
<1>9. CallInv(c)'
  <2>1. ~Waiting(c)'
    BY <1>4 DEF Waiting
  <2>2. HandlerInv(c)'
    BY <1>1, <1>3, <1>4, <2>1 DEF CallInv, HandlerInv, Served
  <2>3. PerformedInv(c)'
    BY <1>1, <1>2 DEF CallInv, PerformedInv
  <2>4. ClientInv(c)'
    BY <1>1, <1>4 DEF CallInv, ClientInv, KindsOf, NumSends
  <2>5. RequestInv(c)'
    BY <1>3, <2>1 DEF RequestInv, InBody, Pooled
  <2>6. EndInv(c)'
    BY <1>1 DEF CallInv, EndInv
  <2>7. AnswerInv(c)' /\ ReturnInv(c)'
    BY <1>1, <1>2 DEF CallInv, AnswerInv, ReturnInv, Client
  <2>8. UpdateInv(c)'
    BY <1>1, <1>2, <1>3 DEF CallInv, UpdateInv, Client, InLine
  <2>9. QED
    BY <2>2, <2>3, <2>4, <2>5, <2>6, <2>7, <2>8 DEF CallInv
<1>10. ASSUME NEW d \in Calls, d # c
       PROVE  CallInv(d)'
  <2>1. (Waiting(d)' => Waiting(d)) /\ ~InBody(d)' /\ (InLine(d) => InLine(d)')
    BY <1>3, <1>10 DEF Waiting, InBody, InLine
  <2>2. Same(d)
    BY <1>2, <1>10, <2>1 DEF Same
  <2>3. CallInv(d)
    BY DEF IInv
  <2>4. QED
    BY <2>2, <2>3, Untouched
<1>11. QED
  BY <1>5, <1>6, <1>7, <1>8, <1>9, <1>10 DEF IInv

\* What is true of the call in the listener's hands.
LEMMA InHandFacts ==
  ASSUME IInv, listener.at \in {"header", "body"}
  PROVE  LET c == listener.conn IN
         /\ c \in Calls /\ CallInv(c) /\ service \in Daemons /\ Sender(service, call[c])
         /\ up \in [Calls -> Seq(Fields)] /\ shut \in [Calls -> SUBSET {"client", "daemon"}] /\ listener \in ListenerRecs
         /\ listener.at = "header" => Unread(service, call[c], up[c], 0)
         /\ listener.at = "body" => /\ listener.kind = call[c].kind /\ call[c].kind \notin Pooled(service)
                                    /\ Unread(service, call[c], up[c], Len(Header[service]))
<1> DEFINE c == listener.conn
<1>1. c \in Calls /\ LineInv
  BY DEF IInv, DaemonInv
<1>2. CallInv(c) /\ service \in Daemons /\ up \in [Calls -> Seq(Fields)]
      /\ shut \in [Calls -> SUBSET {"client", "daemon"}] /\ listener \in ListenerRecs
  BY <1>1, TypeFacts DEF IInv, TypeOK
<1>3. call[c].at # "idle"
  BY <1>1 DEF LineInv, Lined, Hand
<1>4. Sender(service, call[c])
  BY <1>2, <1>3 DEF CallInv, ClientInv, Sender
<1>5. (listener.at = "header" => Waiting(c)) /\ (listener.at = "body" => InBody(c))
  BY DEF Waiting, InBody
<1>6. QED
  BY <1>1, <1>2, <1>4, <1>5 DEF CallInv, RequestInv

LEMMA ListeningFacts == Listening \in ListenerRecs /\ Listening.at = "accept"
BY DEF Listening, ListenerRecs

LEMMA ReadHeaderKeeps ==
  ASSUME IInv, ReadHeader
  PROVE  IInv'
<1> DEFINE c == listener.conn
           h == Len(Header[service])
           rest == SubSeq(up[c], h + 1, Len(up[c]))
<1>1. /\ listener.at = "header" /\ Len(up[c]) >= h /\ up' = [up EXCEPT ![c] = rest]
      /\ UNCHANGED <<service, alive, call, down, shut, backlog, queue, main, history>>
      /\ IF call[c].kind \in Pooled(service) THEN AddJob(c, call[c].kind)
         ELSE listener' = [at |-> "body", conn |-> c, kind |-> call[c].kind] /\ UNCHANGED <<jobs, handler>>
  BY DEF ReadHeader
<1>2. /\ c \in Calls /\ CallInv(c) /\ service \in Daemons /\ Sender(service, call[c])
      /\ up \in [Calls -> Seq(Fields)] /\ shut \in [Calls -> SUBSET {"client", "daemon"}]
      /\ Unread(service, call[c], up[c], 0)
  BY <1>1, InHandFacts
<1>3. Unread(service, call[c], rest, h)
  BY <1>1, <1>2, UnreadHeader
<1>4. rest \in Seq(Fields)
  <2>1. h \in Nat
    BY <1>2, HeaderFacts, FilledFacts
  <2>2. \E n \in 0..NumSends(service, call[c].kind) : rest \in Seq(Fields)
    <3> HIDE DEF rest
    <3>1. QED
      BY <1>2, <1>3, <2>1, UnreadFacts
  <2>3. QED
    BY <2>2
<1> HIDE DEF rest
<1>5. up' \in [Calls -> Seq(Fields)] /\ up'[c] = rest /\ \A d \in Calls : d # c => up'[d] = up[d]
  BY <1>1, <1>2, <1>4
<1>6. CASE call[c].kind \in Pooled(service)
  <2>1. Client(c).awaits # <<>>
    BY <1>2, <1>6, AskFacts DEF Client
  <2>2. QED
    BY <1>1, <1>2, <1>3, <1>5, <1>6, <2>1, JobAdded
<1>7. CASE call[c].kind \notin Pooled(service)
  <2>1. listener' = [at |-> "body", conn |-> c, kind |-> call[c].kind] /\ UNCHANGED <<jobs, handler>>
    BY <1>1, <1>7
  <2>2. listener' \in ListenerRecs /\ listener'.at = "body" /\ listener'.conn = c /\ listener'.kind = call[c].kind
    BY <1>2, <2>1 DEF ListenerRecs, Sender
  <2>3. UNCHANGED <<service, alive, call, down, backlog, jobs, handler, queue, main, history>>
    BY <1>1, <2>1
  <2>4. QED
    BY <1>1, <1>2, <1>3, <1>5, <1>7, <2>2, <2>3, ListenerTurns
<1>8. QED
  BY <1>6, <1>7

LEMMA HeaderEndKeeps ==
  ASSUME IInv, HeaderEnd
  PROVE  IInv'
<1> DEFINE c == listener.conn
<1>1. /\ listener.at = "header" /\ up[c] = <<>> /\ "client" \in shut[c]
      /\ UNCHANGED <<service, alive, call, up, down, shut, backlog, queue, main, history>>
      /\ \/ listener' = Listening /\ UNCHANGED <<jobs, handler>>
         \/ \E k \in Pooled(service) : AddJob(c, k)
  BY DEF HeaderEnd, streams
<1>2. /\ c \in Calls /\ CallInv(c) /\ service \in Daemons /\ Sender(service, call[c])
      /\ up \in [Calls -> Seq(Fields)] /\ shut \in [Calls -> SUBSET {"client", "daemon"}]
      /\ Unread(service, call[c], up[c], 0)
  BY <1>1, InHandFacts
<1>3. call[c].at \notin {"sending", "receiving", "done"}
  <2>1. call[c].at # "done"
    BY <1>1, <1>2, UnreadNothing
  <2>2. QED
    BY <1>1, <1>2, <2>1 DEF CallInv, ClientInv, Ended
<1>4. CASE listener' = Listening /\ UNCHANGED <<jobs, handler>>
  <2>1. UNCHANGED <<service, alive, call, down, backlog, jobs, handler, queue, main, history>>
    BY <1>1, <1>4
  <2>2. listener' \in ListenerRecs /\ listener'.at = "accept"
    BY <1>4, ListeningFacts
  <2>3. QED
    BY <1>1, <1>2, <1>3, <2>1, <2>2, ListenerTurns
<1>5. ASSUME NEW k \in Pooled(service), AddJob(c, k)
      PROVE  IInv'
  BY <1>1, <1>2, <1>3, <1>5, JobAdded
<1>6. QED
  BY <1>1, <1>4, <1>5

LEMMA ReadBodyKeeps ==
  ASSUME IInv, ReadBody
  PROVE  IInv'
<1> DEFINE c == listener.conn
<1>1. /\ listener.at = "body" /\ up[c] # <<>> /\ up' = [up EXCEPT ![c] = <<>>]
      /\ UNCHANGED <<service, alive, call, down, backlog, jobs, handler, queue, main, history>>
      /\ IF up[c] = Body(service, listener.kind)
         THEN listener' = [listener EXCEPT !.at = "enqueue"] /\ Closed(c, "daemon")
         ELSE listener' = Listening /\ UNCHANGED shut
  BY DEF ReadBody
<1>2. /\ c \in Calls /\ CallInv(c) /\ service \in Daemons /\ Sender(service, call[c])
      /\ up \in [Calls -> Seq(Fields)] /\ shut \in [Calls -> SUBSET {"client", "daemon"}] /\ listener \in ListenerRecs
      /\ listener.kind = call[c].kind /\ call[c].kind \notin Pooled(service)
      /\ Unread(service, call[c], up[c], Len(Header[service]))
  BY <1>1, InHandFacts
<1>3. <<>> \in Seq(Fields)
  OBVIOUS
<1>4. up' \in [Calls -> Seq(Fields)] /\ \A d \in Calls : d # c => up'[d] = up[d]
  BY <1>1, <1>2, <1>3
<1>5. /\ up[c] = Body(service, call[c].kind) => call[c].at # "sending"
      /\ call[c].kind # "hops" => up[c] = Body(service, call[c].kind)
  <2> DEFINE d == service
             r == call[c]
             u == up[c]
  <2>1. d \in Daemons /\ Sender(d, r) /\ r.kind \notin Pooled(d) /\ Unread(d, r, u, Len(Header[d])) /\ u # <<>>
    BY <1>1, <1>2
  <2> HIDE DEF d, r, u
  <2>2. (u = Body(d, r.kind) => r.at # "sending") /\ (u # <<>> /\ r.kind # "hops" => u = Body(d, r.kind))
    BY <2>1, UnreadBody
  <2>3. QED
    BY <2>1, <2>2 DEF d, r, u
<1>6. CASE up[c] = Body(service, listener.kind)
  <2>1. listener' = [listener EXCEPT !.at = "enqueue"] /\ shut' = [shut EXCEPT ![c] = shut[c] \cup {"daemon"}]
    BY <1>1, <1>6 DEF Closed
  <2>2. listener' \in ListenerRecs /\ listener'.at = "enqueue" /\ listener'.conn = c
    BY <1>2, <2>1 DEF ListenerRecs
  <2>3. /\ shut' \in [Calls -> SUBSET {"client", "daemon"}] /\ shut'[c] = shut[c] \cup {"daemon"}
        /\ \A d \in Calls : d # c => shut'[d] = shut[d]
    BY <1>2, <2>1
  <2>4. call[c].at \notin {"sending", "receiving"}
    <3>1. Client(c).awaits = <<>>
      BY <1>2, AwaitsFacts DEF Client, Sender
    <3>2. QED
      BY <1>2, <1>5, <1>6, <3>1 DEF CallInv, AnswerInv
  <2>5. QED
    BY <1>1, <1>2, <1>4, <2>2, <2>3, <2>4, ListenerTurns
<1>7. CASE up[c] # Body(service, listener.kind)
  <2>1. listener' = Listening /\ shut' = shut
    BY <1>1, <1>7
  <2>2. listener' \in ListenerRecs /\ listener'.at = "accept"
    BY <2>1, ListeningFacts
  <2>3. call[c].kind = "hops"
    BY <1>2, <1>5, <1>7
  <2>4. QED
    BY <1>1, <1>2, <1>4, <2>1, <2>2, <2>3, ListenerTurns
<1>8. QED
  BY <1>6, <1>7

LEMMA BodyEndKeeps ==
  ASSUME IInv, BodyEnd
  PROVE  IInv'
<1> DEFINE c == listener.conn
<1>1. /\ listener.at = "body" /\ up[c] = <<>> /\ "client" \in shut[c] /\ listener' = Listening
      /\ UNCHANGED <<service, alive, call, up, down, shut, backlog, jobs, handler, queue, main, history>>
  BY DEF BodyEnd, streams
<1>2. /\ c \in Calls /\ CallInv(c) /\ service \in Daemons /\ Sender(service, call[c])
      /\ up \in [Calls -> Seq(Fields)] /\ shut \in [Calls -> SUBSET {"client", "daemon"}]
      /\ call[c].kind \notin Pooled(service) /\ Unread(service, call[c], up[c], Len(Header[service]))
  BY <1>1, InHandFacts
<1>3. call[c].at \notin {"sending", "done"}
  <2>1. call[c].at # "done"
    <3> DEFINE d == service
               r == call[c]
               u == up[c]
    <3>1. d \in Daemons /\ Sender(d, r) /\ r.kind \notin Pooled(d) /\ Unread(d, r, u, Len(Header[d])) /\ u = <<>>
      BY <1>1, <1>2
    <3> HIDE DEF d, r, u
    <3>2. u = <<>> => r.at \notin {"receiving", "spinning", "done"}
      BY <3>1, UnreadBody
    <3>3. QED
      BY <3>1, <3>2 DEF r
  <2>2. QED
    BY <1>1, <1>2, <2>1 DEF CallInv, ClientInv, Ended
<1>4. listener' \in ListenerRecs /\ listener'.at = "accept"
  BY <1>1, ListeningFacts
<1>5. QED
  BY <1>1, <1>2, <1>3, <1>4, ListenerTurns

LEMMA EnqueueKeeps ==
  ASSUME IInv, Enqueue
  PROVE  IInv'
<1> DEFINE c == listener.conn
<1>1. TypeOK /\ LineInv /\ JobsInv /\ DaemonInv /\ queue \in Seq(Calls) /\ listener \in ListenerRecs
  BY TypeFacts DEF IInv
<1>2. /\ listener.at = "enqueue" /\ queue' = Append(queue, c) /\ listener' = [listener EXCEPT !.at = "signal"]
      /\ UNCHANGED <<service, alive, call, up, down, shut, backlog, jobs, handler, main, performed, applied, before>>
  BY DEF Enqueue, streams, history
<1>3. c \in Calls /\ Hand = {c}
  BY <1>1, <1>2 DEF DaemonInv, Hand
<1>4. queue' \in Seq(Calls) /\ Range(queue') = Range(queue) \cup {c}
  BY <1>1, <1>2, <1>3, RangeFacts
<1>5. listener' \in ListenerRecs /\ listener'.at = "signal" /\ listener'.conn = c
  BY <1>1, <1>2 DEF ListenerRecs
<1>6. Hand' = {}
  BY <1>5 DEF Hand
<1>7. TypeOK'
  BY <1>1, <1>2, <1>4, <1>5, TypeFacts, TypeStep
<1>8. LineInv'
  <2>1. InOrder(before, queue')
    <3>1. Precede(before, Range(queue), {c}) /\ InOrder(before, queue)
      BY <1>1, <1>3 DEF LineInv, Precede
    <3>2. QED
      BY <1>1, <1>2, <1>3, <3>1, InOrderFacts
  <2>2. Precede(before, Range(applied'), Range(queue') \cup Hand' \cup Range(backlog'))
    <3>1. Range(queue') \cup Hand' \cup Range(backlog') = Range(queue) \cup Hand \cup Range(backlog)
      BY <1>2, <1>3, <1>4, <1>6
    <3>2. QED
      BY <1>1, <1>2, <3>1 DEF LineInv
  <2>3. Precede(before, Range(queue'), Hand' \cup Range(backlog')) /\ Precede(before, Hand', Range(backlog'))
    BY <1>1, <1>2, <1>3, <1>4, <1>6 DEF LineInv, Precede
  <2>4. InOrder(before, applied') /\ InOrder(before, backlog')
    BY <1>1, <1>2 DEF LineInv
  <2>5. Range(applied') \cup Range(queue') \cup Hand' \cup Range(backlog') \subseteq Lined
    BY <1>2, <1>3, <1>4, <1>6 DEF Lined
  <2>6. QED
    BY <1>1, <1>2, <2>1, <2>2, <2>3, <2>4, <2>5, LineKept
<1>9. JobsInv'
  BY <1>1, <1>2 DEF JobsInv
<1>10. DaemonInv'
  BY <1>1, <1>2, <1>3, <1>5 DEF DaemonInv, Listening
<1>11. ASSUME NEW d \in Calls
       PROVE  CallInv(d)'
  <2>1. (Waiting(d)' => Waiting(d)) /\ ~InBody(d)' /\ (InLine(d) => InLine(d)')
    BY <1>2, <1>3, <1>4, <1>5, <1>6 DEF Waiting, InBody, InLine
  <2>2. Same(d)
    BY <1>2, <2>1 DEF Same
  <2>3. CallInv(d)
    BY DEF IInv
  <2>4. QED
    BY <2>2, <2>3, Untouched
<1>12. QED
  BY <1>7, <1>8, <1>9, <1>10, <1>11 DEF IInv

\* Steps that only concern when main looks at its queue.
LEMMA MainTurns ==
  ASSUME IInv, listener' = listener \/ (listener.at = "signal" /\ listener' = Listening),
         main' \in {"starting", "waiting", "awake"},
         UNCHANGED <<service, alive, call, streams, backlog, jobs, handler, queue, history>>
  PROVE  IInv'
<1>1. TypeOK /\ LineInv /\ JobsInv /\ DaemonInv /\ listener \in ListenerRecs
  BY TypeFacts DEF IInv
<1>2. UNCHANGED <<up, down, shut, performed, applied, before>>
  BY DEF streams, history
<1>3. listener' \in ListenerRecs /\ Hand' = Hand
      /\ \A d \in Calls : (Waiting(d)' => Waiting(d)) /\ (InBody(d)' => InBody(d) /\ listener'.kind = listener.kind)
  BY <1>1, <1>2, ListeningFacts DEF Hand, Waiting, InBody
<1>4. TypeOK'
  BY <1>1, <1>2, <1>3, TypeFacts, TypeStep
<1>5. LineInv'
  BY <1>1, <1>2, <1>3, LineLeft
<1>6. JobsInv' /\ DaemonInv'
  BY <1>1, ListeningFacts DEF JobsInv, DaemonInv, Listening
<1>7. ASSUME NEW d \in Calls
      PROVE  CallInv(d)'
  <2>1. InLine(d) => InLine(d)'
    BY <1>2, <1>3 DEF InLine
  <2>2. Same(d)
    BY <1>2, <1>3, <2>1 DEF Same
  <2>3. CallInv(d)
    BY DEF IInv
  <2>4. QED
    BY <2>2, <2>3, Untouched
<1>8. QED
  BY <1>4, <1>5, <1>6, <1>7 DEF IInv

LEMMA MainKeeps ==
  ASSUME IInv, Signal \/ Wait \/ Spurious \/ Drained
  PROVE  IInv'
<1>1. main \in {"starting", "waiting", "awake"}
  BY TypeFacts DEF IInv
<1>2. CASE Signal
  BY <1>1, <1>2, MainTurns DEF Signal
<1>3. CASE Wait
  BY <1>3, MainTurns DEF Wait
<1>4. CASE Spurious
  BY <1>4, MainTurns DEF Spurious
<1>5. CASE Drained
  BY <1>5, MainTurns DEF Drained
<1>6. QED
  BY <1>2, <1>3, <1>4, <1>5

\* The first message of the queue is the next in line.
LEMMA TakeKeeps ==
  ASSUME IInv, TakeMessage
  PROVE  IInv'
<1>1. TypeOK /\ LineInv /\ JobsInv /\ DaemonInv /\ queue \in Seq(Calls) /\ applied \in Seq(Calls)
      /\ performed \in [Calls -> 0..1]
  BY TypeFacts DEF IInv
<1> DEFINE first == Head(queue)
<1>0. queue # <<>> /\ first \in Calls
  BY <1>1, RangeFacts DEF TakeMessage
<1>2. PICK c \in Calls :
      /\ c = first /\ queue # <<>> /\ queue' = Tail(queue)
      /\ UNCHANGED <<service, alive, call, up, down, shut, backlog, listener, jobs, handler, main, before>>
      /\ IF IsUpdate(c) THEN performed' = [performed EXCEPT ![c] = performed[c] + 1] /\ applied' = Append(applied, c)
         ELSE UNCHANGED <<performed, applied>>
  <2>1. /\ queue # <<>> /\ queue' = Tail(queue)
        /\ UNCHANGED <<service, alive, call, up, down, shut, backlog, listener, jobs, handler, main, before>>
        /\ IF IsUpdate(first)
           THEN performed' = [performed EXCEPT ![first] = performed[first] + 1] /\ applied' = Append(applied, first)
           ELSE UNCHANGED <<performed, applied>>
    BY DEF TakeMessage, streams
  <2> HIDE DEF first
  <2>2. QED
    BY <1>0, <2>1
<1>3. c \in Calls /\ queue' \in Seq(Calls) /\ Range(queue) = Range(queue') \cup {c}
  BY <1>1, <1>2, RangeFacts
<1>4. InOrder(before, queue') /\ Precede(before, {c}, Range(queue'))
  BY <1>1, <1>2, InOrderFacts DEF LineInv
<1>5. alive /\ CallInv(c) /\ c \notin Range(applied)
  <2>1. alive
    BY <1>1, <1>2 DEF DaemonInv
  <2>2. c \notin Range(applied)
    BY <1>1, <1>3 DEF LineInv, Precede
  <2>3. QED
    BY <1>3, <2>1, <2>2 DEF IInv
<1>6. Hand' = Hand /\ Listening' = Listening /\ \A d \in Calls : (Waiting(d)' <=> Waiting(d)) /\ (InBody(d)' <=> InBody(d))
  BY <1>2 DEF Hand, Listening, Waiting, InBody
<1>7. CASE IsUpdate(c)
  <2>1. handler[c].at = "none" /\ handler[c].kind = NoKind /\ performed[c] = 0
    BY <1>5, <1>7 DEF IsUpdate, CallInv, HandlerInv, PerformedInv
  <2>2. applied' = Append(applied, c) /\ performed' = [performed EXCEPT ![c] = 1]
    BY <1>2, <1>7, <2>1
  <2>3. applied' \in Seq(Calls) /\ Range(applied') = Range(applied) \cup {c}
    BY <1>1, <1>3, <2>2, RangeFacts
  <2>4. performed' \in [Calls -> 0..1] /\ performed'[c] = 1 /\ \A d \in Calls : d # c => performed'[d] = performed[d]
    BY <1>1, <2>2
  <2>5. TypeOK'
    BY <1>1, <1>2, <1>3, <2>3, <2>4, TypeFacts, TypeStep
  <2>6. LineInv'
    <3>1. InOrder(before, applied')
      <4>1. Precede(before, Range(applied), {c}) /\ InOrder(before, applied)
        BY <1>1, <1>3 DEF LineInv, Precede
      <4>2. QED
        BY <1>1, <1>3, <2>2, <4>1, InOrderFacts
    <3>2. Precede(before, Range(applied'), Range(queue') \cup Hand' \cup Range(backlog'))
      <4>1. Precede(before, Range(applied), Range(queue') \cup Hand' \cup Range(backlog'))
        BY <1>1, <1>2, <1>3, <1>6 DEF LineInv, Precede
      <4>2. Precede(before, {c}, Range(queue') \cup Hand' \cup Range(backlog'))
        BY <1>1, <1>2, <1>3, <1>4, <1>6 DEF LineInv, Precede
      <4>3. QED
        BY <2>3, <4>1, <4>2 DEF Precede
    <3>3. Precede(before, Range(queue'), Hand' \cup Range(backlog')) /\ Precede(before, Hand', Range(backlog'))
      BY <1>1, <1>2, <1>3, <1>6 DEF LineInv, Precede
    <3>4. InOrder(before, backlog')
      BY <1>1, <1>2 DEF LineInv
    <3>5. Range(applied') \cup Range(queue') \cup Hand' \cup Range(backlog') \subseteq Lined
      BY <1>2, <1>3, <1>6, <2>3 DEF Lined
    <3>6. QED
      BY <1>1, <1>2, <1>4, <3>1, <3>2, <3>3, <3>4, <3>5, LineKept
  <2>7. JobsInv' /\ DaemonInv'
    BY <1>1, <1>2, <1>5 DEF JobsInv, DaemonInv
  <2>8. CallInv(c)'
    <3>1. HandlerInv(c)'
      BY <1>2, <1>5, <1>6 DEF CallInv, HandlerInv
    <3>2. PerformedInv(c)'
      BY <1>2, <2>1, <2>3, <2>4 DEF PerformedInv
    <3>3. ClientInv(c)'
      BY <1>2, <1>5 DEF CallInv, ClientInv, KindsOf, NumSends
    <3>4. RequestInv(c)'
      BY <1>2, <1>5, <1>6, <2>1 DEF CallInv, RequestInv, Pooled
    <3>5. EndInv(c)' /\ ReturnInv(c)'
      BY <1>2, <1>5 DEF CallInv, EndInv, ReturnInv, Client
    <3>6. AnswerInv(c)'
      BY <1>2, <1>5, <2>1, <2>4 DEF CallInv, AnswerInv, Client
    <3>7. UpdateInv(c)'
      BY <1>2, <1>5, <2>4 DEF CallInv, UpdateInv, Client
    <3>8. QED
      BY <3>1, <3>2, <3>3, <3>4, <3>5, <3>6, <3>7 DEF CallInv
  <2>9. ASSUME NEW d \in Calls, d # c
        PROVE  CallInv(d)'
    <3>1. InLine(d) => InLine(d)'
      BY <1>2, <1>3, <1>6, <2>9 DEF InLine
    <3>2. Same(d)
      BY <1>2, <1>6, <2>3, <2>4, <2>9, <3>1 DEF Same
    <3>3. CallInv(d)
      BY DEF IInv
    <3>4. QED
      BY <3>2, <3>3, Untouched
  <2>10. QED
    BY <2>5, <2>6, <2>7, <2>8, <2>9 DEF IInv
<1>8. CASE ~IsUpdate(c)
  <2>1. UNCHANGED <<performed, applied>>
    BY <1>2, <1>8
  <2>2. TypeOK'
    BY <1>1, <1>2, <1>3, <2>1, TypeFacts, TypeStep
  <2>3. LineInv'
    <3>1. /\ Precede(before, Range(applied'), Range(queue') \cup Hand' \cup Range(backlog'))
          /\ Precede(before, Range(queue'), Hand' \cup Range(backlog'))
          /\ Precede(before, Hand', Range(backlog'))
      BY <1>1, <1>2, <1>3, <1>6, <2>1 DEF LineInv, Precede
    <3>2. InOrder(before, applied') /\ InOrder(before, backlog')
      BY <1>1, <1>2, <2>1 DEF LineInv
    <3>3. Range(applied') \cup Range(queue') \cup Hand' \cup Range(backlog') \subseteq Lined
      BY <1>2, <1>3, <1>6, <2>1 DEF Lined
    <3>4. QED
      BY <1>1, <1>2, <1>4, <3>1, <3>2, <3>3, LineKept
  <2>4. JobsInv' /\ DaemonInv'
    BY <1>1, <1>2, <1>5 DEF JobsInv, DaemonInv
  <2>5. ASSUME NEW d \in Calls, d # c
        PROVE  CallInv(d)'
    <3>1. InLine(d) => InLine(d)'
      BY <1>2, <1>3, <1>6, <2>5 DEF InLine
    <3>2. Same(d)
      BY <1>2, <1>6, <2>1, <2>5, <3>1 DEF Same
    <3>3. CallInv(d)
      BY DEF IInv
    <3>4. QED
      BY <3>2, <3>3, Untouched
  <2>6. CallInv(c)'
    <3>1. HandlerInv(c)' /\ PerformedInv(c)'
      BY <1>2, <1>5, <1>6, <2>1 DEF CallInv, HandlerInv, PerformedInv
    <3>2. ClientInv(c)'
      BY <1>2, <1>5 DEF CallInv, ClientInv, KindsOf, NumSends
    <3>3. RequestInv(c)'
      BY <1>2, <1>5, <1>6 DEF CallInv, RequestInv, Pooled, Nothing, Understood, Garbled, Script
    <3>4. EndInv(c)' /\ ReturnInv(c)' /\ AnswerInv(c)'
      <4>1. EndInv(c)' /\ ReturnInv(c)'
        BY <1>2, <1>5, <2>1 DEF CallInv, EndInv, ReturnInv, Client
      <4>2. AnswerInv(c)'
        BY <1>2, <1>5, <2>1 DEF CallInv, AnswerInv, Client
      <4>3. QED
        BY <4>1, <4>2
    <3>5. UpdateInv(c)'
      BY <1>2, <1>5, <1>8 DEF CallInv, UpdateInv, Client, IsUpdate
    <3>6. QED
      BY <3>1, <3>2, <3>3, <3>4, <3>5 DEF CallInv
  <2>7. QED
    BY <2>2, <2>3, <2>4, <2>5, <2>6 DEF IInv
<1>9. QED
  BY <1>7, <1>8

-----------------------------------------------------------------------------
(* The steps of the pool's threads.                                        *)

\* What is true of a call that a job serves.
LEMMA ServedFacts ==
  ASSUME IInv, NEW c \in Calls, handler[c].at \in Served
  PROVE  /\ TypeOK /\ CallInv(c) /\ service \in Daemons /\ alive
         /\ ~Waiting(c) /\ ~InBody(c) /\ call[c].at # "idle" /\ Sender(service, call[c])
         /\ handler[c].kind # NoKind /\ handler[c].kind \in Pooled(service)
         /\ handler \in [Calls -> HandlerRecs] /\ handler[c].got \in Seq(Fields) /\ handler[c].left \in Seq(Fields)
         /\ up \in [Calls -> Seq(Fields)] /\ down \in [Calls -> Seq(Fields)]
         /\ shut \in [Calls -> SUBSET {"client", "daemon"}] /\ performed \in [Calls -> 0..1] /\ jobs \in Seq(Calls)
         /\ "daemon" \in shut[c] => call[c].at \notin {"sending", "receiving"}
         /\ "client" \in shut[c] => call[c].at \in Ended
<1>1. /\ TypeOK /\ CallInv(c) /\ service \in Daemons /\ DaemonInv
      /\ handler \in [Calls -> HandlerRecs]
      /\ up \in [Calls -> Seq(Fields)] /\ down \in [Calls -> Seq(Fields)]
      /\ shut \in [Calls -> SUBSET {"client", "daemon"}] /\ performed \in [Calls -> 0..1] /\ jobs \in Seq(Calls)
  BY TypeFacts DEF IInv, TypeOK
<1>2. alive /\ handler[c].at \notin {"none", "closed"}
  BY <1>1 DEF DaemonInv, Served
<1>3. ~Waiting(c) /\ ~InBody(c) /\ call[c].at # "idle" /\ handler[c].kind # NoKind
  BY <1>1, <1>2 DEF CallInv, HandlerInv
<1>4. handler[c] \in HandlerRecs
  BY <1>1
<1>5. handler[c].kind \in Pooled(service) /\ handler[c].got \in Seq(Fields) /\ handler[c].left \in Seq(Fields)
  BY <1>3, <1>4 DEF HandlerRecs
<1>6. Sender(service, call[c]) /\ ("client" \in shut[c] => call[c].at \in Ended)
  BY <1>1, <1>3 DEF CallInv, ClientInv, Sender
<1>7. "daemon" \in shut[c] => call[c].at \notin {"sending", "receiving"}
  BY <1>1, <1>2 DEF CallInv, EndInv
<1>8. QED
  BY <1>1, <1>2, <1>3, <1>5, <1>6, <1>7

LEMMA HandlerMoves ==
  ASSUME IInv, NEW c \in Calls, handler[c].at \in Served, NEW at \in {"reading", "working", "replying", "closed"},
         NEW got, NEW left, HandlerTurn(c, at, handler[c].kind, got, left),
         UNCHANGED <<service, alive, call, backlog, listener, queue, main, applied, before>>,
         up' \in [Calls -> Seq(Fields)], down' \in [Calls -> Seq(Fields)],
         shut' \in [Calls -> SUBSET {"client", "daemon"}], performed' \in [Calls -> 0..1], jobs' \in Seq(Calls),
         \A d \in Calls : d # c => /\ up'[d] = up[d] /\ down'[d] = down[d] /\ shut'[d] = shut[d]
                                   /\ performed'[d] = performed[d],
         "client" \in shut[c] <=> "client" \in shut'[c],
         call[c].at = "sending" => down'[c] = <<>>,
         JobsInv', PerformedInv(c)', RequestInv(c)', EndInv(c)', AnswerInv(c)', ReturnInv(c)'
  PROVE  IInv'
<1>1. /\ TypeOK /\ CallInv(c) /\ alive /\ ~Waiting(c) /\ ~InBody(c) /\ call[c].at # "idle" /\ handler[c].kind # NoKind
  BY ServedFacts
<1>2. /\ handler'[c].at = at /\ handler'[c].kind = handler[c].kind /\ \A d \in Calls : d # c => handler'[d] = handler[d]
      /\ handler' \in [Calls -> HandlerRecs]
  BY DEF HandlerTurn
<1>3. LineInv /\ DaemonInv
  BY DEF IInv
<1>4. TypeOK'
  BY <1>1, <1>2, TypeFacts, TypeStep
<1>5. /\ Hand' = Hand
      /\ \A d \in Calls : /\ (Waiting(d)' <=> Waiting(d)) /\ (InBody(d)' <=> InBody(d)) /\ (InLine(d)' <=> InLine(d))
  BY DEF Hand, Waiting, InBody, InLine
<1>6. LineInv'
  BY <1>3, <1>5, LineLeft
<1>7. DaemonInv'
  BY <1>1, <1>3 DEF DaemonInv
<1>8. CallInv(c)'
  <2>1. HandlerInv(c)'
    BY <1>1, <1>2, <1>5 DEF HandlerInv
  <2>2. ClientInv(c)'
    BY <1>1 DEF CallInv, ClientInv, KindsOf, NumSends
  <2>3. UpdateInv(c)'
    BY <1>1 DEF CallInv, UpdateInv, Client
  <2>4. QED
    BY <2>1, <2>2, <2>3 DEF CallInv
<1>9. ASSUME NEW d \in Calls, d # c
      PROVE  CallInv(d)'
  <2>1. Same(d)
    BY <1>2, <1>5, <1>9 DEF Same
  <2>2. CallInv(d)
    BY DEF IInv
  <2>3. QED
    BY <2>1, <2>2, Untouched
<1>10. QED
  BY <1>4, <1>6, <1>7, <1>8, <1>9 DEF IInv

\* The jobs that wait are not the ones that are served.
LEMMA JobsStay ==
  ASSUME IInv, NEW c \in Calls, handler[c].at # "queued", \A d \in Calls : d # c => handler'[d] = handler[d],
         jobs' = jobs
  PROVE  JobsInv'
<1>1. jobs \in Seq(Calls) /\ JobsInv
  BY TypeFacts DEF IInv
<1>2. \A i \in 1..Len(jobs) : jobs[i] \in Calls /\ jobs[i] # c
  BY <1>1 DEF JobsInv
<1>3. QED
  BY <1>1, <1>2 DEF JobsInv

LEMMA StartKeeps ==
  ASSUME IInv, StartJob
  PROVE  IInv'
<1> DEFINE first == Head(jobs)
<1>1. jobs \in Seq(Calls) /\ JobsInv /\ jobs # <<>>
  BY TypeFacts DEF IInv, StartJob
<1>2. PICK c \in Calls :
         /\ c = first /\ jobs' = Tail(jobs) /\ Set(c, "reading", <<>>, <<>>)
         /\ UNCHANGED <<service, alive, call, up, down, shut, backlog, listener, queue, main, performed, applied, before>>
  <2>1. first \in Calls
    BY <1>1
  <2>2. /\ jobs' = Tail(jobs) /\ Set(first, "reading", <<>>, <<>>)
        /\ UNCHANGED <<service, alive, call, up, down, shut, backlog, listener, queue, main, performed, applied, before>>
    BY DEF StartJob, streams, history
  <2> HIDE DEF first
  <2>3. QED
    BY <2>1, <2>2
<1>3. /\ Len(jobs) \in Nat /\ Len(jobs) > 0 /\ c = jobs[1] /\ Len(jobs') = Len(jobs) - 1 /\ jobs' \in Seq(Calls)
      /\ \A i \in 1..(Len(jobs) - 1) : jobs'[i] = jobs[i + 1] /\ i + 1 \in 1..Len(jobs) /\ i + 1 # 1
  BY <1>1, <1>2
<1>4. 1 \in 1..Len(jobs)
  BY <1>3
<1>5. handler[c].at = "queued"
  BY <1>1, <1>3, <1>4 DEF JobsInv
<1>6. /\ TypeOK /\ CallInv(c) /\ ~Waiting(c) /\ ~InBody(c) /\ handler \in [Calls -> HandlerRecs]
      /\ up \in [Calls -> Seq(Fields)] /\ down \in [Calls -> Seq(Fields)]
      /\ shut \in [Calls -> SUBSET {"client", "daemon"}] /\ performed \in [Calls -> 0..1]
      /\ ("daemon" \in shut[c] => call[c].at \notin {"sending", "receiving"})
  BY <1>5, ServedFacts DEF Served
<1>7. HandlerTurn(c, "reading", handler[c].kind, <<>>, <<>>)
  <2>1. <<>> \in Seq(Fields) /\ "reading" \in HandlerAts
    BY DEF HandlerAts
  <2>2. QED
    BY <1>2, <1>6, <2>1, SetStep
<1>8. /\ handler'[c].at = "reading" /\ handler'[c].kind = handler[c].kind
      /\ \A d \in Calls : d # c => handler'[d] = handler[d]
  BY <1>7 DEF HandlerTurn
<1>9. JobsInv'
  <2>1. \A i \in 1..(Len(jobs) - 1) : jobs'[i] \in Calls /\ jobs'[i] # c /\ handler[jobs'[i]].at = "queued"
    BY <1>1, <1>3, <1>4 DEF JobsInv
  <2>2. \A i, j \in 1..(Len(jobs) - 1) : i # j => jobs'[i] # jobs'[j]
    <3>1. \A i, j \in 1..(Len(jobs) - 1) : i # j => i + 1 # j + 1
      OBVIOUS
    <3>2. QED
      BY <1>1, <1>3, <3>1 DEF JobsInv
  <2>3. QED
    BY <1>3, <1>8, <2>1, <2>2 DEF JobsInv
<1>10. PerformedInv(c)'
  BY <1>2, <1>5, <1>6 DEF CallInv, PerformedInv
<1>11. RequestInv(c)'
  <2>1. ~Waiting(c)' /\ ~InBody(c)'
    BY <1>2, <1>6 DEF Waiting, InBody
  <2>2. QED
    BY <1>2, <1>5, <1>6, <1>8, <2>1 DEF CallInv, RequestInv, Nothing
<1>12. EndInv(c)' /\ ReturnInv(c)'
  BY <1>2, <1>6 DEF CallInv, EndInv, ReturnInv, Client
<1>13. AnswerInv(c)'
  BY <1>2, <1>5, <1>6, <1>8 DEF CallInv, AnswerInv, Client
<1>14. call[c].at = "sending" => down[c] = <<>>
  BY <1>6 DEF CallInv, ClientInv
<1>15. handler[c].at \in Served
  BY <1>5 DEF Served
<1>16. QED
  BY <1>2, <1>3, <1>6, <1>7, <1>9, <1>10, <1>11, <1>12, <1>13, <1>14, <1>15, HandlerMoves

\* A job whose client waits for its answer, which has not come.
LEMMA AnswerWaits ==
  ASSUME NEW c \in Calls, CallInv(c), handler[c].at \in {"reading", "working"},
         handler'[c].at \in {"working", "closed"}, UNCHANGED <<service, alive, call, down, performed>>
  PROVE  AnswerInv(c)' /\ ReturnInv(c)'
<1>1. ReturnInv(c)'
  BY DEF CallInv, ReturnInv, Client
<1>2. AnswerInv(c)'
  BY DEF CallInv, AnswerInv, Client
<1>3. QED
  BY <1>1, <1>2

LEMMA ReadKeeps ==
  ASSUME IInv, NEW c \in Calls, HandlerRead(c)
  PROVE  IInv'
<1> DEFINE reads == Script(c).reads
           n == Len(reads)
           u == up[c]
<1>1. /\ handler[c].at = "reading" /\ Len(u) >= n /\ up' = [up EXCEPT ![c] = SubSeq(u, n + 1, Len(u))]
      /\ Set(c, "working", SubSeq(u, 1, n), <<>>)
      /\ UNCHANGED <<service, alive, call, down, shut, backlog, listener, jobs, queue, main, performed, applied, before>>
  BY DEF HandlerRead, history
<1>2. handler[c].at \in Served
  BY <1>1 DEF Served
<1>3. /\ TypeOK /\ CallInv(c) /\ service \in Daemons /\ ~Waiting(c) /\ ~InBody(c) /\ Sender(service, call[c])
      /\ handler[c].kind \in Pooled(service) /\ handler \in [Calls -> HandlerRecs]
      /\ up \in [Calls -> Seq(Fields)] /\ down \in [Calls -> Seq(Fields)]
      /\ shut \in [Calls -> SUBSET {"client", "daemon"}] /\ performed \in [Calls -> 0..1] /\ jobs \in Seq(Calls)
      /\ ("daemon" \in shut[c] => call[c].at \notin {"sending", "receiving"})
  BY <1>2, ServedFacts
<1>4. reads \in Seq(Fields) /\ reads # <<>>
  BY <1>3, AskFacts DEF Script
<1>5. handler[c].kind = call[c].kind /\ Unread(service, call[c], u, Len(Header[service]))
  <2>1. u # <<>>
    <3> HIDE DEF reads, u
    <3>1. Len(reads) > 0 /\ Len(<<>>) = 0
      BY <1>4
    <3>2. QED
      BY <1>1, <3>1
  <2>2. QED
    BY <1>1, <1>3, <2>1 DEF CallInv, RequestInv, Nothing
<1>6. u = reads /\ call[c].at # "sending" /\ SubSeq(u, 1, n) = u /\ SubSeq(u, n + 1, Len(u)) = <<>>
  <2> DEFINE d == service
             r == call[c]
  <2>1. d \in Daemons /\ Sender(d, r) /\ r.kind \in Pooled(d) /\ Unread(d, r, u, Len(Header[d]))
        /\ reads = HandlerOf[d][r.kind].reads /\ Len(u) >= Len(HandlerOf[d][r.kind].reads)
    BY <1>1, <1>3, <1>5 DEF Script
  <2> HIDE DEF d, r, u
  <2>2. /\ u = HandlerOf[d][r.kind].reads /\ r.at # "sending"
        /\ SubSeq(u, 1, Len(HandlerOf[d][r.kind].reads)) = u
        /\ SubSeq(u, Len(HandlerOf[d][r.kind].reads) + 1, Len(u)) = <<>>
    BY <2>1, UnreadJob
  <2>3. QED
    BY <2>1, <2>2 DEF r
<1>7. Set(c, "working", reads, <<>>) /\ up' = [up EXCEPT ![c] = <<>>]
  <2> HIDE DEF u, reads
  <2>1. QED
    BY <1>1, <1>6
<1> HIDE DEF u, n
<1>8. HandlerTurn(c, "working", handler[c].kind, reads, <<>>)
  <2>1. <<>> \in Seq(Fields) /\ "working" \in HandlerAts
    BY DEF HandlerAts
  <2>2. QED
    BY <1>3, <1>4, <1>7, <2>1, SetStep
<1>9. /\ handler'[c].at = "working" /\ handler'[c].kind = handler[c].kind /\ handler'[c].got = reads
      /\ \A d \in Calls : d # c => handler'[d] = handler[d]
  BY <1>8 DEF HandlerTurn
<1>10. up' \in [Calls -> Seq(Fields)] /\ up'[c] = <<>> /\ \A d \in Calls : d # c => up'[d] = up[d]
  <2>1. <<>> \in Seq(Fields)
    OBVIOUS
  <2>2. QED
    BY <1>3, <1>7, <2>1
<1>11. JobsInv'
  BY <1>1, <1>9, JobsStay
<1>12. PerformedInv(c)'
  BY <1>1, <1>3 DEF CallInv, PerformedInv
<1>13. RequestInv(c)'
  <2>1. ~Waiting(c)' /\ ~InBody(c)'
    BY <1>1, <1>3 DEF Waiting, InBody
  <2>2. Understood(c)'
    BY <1>1, <1>5, <1>6, <1>9 DEF Understood, Script
  <2>3. QED
    BY <1>9, <1>10, <2>1, <2>2 DEF RequestInv
<1>14. EndInv(c)'
  BY <1>1, <1>3 DEF CallInv, EndInv
<1>15. AnswerInv(c)' /\ ReturnInv(c)'
  BY <1>1, <1>3, <1>9, AnswerWaits
<1>16. call[c].at = "sending" => down[c] = <<>>
  BY <1>3 DEF CallInv, ClientInv
<1>17. QED
  BY <1>1, <1>2, <1>3, <1>8, <1>10, <1>11, <1>12, <1>13, <1>14, <1>15, <1>16, HandlerMoves

LEMMA GivesUpKeeps ==
  ASSUME IInv, NEW c \in Calls, HandlerGivesUp(c)
  PROVE  IInv'
<1> DEFINE u == up[c]
<1>1. /\ handler[c].at = "reading" /\ GivesUp(c) /\ Len(u) >= 2 /\ up' = [up EXCEPT ![c] = SubSeq(u, 3, Len(u))]
      /\ Set(c, "closed", <<>>, <<>>) /\ shut' = [shut EXCEPT ![c] = shut[c] \cup {"daemon"}]
      /\ UNCHANGED <<service, alive, call, down, backlog, listener, jobs, queue, main, performed, applied, before>>
  BY DEF HandlerGivesUp, history, Closed
<1>2. handler[c].at \in Served
  BY <1>1 DEF Served
<1>3. /\ TypeOK /\ CallInv(c) /\ service \in Daemons /\ ~Waiting(c) /\ ~InBody(c) /\ Sender(service, call[c])
      /\ handler \in [Calls -> HandlerRecs]
      /\ up \in [Calls -> Seq(Fields)] /\ down \in [Calls -> Seq(Fields)]
      /\ shut \in [Calls -> SUBSET {"client", "daemon"}] /\ performed \in [Calls -> 0..1] /\ jobs \in Seq(Calls)
  BY <1>2, ServedFacts
<1>4. HandlerTurn(c, "closed", handler[c].kind, <<>>, <<>>)
  <2>1. <<>> \in Seq(Fields) /\ "closed" \in HandlerAts
    BY DEF HandlerAts
  <2>2. QED
    BY <1>1, <1>3, <2>1, SetStep
<1>5. handler'[c].at = "closed" /\ \A d \in Calls : d # c => handler'[d] = handler[d]
  BY <1>4 DEF HandlerTurn
<1>6. u \in Seq(Fields)
  BY <1>3
<1>7. up' \in [Calls -> Seq(Fields)] /\ \A d \in Calls : d # c => up'[d] = up[d]
  <2> HIDE DEF u
  <2>1. Len(u) \in Nat /\ \A i \in 1..Len(u) : u[i] \in Fields
    BY <1>6
  <2>2. SubSeq(u, 3, Len(u)) \in Seq(Fields)
    BY <1>1, <1>6, <2>1
  <2>3. QED
    BY <1>1, <1>3, <2>2
<1>8. /\ shut' \in [Calls -> SUBSET {"client", "daemon"}] /\ shut'[c] = shut[c] \cup {"daemon"}
      /\ \A d \in Calls : d # c => shut'[d] = shut[d]
  BY <1>1, <1>3
<1>9. call[c].at = "sending" => call[c].short /\ call[c].kind = "forward"
  <2> SUFFICES ASSUME call[c].at = "sending"
               PROVE  call[c].short /\ call[c].kind = "forward"
    OBVIOUS
  <2>1. u # <<>>
    <3> HIDE DEF u
    <3>1. Len(<<>>) = 0
      OBVIOUS
    <3>2. QED
      BY <1>1, <3>1
  <2>2. handler[c].kind = call[c].kind /\ Unread(service, call[c], u, Len(Header[service]))
    BY <1>1, <1>3, <2>1 DEF CallInv, RequestInv, Nothing
  <2>3. call[c].short /\ call[c].kind \in {"forward", "where"}
    BY <1>1, <2>2 DEF GivesUp
  <2>4. call[c].kind # "where"
    <3> DEFINE d == service
               r == call[c]
    <3>1. d \in Daemons /\ Sender(d, r) /\ Unread(d, r, u, Len(Header[d])) /\ Len(u) >= 2 /\ r.at = "sending"
      BY <1>1, <1>3, <2>2
    <3> HIDE DEF d, r, u
    <3>2. r.kind # "where"
      BY <3>1, UnreadWhere
    <3>3. QED
      BY <3>2 DEF r
  <2>5. QED
    BY <2>3, <2>4
<1>10. JobsInv'
  BY <1>1, <1>5, JobsStay
<1>11. PerformedInv(c)'
  BY <1>1, <1>3, <1>5 DEF CallInv, PerformedInv
<1>12. RequestInv(c)'
  <2>1. ~Waiting(c)' /\ ~InBody(c)'
    BY <1>1, <1>3 DEF Waiting, InBody
  <2>2. QED
    BY <1>5, <2>1 DEF RequestInv
<1>13. EndInv(c)'
  BY <1>1, <1>3, <1>5, <1>9 DEF CallInv, EndInv
<1>14. AnswerInv(c)' /\ ReturnInv(c)'
  BY <1>1, <1>3, <1>5, AnswerWaits
<1>15. call[c].at = "sending" => down[c] = <<>>
  BY <1>3 DEF CallInv, ClientInv
<1>16. QED
  BY <1>1, <1>2, <1>3, <1>4, <1>7, <1>8, <1>10, <1>11, <1>12, <1>13, <1>14, <1>15, HandlerMoves

\* The client has gone: what its job makes of the request reaches nobody.
LEMMA EndKeeps ==
  ASSUME IInv, NEW c \in Calls, HandlerEnd(c)
  PROVE  IInv'
<1> DEFINE got == Append(up[c], "garbage")
<1>1. /\ handler[c].at = "reading" /\ "client" \in shut[c] /\ up' = [up EXCEPT ![c] = <<>>]
      /\ IF service = "bfrd" THEN Set(c, "closed", <<>>, <<>>) /\ shut' = [shut EXCEPT ![c] = shut[c] \cup {"daemon"}]
         ELSE Set(c, "working", got, <<>>) /\ UNCHANGED shut
      /\ UNCHANGED <<service, alive, call, down, backlog, listener, jobs, queue, main, performed, applied, before>>
  BY DEF HandlerEnd, history, Closed
<1>2. handler[c].at \in Served
  BY <1>1 DEF Served
<1>3. /\ TypeOK /\ CallInv(c) /\ service \in Daemons /\ ~Waiting(c) /\ ~InBody(c)
      /\ handler \in [Calls -> HandlerRecs]
      /\ up \in [Calls -> Seq(Fields)] /\ down \in [Calls -> Seq(Fields)]
      /\ shut \in [Calls -> SUBSET {"client", "daemon"}] /\ performed \in [Calls -> 0..1] /\ jobs \in Seq(Calls)
      /\ call[c].at \in Ended
  BY <1>1, <1>2, ServedFacts
<1>4. got \in Seq(Fields) /\ "garbage" \in Range(got)
  <2>1. up[c] \in Seq(Fields) /\ "garbage" \in Fields
    BY <1>3, FieldFacts
  <2>2. got \in Seq(Fields) /\ Len(up[c]) + 1 \in DOMAIN got /\ got[Len(up[c]) + 1] = "garbage"
    BY <2>1
  <2>3. QED
    BY <2>2 DEF Range
<1> HIDE DEF got
<1>5. \E at \in {"working", "closed"} : \E g \in Seq(Fields) :
         /\ HandlerTurn(c, at, handler[c].kind, g, <<>>)
         /\ at = "working" => "garbage" \in Range(g)
  <2>1. <<>> \in Seq(Fields) /\ "closed" \in HandlerAts /\ "working" \in HandlerAts
    BY DEF HandlerAts
  <2>2. CASE service = "bfrd"
    <3>1. HandlerTurn(c, "closed", handler[c].kind, <<>>, <<>>)
      BY <1>1, <1>3, <2>1, <2>2, SetStep
    <3>2. QED
      BY <2>1, <3>1
  <2>3. CASE service # "bfrd"
    <3>1. HandlerTurn(c, "working", handler[c].kind, got, <<>>)
      BY <1>1, <1>3, <1>4, <2>1, <2>3, SetStep
    <3>2. QED
      BY <1>4, <3>1
  <2>4. QED
    BY <2>2, <2>3
<1>6. PICK at \in {"working", "closed"}, g \in Seq(Fields) :
         HandlerTurn(c, at, handler[c].kind, g, <<>>) /\ (at = "working" => "garbage" \in Range(g))
  BY <1>5
<1>7. /\ handler'[c].at = at /\ handler'[c].got = g /\ \A d \in Calls : d # c => handler'[d] = handler[d]
  BY <1>6 DEF HandlerTurn
<1>8. /\ up' \in [Calls -> Seq(Fields)] /\ up'[c] = <<>> /\ \A d \in Calls : d # c => up'[d] = up[d]
  <2>1. <<>> \in Seq(Fields)
    OBVIOUS
  <2>2. QED
    BY <1>1, <1>3, <2>1
<1>9. /\ shut' \in [Calls -> SUBSET {"client", "daemon"}] /\ "client" \in shut'[c]
      /\ \A d \in Calls : d # c => shut'[d] = shut[d]
  <2>1. CASE service = "bfrd"
    <3>1. shut' = [shut EXCEPT ![c] = shut[c] \cup {"daemon"}] /\ "client" \in shut[c]
      BY <1>1, <2>1
    <3>2. QED
      BY <1>3, <3>1
  <2>2. CASE service # "bfrd"
    <3>1. shut' = shut /\ "client" \in shut[c]
      BY <1>1, <2>2
    <3>2. QED
      BY <1>3, <3>1
  <2>3. QED
    BY <2>1, <2>2
<1>10. JobsInv'
  BY <1>1, <1>7, JobsStay
<1>11. PerformedInv(c)'
  BY <1>1, <1>3, <1>7 DEF CallInv, PerformedInv
<1>12. RequestInv(c)'
  <2>1. ~Waiting(c)' /\ ~InBody(c)'
    BY <1>1, <1>3 DEF Waiting, InBody
  <2>2. QED
    BY <1>6, <1>7, <1>8, <1>9, <2>1 DEF RequestInv, Garbled
<1>13. EndInv(c)'
  BY <1>1, <1>3 DEF CallInv, EndInv, Ended
<1>14. AnswerInv(c)' /\ ReturnInv(c)'
  BY <1>1, <1>3, <1>7, AnswerWaits
<1>15. call[c].at = "sending" => down[c] = <<>>
  BY <1>3 DEF Ended
<1>16. /\ UNCHANGED <<service, alive, call, backlog, listener, queue, main, applied, before>>
       /\ down' = down /\ performed' = performed /\ jobs' = jobs /\ "client" \in shut[c]
  BY <1>1
<1>17. at \in {"reading", "working", "replying", "closed"} /\ HandlerTurn(c, at, handler[c].kind, g, <<>>)
  BY <1>6
<1>18. QED
  BY <1>2, <1>3, <1>8, <1>9, <1>10, <1>11, <1>12, <1>13, <1>14, <1>15, <1>16, <1>17, HandlerMoves

\* A client that waits was understood, and its request is complete.
LEMMA WaitingUnderstood ==
  ASSUME IInv, NEW c \in Calls, handler[c].at \in {"working", "replying"}, "client" \notin shut[c]
  PROVE  /\ Understood(c) /\ ~Garbled(c) /\ call[c].kind = handler[c].kind
         /\ Script(c).replies = Client(c).awaits /\ Client(c).awaits \in Seq(Fields) /\ Client(c).awaits # <<>>
         /\ Head(Client(c).awaits) # "error"
<1>1. handler[c].at \in Served
  BY DEF Served
<1>2. CallInv(c) /\ service \in Daemons /\ handler[c].kind \in Pooled(service)
  BY <1>1, ServedFacts
<1>3. Understood(c)
  BY <1>2 DEF CallInv, RequestInv
<1>4. /\ "garbage" \notin Range(Script(c).reads) /\ Script(c).replies = ClientOf[service][handler[c].kind].awaits
      /\ ClientOf[service][handler[c].kind].awaits \in Seq(Fields)
      /\ ClientOf[service][handler[c].kind].awaits # <<>>
      /\ Head(ClientOf[service][handler[c].kind].awaits) # "error"
  BY <1>2, AskFacts DEF Script
<1>5. QED
  BY <1>3, <1>4 DEF Understood, Garbled, Client

\* The replies of a job, also of one whose request is garbled.
LEMMA RepliesFacts ==
  ASSUME IInv, NEW c \in Calls, handler[c].at \in Served
  PROVE  Script(c).replies \in Seq(Fields)
<1>1. service \in Daemons /\ handler[c].kind \in Pooled(service)
  BY ServedFacts
<1>2. QED
  BY <1>1, AskFacts DEF Script

\* A job is carried out when its answer is still to be sent.
LEMMA WorkKeeps ==
  ASSUME IInv, NEW c \in Calls, Work(c)
  PROVE  IInv'
<1> DEFINE replies == Script(c).replies
           got == handler[c].got
<1>1. /\ handler[c].at = "working" /\ Set(c, "replying", got, replies)
      /\ performed' = [performed EXCEPT ![c] = IF Garbled(c) THEN performed[c] ELSE performed[c] + 1]
      /\ UNCHANGED <<service, alive, call, up, down, shut, backlog, listener, jobs, queue, main, applied, before>>
  BY DEF Work, streams
<1>2. handler[c].at \in Served
  BY <1>1 DEF Served
<1>3. /\ TypeOK /\ CallInv(c) /\ ~Waiting(c) /\ ~InBody(c) /\ handler \in [Calls -> HandlerRecs]
      /\ got \in Seq(Fields) /\ replies \in Seq(Fields)
      /\ up \in [Calls -> Seq(Fields)] /\ down \in [Calls -> Seq(Fields)]
      /\ shut \in [Calls -> SUBSET {"client", "daemon"}] /\ performed \in [Calls -> 0..1] /\ jobs \in Seq(Calls)
      /\ ("daemon" \in shut[c] => call[c].at \notin {"sending", "receiving"})
      /\ ("client" \in shut[c] => call[c].at \in Ended)
  BY <1>2, ServedFacts, RepliesFacts
<1>4. HandlerTurn(c, "replying", handler[c].kind, got, replies)
  <2>1. "replying" \in HandlerAts
    BY DEF HandlerAts
  <2>2. QED
    BY <1>1, <1>3, <2>1, SetStep
<1>5. /\ handler'[c].at = "replying" /\ handler'[c].kind = handler[c].kind /\ handler'[c].got = handler[c].got
      /\ handler'[c].left = replies /\ \A d \in Calls : d # c => handler'[d] = handler[d]
  BY <1>4 DEF HandlerTurn
<1>6. performed[c] = 0 /\ c \notin Range(applied)
  BY <1>1, <1>3 DEF CallInv, PerformedInv
<1>7. /\ performed' \in [Calls -> 0..1] /\ \A d \in Calls : d # c => performed'[d] = performed[d]
      /\ ~Garbled(c) => performed'[c] = 1
  BY <1>1, <1>3, <1>6
<1>8. JobsInv'
  BY <1>1, <1>5, JobsStay
<1>9. PerformedInv(c)'
  <2>1. performed'[c] \in 0..1 /\ applied' = applied
    BY <1>1, <1>7
  <2>2. QED
    BY <1>5, <1>6, <2>1 DEF PerformedInv
<1>10. RequestInv(c)'
  <2>1. ~Waiting(c)' /\ ~InBody(c)'
    BY <1>1, <1>3 DEF Waiting, InBody
  <2>2. (Understood(c) => Understood(c)') /\ (Garbled(c) => Garbled(c)')
    BY <1>1, <1>5 DEF Understood, Garbled, Script
  <2>3. QED
    BY <1>1, <1>3, <1>5, <2>1, <2>2 DEF CallInv, RequestInv
<1>11. EndInv(c)' /\ ReturnInv(c)'
  BY <1>1, <1>3 DEF CallInv, EndInv, ReturnInv, Client
<1>12. AnswerInv(c)'
  <2> SUFFICES ASSUME call[c].at = "receiving"
               PROVE  AnswerInv(c)'
    BY <1>1 DEF AnswerInv
  <2>1. "client" \notin shut[c]
    BY <1>3 DEF Ended
  <2>2. ~Garbled(c) /\ replies = Client(c).awaits /\ Client(c).awaits # <<>>
    BY <1>1, <2>1, WaitingUnderstood
  <2>3. down[c] = <<>>
    BY <1>1, <1>3 DEF CallInv, AnswerInv
  <2>4. Client(c)' = Client(c) /\ down'[c] = <<>>
    BY <1>1, <2>3 DEF Client
  <2>5. QED
    BY <1>5, <1>7, <2>2, <2>4 DEF AnswerInv
<1>13. call[c].at = "sending" => down[c] = <<>>
  BY <1>3 DEF CallInv, ClientInv
<1>14. /\ UNCHANGED <<service, alive, call, backlog, listener, queue, main, applied, before>>
       /\ up' = up /\ down' = down /\ shut' = shut /\ jobs' = jobs
  BY <1>1
<1>15. QED
  BY <1>2, <1>3, <1>4, <1>7, <1>8, <1>9, <1>10, <1>11, <1>12, <1>13, <1>14, HandlerMoves

\* A job that fails says so.
LEMMA WorkFailsKeeps ==
  ASSUME IInv, NEW c \in Calls, WorkFails(c)
  PROVE  IInv'
<1> DEFINE got == handler[c].got
<1>1. /\ handler[c].at = "working" /\ Set(c, "replying", got, <<"error">>)
      /\ UNCHANGED <<service, alive, call, up, down, shut, backlog, listener, jobs, queue, main, performed, applied,
                     before>>
  BY DEF WorkFails, streams, history
<1>2. handler[c].at \in Served
  BY <1>1 DEF Served
<1>3. /\ TypeOK /\ CallInv(c) /\ ~Waiting(c) /\ ~InBody(c) /\ handler \in [Calls -> HandlerRecs]
      /\ got \in Seq(Fields)
      /\ up \in [Calls -> Seq(Fields)] /\ down \in [Calls -> Seq(Fields)]
      /\ shut \in [Calls -> SUBSET {"client", "daemon"}] /\ performed \in [Calls -> 0..1] /\ jobs \in Seq(Calls)
      /\ ("daemon" \in shut[c] => call[c].at \notin {"sending", "receiving"})
  BY <1>2, ServedFacts
<1>4. HandlerTurn(c, "replying", handler[c].kind, got, <<"error">>)
  <2>1. "replying" \in HandlerAts
    BY DEF HandlerAts
  <2>2. <<"error">> \in Seq(Fields)
    BY FieldFacts
  <2>3. QED
    BY <1>1, <1>3, <2>1, <2>2, SetStep
<1>5. /\ handler'[c].at = "replying" /\ handler'[c].kind = handler[c].kind /\ handler'[c].got = handler[c].got
      /\ handler'[c].left = <<"error">> /\ \A d \in Calls : d # c => handler'[d] = handler[d]
  BY <1>4 DEF HandlerTurn
<1>6. JobsInv'
  BY <1>1, <1>5, JobsStay
<1>7. PerformedInv(c)'
  BY <1>1, <1>3, <1>5 DEF CallInv, PerformedInv
<1>8. RequestInv(c)'
  <2>1. ~Waiting(c)' /\ ~InBody(c)'
    BY <1>1, <1>3 DEF Waiting, InBody
  <2>2. (Understood(c) => Understood(c)') /\ (Garbled(c) => Garbled(c)')
    BY <1>1, <1>5 DEF Understood, Garbled, Script
  <2>3. QED
    BY <1>1, <1>3, <1>5, <2>1, <2>2 DEF CallInv, RequestInv
<1>9. EndInv(c)' /\ ReturnInv(c)'
  BY <1>1, <1>3 DEF CallInv, EndInv, ReturnInv, Client
<1>10. AnswerInv(c)'
  <2>1. call[c].at = "receiving" => Client(c).awaits # <<>> /\ down[c] = <<>>
    BY <1>1, <1>3 DEF CallInv, AnswerInv
  <2>2. Client(c)' = Client(c) /\ down'[c] = down[c] /\ call'[c] = call[c]
    BY <1>1 DEF Client
  <2>3. QED
    BY <1>5, <2>1, <2>2 DEF AnswerInv
<1>11. call[c].at = "sending" => down[c] = <<>>
  BY <1>3 DEF CallInv, ClientInv
<1>12. /\ UNCHANGED <<service, alive, call, backlog, listener, queue, main, applied, before>>
       /\ up' = up /\ down' = down /\ shut' = shut /\ jobs' = jobs /\ performed' = performed
  BY <1>1
<1>13. QED
  BY <1>2, <1>3, <1>4, <1>6, <1>7, <1>8, <1>9, <1>10, <1>11, <1>12, HandlerMoves

\* A summary that fails is not answered.
LEMMA SummaryFailsKeeps ==
  ASSUME IInv, NEW c \in Calls, SummaryFails(c)
  PROVE  IInv'
<1>1. /\ handler[c].at = "working" /\ Set(c, "closed", <<>>, <<>>)
      /\ shut' = [shut EXCEPT ![c] = shut[c] \cup {"daemon"}]
      /\ UNCHANGED <<service, alive, call, up, down, backlog, listener, jobs, queue, main, performed, applied, before>>
  BY DEF SummaryFails, Closed, history
<1>2. handler[c].at \in Served
  BY <1>1 DEF Served
<1>3. /\ TypeOK /\ CallInv(c) /\ ~Waiting(c) /\ ~InBody(c) /\ handler \in [Calls -> HandlerRecs]
      /\ up \in [Calls -> Seq(Fields)] /\ down \in [Calls -> Seq(Fields)]
      /\ shut \in [Calls -> SUBSET {"client", "daemon"}] /\ performed \in [Calls -> 0..1] /\ jobs \in Seq(Calls)
      /\ ("client" \in shut[c] => call[c].at \in Ended)
  BY <1>2, ServedFacts
<1>4. HandlerTurn(c, "closed", handler[c].kind, <<>>, <<>>)
  <2>1. <<>> \in Seq(Fields) /\ "closed" \in HandlerAts
    BY DEF HandlerAts
  <2>2. QED
    BY <1>1, <1>3, <2>1, SetStep
<1>5. handler'[c].at = "closed" /\ \A d \in Calls : d # c => handler'[d] = handler[d]
  BY <1>4 DEF HandlerTurn
<1>6. /\ shut' \in [Calls -> SUBSET {"client", "daemon"}] /\ shut'[c] = shut[c] \cup {"daemon"}
      /\ \A d \in Calls : d # c => shut'[d] = shut[d]
  BY <1>1, <1>3
<1>7. JobsInv'
  BY <1>1, <1>5, JobsStay
<1>8. PerformedInv(c)'
  BY <1>1, <1>3, <1>5 DEF CallInv, PerformedInv
<1>9. RequestInv(c)'
  <2>1. ~Waiting(c)' /\ ~InBody(c)'
    BY <1>1, <1>3 DEF Waiting, InBody
  <2>2. QED
    BY <1>5, <2>1 DEF RequestInv
<1>10. call[c].at # "sending"
  BY <1>1, <1>3 DEF CallInv, RequestInv, Understood, Ended
<1>11. EndInv(c)'
  BY <1>1, <1>3, <1>5, <1>10 DEF CallInv, EndInv
<1>12. AnswerInv(c)' /\ ReturnInv(c)'
  BY <1>1, <1>3, <1>5, AnswerWaits
<1>13. /\ UNCHANGED <<service, alive, call, backlog, listener, queue, main, applied, before>>
       /\ up' = up /\ down' = down /\ jobs' = jobs /\ performed' = performed
  BY <1>1
<1>14. QED
  BY <1>2, <1>3, <1>4, <1>6, <1>7, <1>8, <1>9, <1>10, <1>11, <1>12, <1>13, HandlerMoves

\* What a client that waits has got when the first part or the last part of the answer is sent.
LEMMA ReplyStep ==
  ASSUME NEW X, NEW answer \in Seq(X), answer # <<>>, Head(answer) # "error", NEW down1, NEW left, NEW done,
         \/ down1 = <<>> /\ left = <<"error">>
         \/ down1 = <<>> /\ left = answer /\ done
         \/ down1 = Front(answer) /\ left = <<Last(answer)>> /\ done
  PROVE  /\ Len(left) > 1 => down1 \o Front(left) = Front(answer) /\ Last(left) = Last(answer) /\ done
                             /\ Front(answer) # answer
         /\ Len(left) <= 1 => (down1 \o left = <<"error">> /\ <<"error">> # answer) \/ (down1 \o left = answer /\ done)
<1>1. /\ Front(answer) \in Seq(X) /\ Len(Front(answer)) = Len(answer) - 1 /\ Len(answer) \in Nat
      /\ Front(answer) \o <<Last(answer)>> = answer
  BY FrontFacts
<1>2. <<>> \o Front(answer) = Front(answer) /\ <<>> \o answer = answer /\ <<>> \o <<"error">> = <<"error">>
  BY <1>1
<1>3. Len(<<"error">>) = 1 /\ Len(<<Last(answer)>>) = 1 /\ Head(<<"error">>) = "error"
  OBVIOUS
<1>4. Front(answer) # answer
  BY <1>1
<1>5. CASE down1 = <<>> /\ left = <<"error">>
  BY <1>2, <1>3, <1>5
<1>6. CASE down1 = <<>> /\ left = answer /\ done
  BY <1>2, <1>4, <1>6
<1>7. CASE down1 = Front(answer) /\ left = <<Last(answer)>> /\ done
  BY <1>1, <1>3, <1>7
<1>8. QED
  BY <1>5, <1>6, <1>7

LEMMA ReplyKeeps ==
  ASSUME IInv, NEW c \in Calls, Reply(c)
  PROVE  IInv'
<1> DEFINE left == handler[c].left
           got == handler[c].got
           answer == Client(c).awaits
           done == performed[c] = 1
<1>1. /\ handler[c].at = "replying" /\ "client" \notin shut[c]
      /\ UNCHANGED <<service, alive, call, up, backlog, listener, jobs, queue, main, performed, applied, before>>
  BY DEF Reply, history
<1>2. /\ Len(left) > 1 => /\ down' = [down EXCEPT ![c] = down[c] \o Front(left)]
                          /\ Set(c, "replying", got, <<Last(left)>>) /\ shut' = shut
      /\ ~(Len(left) > 1) => /\ down' = [down EXCEPT ![c] = down[c] \o left]
                             /\ Set(c, "closed", <<>>, <<>>) /\ shut' = [shut EXCEPT ![c] = shut[c] \cup {"daemon"}]
  BY DEF Reply, Closed
<1>3. handler[c].at \in Served
  BY <1>1 DEF Served
<1>4. /\ TypeOK /\ CallInv(c) /\ alive /\ ~Waiting(c) /\ ~InBody(c) /\ handler \in [Calls -> HandlerRecs]
      /\ call[c].at # "idle" /\ got \in Seq(Fields) /\ left \in Seq(Fields)
      /\ up \in [Calls -> Seq(Fields)] /\ down \in [Calls -> Seq(Fields)]
      /\ shut \in [Calls -> SUBSET {"client", "daemon"}] /\ performed \in [Calls -> 0..1] /\ jobs \in Seq(Calls)
      /\ ("daemon" \in shut[c] => call[c].at \notin {"sending", "receiving"})
  BY <1>3, ServedFacts
<1>5. /\ Understood(c) /\ answer \in Seq(Fields) /\ answer # <<>> /\ Head(answer) # "error"
  BY <1>1, WaitingUnderstood
<1>6. call[c].at # "sending" /\ call[c].rv = "none"
  BY <1>1, <1>4, <1>5, TypeFacts DEF Understood, CallInv, ClientInv, CallRecs
<1>7. call[c].at = "receiving" =>
         \/ down[c] = <<>> /\ left = <<"error">>
         \/ down[c] = <<>> /\ left = answer /\ done
         \/ down[c] = Front(answer) /\ left = <<Last(answer)>> /\ done
  BY <1>1, <1>4 DEF CallInv, AnswerInv
<1>8. Client(c)' = Client(c)
  BY <1>1 DEF Client
<1>9. PerformedInv(c) /\ JobsInv
  BY <1>4 DEF CallInv, IInv
<1>10. UNCHANGED <<service, alive, call, backlog, listener, queue, main, applied, before>>
       /\ up' = up /\ jobs' = jobs /\ performed' = performed
  BY <1>1
<1>11. ~Waiting(c)' /\ ~InBody(c)'
  BY <1>1, <1>4 DEF Waiting, InBody
<1>12. ReturnInv(c)'
  BY <1>1, <1>6 DEF ReturnInv
<1>13. CASE Len(left) > 1
  <2>1. Front(left) \in Seq(Fields) /\ Last(left) \in Fields
    <3>1. left # <<>>
      <4> HIDE DEF left
      <4>1. Len(<<>>) = 0
        OBVIOUS
      <4>2. QED
        BY <1>13, <4>1
    <3> HIDE DEF left
    <3>2. QED
      BY <1>4, <3>1, FrontFacts
  <2>2. HandlerTurn(c, "replying", handler[c].kind, got, <<Last(left)>>)
    <3>1. "replying" \in HandlerAts /\ <<Last(left)>> \in Seq(Fields)
      BY <2>1 DEF HandlerAts
    <3>2. QED
      BY <1>2, <1>4, <1>13, <3>1, SetStep
  <2>3. /\ handler'[c].at = "replying" /\ handler'[c].kind = handler[c].kind /\ handler'[c].got = got
        /\ handler'[c].left = <<Last(left)>> /\ \A d \in Calls : d # c => handler'[d] = handler[d]
    BY <2>2 DEF HandlerTurn
  <2>4. /\ down'[c] = down[c] \o Front(left) /\ \A d \in Calls : d # c => down'[d] = down[d]
        /\ down' \in [Calls -> Seq(Fields)] /\ shut' = shut
    <3>1. down[c] \o Front(left) \in Seq(Fields)
      BY <1>4, <2>1
    <3> HIDE DEF left
    <3>2. QED
      BY <1>2, <1>4, <1>13, <3>1
  <2>5. JobsInv'
    BY <1>1, <2>3, JobsStay
  <2>6. PerformedInv(c)'
    BY <1>1, <1>9, <2>3 DEF PerformedInv
  <2>7. RequestInv(c)'
    <3>1. Understood(c)'
      BY <1>1, <1>5, <2>3 DEF Understood, Script
    <3>2. up[c] = <<>>
      BY <1>1, <1>4 DEF CallInv, RequestInv
    <3>3. QED
      BY <1>1, <1>11, <2>3, <3>1, <3>2 DEF RequestInv
  <2>8. EndInv(c)'
    BY <1>1, <1>4, <2>4 DEF CallInv, EndInv
  <2>9. AnswerInv(c)'
    <3> SUFFICES ASSUME call[c].at = "receiving"
                 PROVE  AnswerInv(c)'
      BY <1>1 DEF AnswerInv
    <3>1. down[c] \o Front(left) = Front(answer) /\ Last(left) = Last(answer) /\ done /\ Front(answer) # answer
      <4> DEFINE dc == down[c]
      <4>1. \/ dc = <<>> /\ left = <<"error">>
            \/ dc = <<>> /\ left = answer /\ done
            \/ dc = Front(answer) /\ left = <<Last(answer)>> /\ done
        BY <1>7
      <4> HIDE DEF dc, left, answer, done
      <4>2. dc \o Front(left) = Front(answer) /\ Last(left) = Last(answer) /\ done /\ Front(answer) # answer
        BY <1>5, <1>13, <4>1, ReplyStep
      <4>3. QED
        BY <4>2 DEF dc
    <3>2. down'[c] = Front(answer) /\ handler'[c].left = <<Last(answer)>> /\ performed'[c] = 1
      BY <1>1, <2>3, <2>4, <3>1
    <3>3. QED
      BY <1>5, <1>8, <2>3, <3>2 DEF AnswerInv
  <2>10. QED
    BY <1>3, <1>4, <1>6, <1>10, <1>12, <2>2, <2>4, <2>5, <2>6, <2>7, <2>8, <2>9, HandlerMoves
<1>14. CASE ~(Len(left) > 1)
  <2>1. HandlerTurn(c, "closed", handler[c].kind, <<>>, <<>>)
    <3>1. "closed" \in HandlerAts /\ <<>> \in Seq(Fields)
      BY DEF HandlerAts
    <3>2. QED
      BY <1>2, <1>4, <1>14, <3>1, SetStep
  <2>2. handler'[c].at = "closed" /\ \A d \in Calls : d # c => handler'[d] = handler[d]
    BY <2>1 DEF HandlerTurn
  <2>3. /\ down'[c] = down[c] \o left /\ \A d \in Calls : d # c => down'[d] = down[d]
        /\ down' \in [Calls -> Seq(Fields)]
    <3>1. down[c] \o left \in Seq(Fields)
      BY <1>4
    <3> HIDE DEF left
    <3>2. QED
      BY <1>2, <1>4, <1>14, <3>1
  <2>4. /\ shut' \in [Calls -> SUBSET {"client", "daemon"}] /\ shut'[c] = shut[c] \cup {"daemon"}
        /\ \A d \in Calls : d # c => shut'[d] = shut[d]
    <3>1. shut' = [shut EXCEPT ![c] = shut[c] \cup {"daemon"}]
      BY <1>2, <1>14
    <3>2. QED
      BY <1>4, <3>1
  <2>5. JobsInv'
    BY <1>1, <2>2, JobsStay
  <2>6. PerformedInv(c)'
    BY <1>1, <1>9, <2>2 DEF PerformedInv
  <2>7. RequestInv(c)'
    BY <1>11, <2>2 DEF RequestInv
  <2>8. EndInv(c)'
    BY <1>1, <1>4, <1>6, <2>2 DEF CallInv, EndInv
  <2>9. AnswerInv(c)'
    <3> SUFFICES ASSUME call[c].at = "receiving"
                 PROVE  AnswerInv(c)'
      BY <1>1 DEF AnswerInv
    <3>1. (down[c] \o left = <<"error">> /\ <<"error">> # answer) \/ (down[c] \o left = answer /\ done)
      <4> DEFINE dc == down[c]
      <4>1. \/ dc = <<>> /\ left = <<"error">>
            \/ dc = <<>> /\ left = answer /\ done
            \/ dc = Front(answer) /\ left = <<Last(answer)>> /\ done
        BY <1>7
      <4>2. Len(left) <= 1
        <5>1. Len(left) \in Nat
          BY <1>4
        <5> HIDE DEF left
        <5>2. QED
          BY <1>14, <5>1
      <4> HIDE DEF dc, left, answer, done
      <4>3. (dc \o left = <<"error">> /\ <<"error">> # answer) \/ (dc \o left = answer /\ done)
        BY <1>5, <4>1, <4>2, ReplyStep
      <4>4. QED
        BY <4>3 DEF dc
    <3>2. (down'[c] = <<"error">> /\ <<"error">> # answer) \/ (down'[c] = answer /\ performed'[c] = 1)
      BY <1>1, <2>3, <3>1
    <3>3. QED
      BY <1>5, <1>8, <2>2, <3>2 DEF AnswerInv
  <2>10. QED
    BY <1>1, <1>3, <1>4, <1>6, <1>10, <1>12, <2>1, <2>3, <2>4, <2>5, <2>6, <2>7, <2>8, <2>9, HandlerMoves
<1>15. QED
  BY <1>13, <1>14

-----------------------------------------------------------------------------
(* The end of the daemon, and all steps together.                          *)

LEMMA DownKeeps ==
  ASSUME IInv, DaemonDown
  PROVE  IInv'
<1> DEFINE shutOf(c) == IF call[c].at = "idle" THEN shut[c] ELSE shut[c] \cup {"daemon"}
           ended == [Idle EXCEPT !.at = "closed"]
<1>1. /\ alive' = FALSE /\ shut' = [c \in Calls |-> shutOf(c)] /\ backlog' = <<>> /\ jobs' = <<>> /\ queue' = <<>>
      /\ listener' = Listening /\ handler' = [c \in Calls |-> ended] /\ main' = "starting"
      /\ up' = [c \in Calls |-> <<>>]
      /\ UNCHANGED <<service, call, down, performed, applied, before>>
  BY DEF DaemonDown, history
<1>2. /\ TypeOK /\ LineInv
      /\ call \in [Calls -> CallRecs] /\ down \in [Calls -> Seq(Fields)]
      /\ shut \in [Calls -> SUBSET {"client", "daemon"}]
      /\ applied \in Seq(Calls) /\ performed \in [Calls -> 0..1] /\ before \in [Calls -> SUBSET Calls]
  BY TypeFacts DEF IInv
<1>3. <<>> \in Seq(Fields) /\ <<>> \in Seq(Calls) /\ Range(<<>>) = {} /\ Len(<<>>) = 0
  BY RangeFacts, <1>2
<1>4. /\ ended = [at |-> "closed", kind |-> NoKind, got |-> <<>>, left |-> <<>>] /\ ended \in HandlerRecs
  <2>1. ended = [at |-> "closed", kind |-> NoKind, got |-> <<>>, left |-> <<>>]
    BY DEF Idle
  <2>2. QED
    BY <1>3, <2>1 DEF HandlerRecs, HandlerAts
<1>5. \A c \in Calls : shutOf(c) \in SUBSET {"client", "daemon"}
  BY <1>2
<1> HIDE DEF shutOf, ended
<1>6. TypeOK'
  BY <1>1, <1>2, <1>3, <1>4, <1>5, TypeFacts, TypeStep, ListeningFacts
<1>7. Hand' = {} /\ Lined' = Range(applied) /\ \A c \in Calls : ~Waiting(c)' /\ ~InBody(c)'
  BY <1>1, <1>3, ListeningFacts DEF Hand, Lined, Waiting, InBody
<1>8. LineInv'
  <2>1. InOrder(before, <<>>) /\ InOrder(before, applied)
    BY <1>2, InOrderFacts DEF LineInv
  <2>2. /\ \A c \in Range(applied) : call[c].at # "idle"
        /\ \A c \in Calls : \A d \in before[c] : call[d].at # "idle"
    BY <1>2 DEF LineInv, Lined
  <2>3. InOrder(before, applied)' /\ InOrder(before, queue)' /\ InOrder(before, backlog)'
    BY <1>1, <2>1
  <2>4. /\ Precede(before, Range(applied), Range(queue) \cup Hand \cup Range(backlog))'
        /\ Precede(before, Range(queue), Hand \cup Range(backlog))'
        /\ Precede(before, Hand, Range(backlog))'
    BY <1>1, <1>3, <1>7 DEF Precede
  <2>5. /\ (\A c \in Lined : call[c].at # "idle")'
        /\ (\A c \in Calls : \A d \in before[c] : call[d].at # "idle")'
    BY <1>1, <1>7, <2>2
  <2>6. QED
    BY <2>3, <2>4, <2>5 DEF LineInv
<1>9. JobsInv' /\ DaemonInv'
  <2>1. JobsInv'
    BY <1>1, <1>3 DEF JobsInv
  <2>2. \A c \in Calls : handler'[c].at = "closed"
    BY <1>1, <1>4
  <2>3. Listening' = Listening
    BY DEF Listening
  <2>4. QED
    BY <1>1, <2>1, <2>2, <2>3, ListeningFacts DEF DaemonInv
<1>10. ASSUME NEW c \in Calls
       PROVE  CallInv(c)'
  <2>1. CallInv(c)
    BY DEF IInv
  <2>2. handler'[c].at = "closed" /\ handler'[c].kind = NoKind /\ up'[c] = <<>> /\ shut'[c] = shutOf(c)
    BY <1>1, <1>4
  <2>3. HandlerInv(c)'
    BY <1>1, <1>7, <2>2 DEF HandlerInv, Served
  <2>4. PerformedInv(c)'
    BY <1>1, <2>1, <2>2 DEF CallInv, PerformedInv
  <2>5. ClientInv(c)'
    <3>1. (call[c].at = "idle" => shut'[c] = shut[c]) /\ ("client" \in shut'[c] => "client" \in shut[c])
      BY <2>2 DEF shutOf
    <3>2. QED
      BY <1>1, <2>1, <2>2, <3>1 DEF CallInv, ClientInv, KindsOf, NumSends
  <2>6. RequestInv(c)'
    BY <1>7, <2>2 DEF RequestInv
  <2>7. EndInv(c)' /\ UpdateInv(c)'
    BY <1>1 DEF EndInv, UpdateInv
  <2>8. AnswerInv(c)'
    BY <1>1, <2>1, <2>2 DEF CallInv, AnswerInv, Client
  <2>9. ReturnInv(c)'
    BY <1>1, <2>1 DEF CallInv, ReturnInv, Client
  <2>10. QED
    BY <2>3, <2>4, <2>5, <2>6, <2>7, <2>8, <2>9 DEF CallInv
<1>11. QED
  BY <1>6, <1>8, <1>9, <1>10 DEF IInv

LEMMA IInvInit ==
  ASSUME Init
  PROVE  IInv
<1>1. /\ service \in Daemons /\ alive = TRUE
      /\ call = [c \in Calls |-> [at |-> "idle", kind |-> NoKind, short |-> FALSE, sent |-> 0, got |-> <<>>,
                                  rv |-> "none"]]
      /\ up = [c \in Calls |-> <<>>] /\ down = [c \in Calls |-> <<>>] /\ shut = [c \in Calls |-> {}]
      /\ backlog = <<>> /\ listener = Listening /\ jobs = <<>> /\ queue = <<>> /\ main = "starting"
      /\ handler = [c \in Calls |-> Idle] /\ performed = [c \in Calls |-> 0] /\ applied = <<>>
      /\ before = [c \in Calls |-> {}]
  BY DEF Init, Listening
<1>2. /\ <<>> \in Seq(Fields) /\ <<>> \in Seq(Calls) /\ Range(<<>>) = {} /\ Len(<<>>) = 0
  <2>1. <<>> \in Seq(Fields) /\ <<>> \in Seq(Calls) /\ Len(<<>>) = 0
    OBVIOUS
  <2>2. QED
    BY <2>1, RangeFacts
<1>3. call \in [Calls -> CallRecs]
  BY <1>1, <1>2 DEF CallRecs, CallAts
<1>4. handler \in [Calls -> HandlerRecs]
  BY <1>1, <1>2 DEF HandlerRecs, HandlerAts, Idle
<1>5. TypeOK
  <2>1. /\ up \in [Calls -> Seq(Fields)] /\ down \in [Calls -> Seq(Fields)]
        /\ shut \in [Calls -> SUBSET {"client", "daemon"}]
    BY <1>1, <1>2
  <2>2. performed \in [Calls -> 0..1] /\ before \in [Calls -> SUBSET Calls]
    BY <1>1
  <2>3. QED
    BY <1>1, <1>2, <1>3, <1>4, <2>1, <2>2, TypeFacts, ListeningFacts
<1>6. Hand = {} /\ Lined = {} /\ \A c \in Calls : ~Waiting(c) /\ ~InBody(c)
  BY <1>1, <1>2, ListeningFacts DEF Hand, Lined, Waiting, InBody
<1>7. LineInv
  BY <1>1, <1>2, <1>6 DEF LineInv, InOrder, Precede
<1>8. JobsInv /\ DaemonInv
  BY <1>1, <1>2, ListeningFacts DEF JobsInv, DaemonInv
<1>9. ASSUME NEW c \in Calls
      PROVE  CallInv(c)
  <2>1. /\ call[c].at = "idle" /\ call[c].kind = NoKind /\ call[c].sent = 0 /\ call[c].got = <<>> /\ call[c].rv = "none"
        /\ handler[c].at = "none" /\ handler[c].kind = NoKind
        /\ up[c] = <<>> /\ down[c] = <<>> /\ shut[c] = {} /\ performed[c] = 0 /\ Range(applied) = {}
    BY <1>1, <1>2 DEF Idle
  <2>2. HandlerInv(c)
    BY <1>6, <2>1 DEF HandlerInv, Served
  <2>3. PerformedInv(c) /\ ClientInv(c)
    BY <2>1 DEF PerformedInv, ClientInv
  <2>4. RequestInv(c)
    BY <1>6, <2>1 DEF RequestInv
  <2>5. EndInv(c) /\ AnswerInv(c) /\ ReturnInv(c) /\ UpdateInv(c)
    BY <2>1 DEF EndInv, AnswerInv, ReturnInv, UpdateInv
  <2>6. QED
    BY <2>2, <2>3, <2>4, <2>5 DEF CallInv
<1>10. QED
  BY <1>5, <1>7, <1>8, <1>9 DEF IInv

LEMMA StutterKeeps ==
  ASSUME IInv, UNCHANGED vars
  PROVE  IInv'
<1>1. /\ UNCHANGED <<service, alive, call, up, down, shut, backlog, listener, jobs, handler, queue, main, performed,
                     applied, before>>
      /\ TypeOK /\ LineInv /\ JobsInv /\ DaemonInv
  BY DEF IInv, vars
<1>2. TypeOK'
  BY <1>1, TypeFacts, TypeStep
<1>3. Hand' = Hand /\ Lined' = Lined /\ Listening' = Listening
      /\ \A c \in Calls : (Waiting(c)' <=> Waiting(c)) /\ (InBody(c)' <=> InBody(c)) /\ (InLine(c)' <=> InLine(c))
  BY <1>1 DEF Hand, Lined, Listening, Waiting, InBody, InLine
<1>4. LineInv' /\ JobsInv' /\ DaemonInv'
  BY <1>1, <1>3 DEF LineInv, JobsInv, DaemonInv
<1>5. ASSUME NEW c \in Calls
      PROVE  CallInv(c)'
  <2>1. Same(c) /\ CallInv(c)
    BY <1>1, <1>3 DEF Same, IInv
  <2>2. QED
    BY <2>1, Untouched
<1>6. QED
  BY <1>2, <1>4, <1>5 DEF IInv

LEMMA IInvNext ==
  ASSUME IInv, [Next]_vars
  PROVE  IInv'
<1>1. CASE UNCHANGED vars
  BY <1>1, StutterKeeps
<1>2. ASSUME NEW c \in Calls, NEW k \in KindsOf(service) \cap Made[c], NEW short \in BOOLEAN, Connect(c, k, short)
      PROVE  IInv'
  BY <1>2, ConnectKeeps
<1>3. ASSUME NEW c \in Calls, ClientStep(c) \/ Die(c)
      PROVE  IInv'
  BY <1>3, SendKeeps, SendKilledKeeps, ReceiveKeeps, ReceiveForEverKeeps, ReceiveEndKeeps, DieKeeps DEF ClientStep
<1>4. ASSUME NEW c \in Calls, HandlerStep(c)
      PROVE  IInv'
  <2>1. CASE ReplyKilled(c) \/ WorkCrashes(c)
    BY <2>1, DownKeeps DEF ReplyKilled, WorkCrashes
  <2>2. CASE HandlerRead(c) \/ HandlerGivesUp(c) \/ HandlerEnd(c)
    BY <2>2, ReadKeeps, GivesUpKeeps, EndKeeps
  <2>3. CASE Work(c) \/ WorkFails(c) \/ SummaryFails(c) \/ Reply(c)
    BY <2>3, WorkKeeps, WorkFailsKeeps, SummaryFailsKeeps, ReplyKeeps
  <2>4. QED
    BY <1>4, <2>1, <2>2, <2>3 DEF HandlerStep
<1>5. CASE ListenerStep
  <2>1. CASE Accept \/ ReadHeader \/ HeaderEnd
    BY <2>1, AcceptKeeps, ReadHeaderKeeps, HeaderEndKeeps
  <2>2. CASE ReadBody \/ BodyEnd \/ Enqueue
    BY <2>2, ReadBodyKeeps, BodyEndKeeps, EnqueueKeeps
  <2>3. CASE Signal
    BY <2>3, MainKeeps
  <2>4. QED
    BY <1>5, <2>1, <2>2, <2>3 DEF ListenerStep
<1>6. CASE MainStep \/ Spurious
  BY <1>6, MainKeeps, TakeKeeps DEF MainStep
<1>7. CASE StartJob
  BY <1>7, StartKeeps
<1>8. CASE Terminate
  BY <1>8, DownKeeps DEF Terminate
<1>9. QED
  <2>1. CASE Next
    BY <2>1, <1>2, <1>3, <1>4, <1>5, <1>6, <1>7, <1>8 DEF Next
  <2>2. QED
    BY <1>1, <2>1

LEMMA Inductive == Spec => []IInv
<1>1. Init => IInv
  BY IInvInit
<1>2. IInv /\ [Next]_vars => IInv'
  BY IInvNext
<1>3. QED
  BY <1>1, <1>2, PTL DEF Spec

-----------------------------------------------------------------------------
(* Nobody is left waiting.  A call is in somebody's hands until it ends,   *)
(* so that who waits for it can name who goes on.                          *)

\* A request for the pool is on its way to it, in its list, with a thread, or closed at the daemon's end; and a
\* client that is no more has closed its own.
HandedInv(c) ==
  /\ call[c].at \in {"sending", "receiving"} /\ call[c].kind \in Pooled(service) =>
       Waiting(c) \/ handler[c].at # "none"
  /\ handler[c].at = "queued" => c \in Range(jobs)
  /\ call[c].at \in {"sending", "receiving"} /\ handler[c].at = "closed" => "daemon" \in shut[c]
  /\ call[c].at \in {"dead", "killed"} => "client" \in shut[c]

\* What a step does to a call it does not begin: it is handed on, never dropped.
HandedOn(c) ==
  /\ service' = service /\ call'[c].kind = call[c].kind /\ shut[c] \subseteq shut'[c]
  /\ call'[c].at \in {"sending", "receiving"} => call[c].at \in {"sending", "receiving"}
  /\ call'[c].at \in {"dead", "killed"} => call[c].at \in {"dead", "killed"} \/ "client" \in shut'[c]
  /\ handler'[c].at = "none" /\ call'[c].at \in {"sending", "receiving"} /\ call[c].kind \in Pooled(service) =>
       handler[c].at = "none" /\ (Waiting(c) => Waiting(c)')
  /\ handler'[c].at = "queued" => c \in Range(jobs)' \/ (handler[c].at = "queued" /\ c \notin Range(jobs))
  /\ handler'[c].at = "closed" /\ call'[c].at \in {"sending", "receiving"} =>
       handler[c].at = "closed" \/ "daemon" \in shut'[c]

LEMMA HandedKept ==
  ASSUME NEW c \in Calls, HandedInv(c), HandedOn(c)
  PROVE  HandedInv(c)'
<1>1. Pooled(service)' = Pooled(service)
  BY DEF HandedOn, Pooled
<1>2. QED
  BY <1>1 DEF HandedInv, HandedOn

\* One side of a call, whatever else of it a step writes.
LEMMA SetAt ==
  ASSUME handler \in [Calls -> HandlerRecs], NEW c \in Calls, NEW at, NEW got, NEW left, Set(c, at, got, left)
  PROVE  handler'[c].at = at /\ \A d \in Calls : d # c => handler'[d] = handler[d]
<1>1. handler' = [handler EXCEPT ![c] = [handler[c] EXCEPT !.at = at, !.got = got, !.left = left]]
  BY DEF Set
<1>2. handler'[c] = [handler[c] EXCEPT !.at = at, !.got = got, !.left = left] /\ handler[c] \in HandlerRecs
  BY <1>1
<1>3. QED
  BY <1>1, <1>2 DEF HandlerRecs

LEMMA ClosedAt ==
  ASSUME shut \in [Calls -> SUBSET {"client", "daemon"}], NEW c \in Calls, NEW end, Closed(c, end)
  PROVE  shut'[c] = shut[c] \cup {end} /\ \A d \in Calls : d # c => shut'[d] = shut[d]
BY DEF Closed

LEMMA HandedInit ==
  ASSUME Init, NEW c \in Calls
  PROVE  HandedInv(c)
BY DEF Init, HandedInv, Idle

\* A client's steps leave the daemon alone, and close its end when the client ends.
LEMMA ClientHands ==
  ASSUME IInv, NEW c \in Calls, ClientStep(c) \/ Die(c), NEW d \in Calls
  PROVE  HandedOn(d)
<1>1. call \in [Calls -> CallRecs] /\ shut \in [Calls -> SUBSET {"client", "daemon"}]
  BY TypeFacts DEF IInv
<1>2. /\ UNCHANGED <<service, backlog, listener, jobs, handler>>
      /\ call[c].at \in {"sending", "receiving", "spinning"}
      /\ call'[c].kind = call[c].kind /\ (d # c => call'[d] = call[d] /\ shut'[d] = shut[d])
      /\ shut[c] \subseteq shut'[c]
      /\ call'[c].at \in {"sending", "receiving"} => call[c].at \in {"sending", "receiving"}
      /\ call'[c].at \in {"dead", "killed"} => "client" \in shut'[c]
  <2>1. CASE Send(c)
    <3>1. /\ call[c].at = "sending" /\ UNCHANGED daemonVars /\ service' = service
          /\ \A e \in Calls : e # c => shut'[e] = shut[e]
          /\ shut[c] \subseteq shut'[c]
          /\ \E n : \/ Moved(c, "sending", n, <<>>, "none")
                    \/ Moved(c, "receiving", 0, <<>>, "none")
                    \/ Moved(c, "done", 0, <<>>, "ok")
      BY <2>1, SendStep
    <3>2. QED
      BY <3>1 DEF Moved, Turn, daemonVars
  <2>2. CASE Receive(c)
    <3>1. /\ call[c].at = "receiving" /\ UNCHANGED daemonVars /\ service' = service
          /\ shut' = [shut EXCEPT ![c] = shut[c] \cup {"client"}]
          /\ \E got, rv : Moved(c, "done", call[c].sent, got, rv)
      BY <2>2, ReceiveStep
    <3>2. QED
      BY <1>1, <3>1 DEF Moved, Turn, daemonVars
  <2>3. CASE ReceiveForEver(c)
    <3>1. /\ call[c].at = "receiving" /\ UNCHANGED daemonVars /\ service' = service /\ shut' = shut
          /\ call' = [call EXCEPT ![c].at = "spinning"]
      BY <2>3 DEF ReceiveForEver, streams
    <3>2. call'[c] = [call[c] EXCEPT !.at = "spinning"] /\ call[c] \in CallRecs
      BY <1>1, <3>1
    <3>3. call'[c].at = "spinning" /\ call'[c].kind = call[c].kind
      BY <3>2 DEF CallRecs
    <3>4. QED
      BY <3>1, <3>3 DEF daemonVars
  <2>4. CASE SendKilled(c) \/ ReceiveEnd(c) \/ Die(c)
    <3>1. PICK at \in CallAts, rv \in {"none", "ok", "failed"} : Finish(c, at, rv) /\ at \in Ended
      BY <2>4 DEF SendKilled, ReceiveEnd, Die, CallAts, Ended
    <3>2. call[c].at \in {"sending", "receiving", "spinning"} /\ UNCHANGED daemonVars /\ service' = service
      BY <2>4 DEF SendKilled, ReceiveEnd, Die
    <3>3. Moved(c, at, 0, call[c].got, rv)
      BY <1>1, <3>1, FinishStep
    <3>4. shut'[c] = shut[c] \cup {"client"} /\ \A e \in Calls : e # c => shut'[e] = shut[e]
      BY <1>1, <3>1, ClosedAt DEF Finish
    <3>5. QED
      BY <3>1, <3>2, <3>3, <3>4 DEF Moved, Turn, daemonVars, Ended
  <2>5. QED
    BY <2>1, <2>2, <2>3, <2>4 DEF ClientStep
<1>3. Waiting(d)' <=> Waiting(d)
  BY <1>2 DEF Waiting
<1>4. QED
  BY <1>2, <1>3 DEF HandedOn

\* A call begins at the end of the line.
LEMMA ConnectHands ==
  ASSUME IInv, \A d \in Calls : HandedInv(d), NEW c \in Calls, NEW k, NEW short, Connect(c, k, short), NEW d \in Calls
  PROVE  HandedInv(d)'
<1>1. /\ call \in [Calls -> CallRecs] /\ backlog \in Seq(Calls) /\ CallInv(c) /\ call[c] \in CallRecs
  BY TypeFacts DEF IInv
<1>2. /\ call[c].at = "idle" /\ UNCHANGED <<service, alive, up, down, shut, listener, jobs, handler>>
      /\ call' = [call EXCEPT ![c].kind = k, ![c].short = short, ![c].at = IF alive THEN "sending" ELSE "done",
                              ![c].rv = IF alive THEN "none" ELSE "failed"]
      /\ backlog' = IF alive THEN Append(backlog, c) ELSE backlog
  BY DEF Connect, streams
<1>3. call'[c].at = (IF alive THEN "sending" ELSE "done") /\ (d # c => call'[d] = call[d])
  BY <1>1, <1>2 DEF CallRecs
<1>4. Range(backlog') = IF alive THEN Range(backlog) \cup {c} ELSE Range(backlog)
  BY <1>1, <1>2, RangeFacts
<1>5. CASE d # c
  <2>1. Waiting(d) => Waiting(d)'
    BY <1>2, <1>4 DEF Waiting
  <2>2. HandedOn(d)
    BY <1>2, <1>3, <1>5, <2>1 DEF HandedOn
  <2>3. QED
    BY <2>2, HandedKept
<1>6. CASE d = c
  <2>1. HandedInv(c)
    OBVIOUS
  <2>2. alive => handler[c].at = "none" /\ Waiting(c)'
    BY <1>1, <1>2, <1>4 DEF CallInv, HandlerInv, Waiting
  <2>3. QED
    BY <1>2, <1>3, <1>6, <2>1, <2>2 DEF HandedInv
<1>7. QED
  BY <1>5, <1>6

\* The listener hands a request for the pool to the pool's list, and drops only one whose client has closed.
LEMMA ListenerHands ==
  ASSUME IInv, ListenerStep, NEW d \in Calls
  PROVE  HandedOn(d)
<1>1. /\ backlog \in Seq(Calls) /\ jobs \in Seq(Calls) /\ handler \in [Calls -> HandlerRecs]
      /\ shut \in [Calls -> SUBSET {"client", "daemon"}]
  BY TypeFacts DEF IInv
<1>2. CASE Accept
  <2>1. /\ backlog # <<>> /\ listener'.at = "header" /\ listener'.conn = Head(backlog) /\ backlog' = Tail(backlog)
        /\ listener.at = "accept" /\ UNCHANGED <<service, call, shut, jobs, handler>>
    BY <1>2 DEF Accept, streams
  <2>2. Range(backlog) = Range(backlog') \cup {listener'.conn}
    BY <1>1, <2>1, RangeFacts
  <2>3. Waiting(d) => Waiting(d)'
    BY <2>1, <2>2 DEF Waiting
  <2>4. QED
    BY <2>1, <2>3 DEF HandedOn
<1>3. ASSUME listener.at = "header", NEW k \in Pooled(service), AddJob(listener.conn, k),
             UNCHANGED <<service, call, shut, backlog>>
      PROVE  HandedOn(d)
  <2>1. listener.conn \in Calls
    BY <1>3 DEF IInv, DaemonInv
  <2>2. PICK c \in Calls : c = listener.conn
    BY <2>1
  <2>3. AddJob(c, k)
    BY <1>3, <2>2
  <2>4. /\ handler'[c].at = "queued" /\ \A e \in Calls : e # c => handler'[e] = handler[e]
    BY <1>1, <2>3, AddJobStep DEF HandlerTurn
  <2>5. Range(jobs') = Range(jobs) \cup {c}
    BY <1>1, <2>3, RangeFacts DEF AddJob
  <2>6. d # c => (Waiting(d) => Waiting(d)')
    BY <1>3, <2>2 DEF Waiting
  <2>7. QED
    BY <1>3, <2>4, <2>5, <2>6 DEF HandedOn
<1>4. CASE ReadHeader
  <2>1. CASE call[listener.conn].kind \in Pooled(service)
    BY <1>3, <1>4, <2>1 DEF ReadHeader
  <2>2. CASE call[listener.conn].kind \notin Pooled(service)
    <3>1. UNCHANGED <<service, call, shut, backlog, jobs, handler>> /\ listener.at = "header"
      BY <1>4, <2>2 DEF ReadHeader
    <3>2. call[d].kind \in Pooled(service) => (Waiting(d) => Waiting(d)')
      BY <2>2, <3>1 DEF Waiting
    <3>3. QED
      BY <3>1, <3>2 DEF HandedOn
  <2>3. QED
    BY <2>1, <2>2
<1>5. CASE HeaderEnd
  <2>1. /\ listener.at = "header" /\ "client" \in shut[listener.conn] /\ UNCHANGED <<service, call, shut, backlog>>
        /\ \/ UNCHANGED <<jobs, handler>>
           \/ \E k \in Pooled(service) : AddJob(listener.conn, k)
    BY <1>5 DEF HeaderEnd, streams
  <2>2. CASE UNCHANGED <<jobs, handler>>
    <3>1. CallInv(d)
      BY DEF IInv
    <3>2. d = listener.conn => call[d].at \in Ended
      BY <2>1, <3>1 DEF CallInv, ClientInv
    <3>3. d # listener.conn => (Waiting(d) => Waiting(d)')
      BY <2>1 DEF Waiting
    <3>4. QED
      BY <2>1, <2>2, <3>2, <3>3 DEF HandedOn, Ended
  <2>3. QED
    BY <1>3, <2>1, <2>2
<1>6. CASE ReadBody \/ BodyEnd \/ Enqueue \/ Signal
  <2>1. listener.at # "header" /\ UNCHANGED <<service, call, backlog, jobs, handler>>
    BY <1>6 DEF ReadBody, BodyEnd, Enqueue, Signal, streams
  <2>2. shut[d] \subseteq shut'[d]
    <3>1. CASE ReadBody
      <4>1. listener.conn \in Calls
        BY <3>1 DEF ReadBody, IInv, DaemonInv
      <4>2. shut' = shut \/ Closed(listener.conn, "daemon")
        BY <3>1 DEF ReadBody
      <4>3. QED
        BY <1>1, <4>1, <4>2, ClosedAt
    <3>2. CASE BodyEnd \/ Enqueue \/ Signal
      BY <3>2 DEF BodyEnd, Enqueue, Signal, streams
    <3>3. QED
      BY <1>6, <3>1, <3>2
  <2>3. Waiting(d) => Waiting(d)'
    BY <2>1 DEF Waiting
  <2>4. QED
    BY <2>1, <2>2, <2>3 DEF HandedOn
<1>7. QED
  BY <1>2, <1>4, <1>5, <1>6 DEF ListenerStep

LEMMA MainHands ==
  ASSUME MainStep \/ Spurious, NEW d \in Calls
  PROVE  HandedOn(d)
<1>1. UNCHANGED <<service, call, shut, backlog, listener, jobs, handler>>
  BY DEF MainStep, Spurious, Wait, TakeMessage, Drained, streams
<1>2. Waiting(d)' <=> Waiting(d)
  BY <1>1 DEF Waiting
<1>3. QED
  BY <1>1, <1>2 DEF HandedOn

\* A thread takes the first of the list, and the others stay in it.
LEMMA StartHands ==
  ASSUME IInv, StartJob, NEW d \in Calls
  PROVE  HandedOn(d)
<1>1. jobs \in Seq(Calls) /\ handler \in [Calls -> HandlerRecs] /\ jobs # <<>>
  BY TypeFacts DEF IInv, StartJob
<1>2. Head(jobs) \in Calls /\ Range(jobs) = Range(Tail(jobs)) \cup {Head(jobs)}
  BY <1>1, RangeFacts
<1>3. PICK c \in Calls : c = Head(jobs)
  BY <1>2
<1>4. /\ Set(c, "reading", <<>>, <<>>) /\ jobs' = Tail(jobs)
      /\ UNCHANGED <<service, call, shut, backlog, listener>>
  BY <1>3 DEF StartJob, streams
<1>5. handler'[c].at = "reading" /\ \A e \in Calls : e # c => handler'[e] = handler[e]
  BY <1>1, <1>4, SetAt
<1>6. (Waiting(d)' <=> Waiting(d)) /\ (d # c => (d \in Range(jobs) <=> d \in Range(jobs)'))
  BY <1>2, <1>3, <1>4 DEF Waiting
<1>7. QED
  BY <1>4, <1>5, <1>6 DEF HandedOn

\* The end of the daemon closes its end of every connection.
LEMMA DownHands ==
  ASSUME IInv, DaemonDown, NEW d \in Calls
  PROVE  HandedOn(d)
<1>1. /\ shut'[d] = (IF call[d].at = "idle" THEN shut[d] ELSE shut[d] \cup {"daemon"}) /\ handler'[d].at = "closed"
      /\ UNCHANGED <<service, call>>
  BY DEF DaemonDown, Idle
<1>2. QED
  BY <1>1 DEF HandedOn

\* A thread that leaves a request closes the daemon's end.
LEMMA HandlerHands ==
  ASSUME IInv, NEW c \in Calls, HandlerStep(c), NEW d \in Calls
  PROVE  HandedOn(d)
<1>1. handler \in [Calls -> HandlerRecs] /\ shut \in [Calls -> SUBSET {"client", "daemon"}]
  BY TypeFacts DEF IInv
<1>2. CASE ReplyKilled(c) \/ WorkCrashes(c)
  BY <1>2, DownHands DEF ReplyKilled, WorkCrashes
<1>3. CASE ~(ReplyKilled(c) \/ WorkCrashes(c))
  <2>1. /\ UNCHANGED <<service, call, backlog, listener, jobs>> /\ handler[c].at \notin {"none", "queued", "closed"}
    BY <1>3 DEF HandlerStep, HandlerRead, HandlerGivesUp, HandlerEnd, Work, WorkFails, SummaryFails, Reply
  <2>2. \/ shut' = shut /\ \E at \in {"working", "replying"} : \E got, left : Set(c, at, got, left)
        \/ Closed(c, "daemon") /\ Set(c, "closed", <<>>, <<>>)
    <3>1. CASE HandlerRead(c) \/ HandlerGivesUp(c)
      BY <3>1 DEF HandlerRead, HandlerGivesUp
    <3>2. CASE HandlerEnd(c)
      BY <3>2 DEF HandlerEnd
    <3>3. CASE Work(c) \/ WorkFails(c) \/ SummaryFails(c)
      BY <3>3 DEF Work, WorkFails, SummaryFails, streams
    <3>4. CASE Reply(c)
      BY <3>4 DEF Reply
    <3>5. QED
      BY <1>3, <3>1, <3>2, <3>3, <3>4 DEF HandlerStep
  <2>3. /\ \/ handler'[c].at \in {"working", "replying"} /\ shut' = shut
           \/ handler'[c].at = "closed" /\ shut'[c] = shut[c] \cup {"daemon"}
        /\ \A e \in Calls : e # c => handler'[e] = handler[e] /\ shut'[e] = shut[e]
    BY <1>1, <2>2, SetAt, ClosedAt
  <2>4. Waiting(d)' <=> Waiting(d)
    BY <2>1 DEF Waiting
  <2>5. QED
    BY <2>1, <2>3, <2>4 DEF HandedOn
<1>4. QED
  BY <1>2, <1>3

LEMMA HandedNext ==
  ASSUME IInv, \A c \in Calls : HandedInv(c), [Next]_vars
  PROVE  \A c \in Calls : HandedInv(c)'
<1> SUFFICES ASSUME NEW d \in Calls
             PROVE  HandedInv(d)'
  OBVIOUS
<1>1. CASE UNCHANGED vars
  <2>1. UNCHANGED <<service, call, shut, backlog, listener, jobs, handler>>
    BY <1>1 DEF vars
  <2>2. Waiting(d)' <=> Waiting(d)
    BY <2>1 DEF Waiting
  <2>3. HandedOn(d)
    BY <2>1, <2>2 DEF HandedOn
  <2>4. QED
    BY <2>3, HandedKept
<1>2. ASSUME NEW c \in Calls, NEW k, NEW short, Connect(c, k, short)
      PROVE  HandedInv(d)'
  BY <1>2, ConnectHands
<1>3. CASE Next /\ ~(\E c \in Calls, k \in AllKinds, short \in BOOLEAN : Connect(c, k, short))
  <2>1. KindsOf(service) \subseteq AllKinds
    BY DEF AllKinds, IInv, TypeOK
  <2>2. \/ \E c \in Calls : ClientStep(c) \/ Die(c) \/ HandlerStep(c)
        \/ ListenerStep \/ MainStep \/ Spurious \/ StartJob \/ Terminate
    BY <1>3, <2>1 DEF Next
  <2>3. HandedOn(d)
    BY <2>2, ClientHands, HandlerHands, ListenerHands, MainHands, StartHands, DownHands DEF Terminate
  <2>4. QED
    BY <2>3, HandedKept
<1>4. QED
  BY <1>1, <1>2, <1>3

\* A client that ends before the last send of its request has sent its header whole or nothing.
LEMMA HeaderWhole ==
  \A d \in Daemons : \A k \in KindsOf(d) :
     Wrote(d, k, NumSends(d, k) - 1) = <<>> \/ Len(Wrote(d, k, NumSends(d, k) - 1)) >= Len(Header[d])
<1>1. ASSUME NEW d \in Daemons, NEW k \in KindsOf(d), Len(Header[d]) = 1
      PROVE  Wrote(d, k, NumSends(d, k) - 1) = <<>> \/ Len(Wrote(d, k, NumSends(d, k) - 1)) >= Len(Header[d])
  <2> DEFINE w == Wrote(d, k, NumSends(d, k) - 1)
  <2>1. NumSends(d, k) - 1 \in 0..NumSends(d, k)
    BY WriteFacts
  <2>2. w \in Seq(Fields)
    BY <2>1, WriteFacts
  <2> HIDE DEF w
  <2>3. w = <<>> \/ Len(w) >= 1
    BY <2>2
  <2>4. QED
    BY <1>1, <2>3 DEF w
<1>2. ASSUME NEW rest \in Filled, NEW k, ClientOf["bfrd"][k].sends = Separately(BfrHeader \o rest)
      PROVE  Len(Wrote("bfrd", k, NumSends("bfrd", k) - 1)) >= Len(BfrHeader)
  <2> DEFINE f == BfrHeader \o rest
  <2>1. f \in Filled /\ Len(f) = Len(BfrHeader) + Len(rest) /\ Len(BfrHeader) \in Nat /\ Len(rest) \in Nat /\ Len(rest) > 0
    BY FilledFacts
  <2>2. ClientOf["bfrd"][k].sends = Separately(f)
    BY <1>2
  <2> HIDE DEF f
  <2>3. Len(Separately(f)) = Len(f) /\ Len(FlattenSeq(SubSeq(Separately(f), 1, Len(f) - 1))) = Len(f) - 1
    BY <2>1, SeparatelyFacts
  <2>4. Len(Wrote("bfrd", k, NumSends("bfrd", k) - 1)) = Len(f) - 1
    BY <2>2, <2>3 DEF Wrote, NumSends
  <2>5. QED
    BY <2>1, <2>4
<1>3. ASSUME NEW k \in KindsOf("bfrd")
      PROVE  Len(Wrote("bfrd", k, NumSends("bfrd", k) - 1)) >= Len(BfrHeader)
  <2>1. /\ <<"payload">> \in Filled /\ <<"name_len", "name", "hops">> \in Filled /\ <<"name_len", "name">> \in Filled
        /\ <<"distance">> \in Filled /\ Route \in Filled
    BY FilledFacts DEF Names, Filled
  <2>2. CASE k \in {"message", "location"}
    <3>1. ClientOf["bfrd"][k].sends = Separately(BfrHeader \o <<"payload">>)
      BY <2>2 DEF ClientOf, BfrClient, SendMsg, SendLoc, Call
    <3>2. QED
      BY <1>2, <2>1, <3>1
  <2>3. CASE k = "hops"
    <3>1. ClientOf["bfrd"][k].sends = Separately(BfrHeader \o <<"name_len", "name", "hops">>)
      BY <2>3 DEF ClientOf, BfrClient, SendDistance, Call
    <3>2. QED
      BY <1>2, <2>1, <3>1
  <2>4. CASE k = "forward"
    <3>1. ClientOf["bfrd"][k].sends = Separately(BfrHeader \o <<"name_len", "name">> \o Route \o <<"distance">>)
      BY <2>4 DEF ClientOf, BfrClient, SendQry, Call
    <3>2. <<"name_len", "name">> \o Route \o <<"distance">> \in Filled
      BY <2>1, FilledFacts
    <3>3. Cat(Cat(Cat(BfrHeader, <<"name_len", "name">>), Route), <<"distance">>)
            = Cat(BfrHeader, Cat(Cat(<<"name_len", "name">>, Route), <<"distance">>))
      <4>1. /\ <<"name_len", "name">> \in Seq(Names) /\ <<"distance">> \in Seq(Names)
            /\ Route \in Seq(Names) /\ BfrHeader \in Seq(Names)
        BY <2>1, FilledFacts
      <4>2. ASSUME NEW h \in Seq(Names), NEW n \in Seq(Names), NEW t \in Seq(Names), NEW l \in Seq(Names)
            PROVE  Cat(Cat(Cat(h, n), t), l) = Cat(h, Cat(Cat(n, t), l))
        BY CatAssociative
      <4> DEFINE name == <<"name_len", "name">>
                 far == <<"distance">>
      <4>3. name \in Seq(Names) /\ far \in Seq(Names)
        BY <4>1
      <4> HIDE DEF name, far
      <4>4. Cat(Cat(Cat(BfrHeader, name), Route), far) = Cat(BfrHeader, Cat(Cat(name, Route), far))
        BY <4>1, <4>2, <4>3
      <4>5. QED
        BY <4>4 DEF name, far
    <3>4. ClientOf["bfrd"][k].sends = Separately(BfrHeader \o (<<"name_len", "name">> \o Route \o <<"distance">>))
      BY <3>1, <3>3 DEF Cat
    <3>5. QED
      BY <1>2, <3>2, <3>4
  <2>5. CASE k = "where"
    <3>1. ClientOf["bfrd"][k].sends = Separately(BfrHeader \o <<"name_len", "name">>)
      BY <2>5 DEF ClientOf, BfrClient, SendWhere, Call
    <3>2. QED
      BY <1>2, <2>1, <3>1
  <2>6. CASE k = "distance"
    <3>1. ClientOf["bfrd"][k].sends = Separately(BfrHeader \o Route)
      BY <2>6 DEF ClientOf, BfrClient, QueryDistance, Call
    <3>2. QED
      BY <1>2, <2>1, <3>1
  <2>7. QED
    BY <2>2, <2>3, <2>4, <2>5, <2>6, KindFacts
<1>4. Len(Header["ccnud"]) = 1 /\ Len(Header["ccnfd"]) = 1 /\ Header["bfrd"] = BfrHeader
  BY HeaderFacts
<1>5. QED
  BY <1>1, <1>3, <1>4 DEF Daemons

\* A thread that gives up a short name has read two of the fields of its request.
LEMMA ShortFact ==
  \A d \in Daemons : \A k \in Pooled(d) \cap {"forward", "where"} : Len(HandlerOf[d][k].reads) >= 2
<1>1. <<"name_len", "name">> \in Filled /\ <<"distance">> \in Filled /\ Route \in Filled /\ Len(<<"name_len", "name">>) = 2
  BY FilledFacts DEF Names, Filled
<1>2. Len(HandlerOf["bfrd"]["where"].reads) = 2
  BY <1>1 DEF HandlerOf, BfrdHandlers, DestQueryResponse, Service
<1>3. HandlerOf["bfrd"]["forward"].reads = <<"name_len", "name">> \o Route \o <<"distance">>
  BY DEF HandlerOf, BfrdHandlers, FwdQueryResponse, Service
<1>4. Len(<<"name_len", "name">> \o Route \o <<"distance">>) >= 2
  <2> DEFINE a == <<"name_len", "name">>
             b == <<"distance">>
  <2>1. a \in Filled /\ b \in Filled /\ Len(a) = 2
    BY <1>1
  <2> HIDE DEF a, b
  <2>2. a \o Route \in Filled /\ Len(a \o Route) = 2 + Len(Route) /\ Len(Route) \in Nat /\ Len(b) \in Nat
    BY <1>1, <2>1, FilledFacts
  <2>3. Len((a \o Route) \o b) = Len(a \o Route) + Len(b)
    BY <2>1, <2>2, FilledFacts
  <2>4. Len((a \o Route) \o b) >= 2
    BY <2>2, <2>3
  <2>5. QED
    BY <2>4 DEF a, b
<1>5. \A d \in Daemons : "forward" \in Pooled(d) \/ "where" \in Pooled(d) => d = "bfrd"
  BY KindFacts DEF Daemons
<1>6. Len(HandlerOf["bfrd"]["where"].reads) >= 2 /\ Len(HandlerOf["bfrd"]["forward"].reads) >= 2
  BY <1>2, <1>3, <1>4
<1>7. QED
  BY <1>5, <1>6

\* A client that waits for its answer, or is done, has sent all of its request.
LEMMA WholeRequest ==
  ASSUME NEW d \in Daemons, NEW r, Sender(d, r), r.at \in {"receiving", "spinning", "done"}, NEW u,
         NEW m \in Nat, Unread(d, r, u, m)
  PROVE  Len(u) = Len(Wrote(d, r.kind, NumSends(d, r.kind))) - m
BY UnreadFacts

\* Nobody who serves a request waits for more of it once nobody sends.
LEMMA HandlersGoOn ==
  ASSUME IInv, NEW c \in Calls, HandedInv(c), call[c].at # "sending"
  PROVE  ~HandlerWaits(c)
<1> SUFFICES ASSUME HandlerWaits(c)
             PROVE  FALSE
  OBVIOUS
<1> DEFINE d == service
           r == call[c]
           k == handler[c].kind
           reads == HandlerOf[d][k].reads
<1>1. handler[c].at = "reading" /\ "client" \notin shut[c] /\ Len(up[c]) < IF GivesUp(c) THEN 2 ELSE Len(reads)
  BY DEF HandlerWaits, Script
<1>2. d \in Daemons /\ CallInv(c) /\ call[c].at # "idle" /\ Sender(d, r) /\ k \in Pooled(d) /\ call \in [Calls -> CallRecs]
  BY <1>1, ServedFacts, TypeFacts DEF Served
<1>3. k = r.kind /\ Unread(d, r, up[c], Len(Header[d]))
  BY <1>1, <1>2 DEF CallInv, RequestInv, Nothing
<1>4. r.at \in {"receiving", "spinning", "done"}
  BY <1>1, <1>2 DEF HandedInv, CallRecs, CallAts
<1>5. Len(Wrote(d, k, NumSends(d, k))) = Len(Header[d]) + Len(reads) /\ Len(Header[d]) \in Nat /\ reads \in Seq(Fields)
  BY <1>2, AskFacts
<1>6. Len(up[c]) = Len(Wrote(d, k, NumSends(d, k))) - Len(Header[d])
  <2> HIDE DEF d, r, reads
  <2>1. QED
    BY <1>2, <1>3, <1>4, <1>5, WholeRequest
<1>7. GivesUp(c) => Len(reads) >= 2
  BY <1>2, ShortFact DEF GivesUp
<1> HIDE DEF d, k, reads
<1>8. Len(up[c]) = Len(reads) /\ Len(reads) \in Nat
  BY <1>5, <1>6
<1>9. QED
  BY <1>1, <1>7, <1>8

\* Nor does the listener wait for more of one.
LEMMA ListenerGoesOn ==
  ASSUME IInv, \A c \in Calls : HandedInv(c) /\ call[c].at # "sending", ListenerWaits
  PROVE  listener.at = "accept" /\ backlog = <<>>
<1> SUFFICES ASSUME listener.at \in {"header", "body"}
             PROVE  FALSE
  BY DEF ListenerWaits
<1> DEFINE c == listener.conn
           d == service
           r == call[c]
           k == r.kind
           all == Wrote(d, k, NumSends(d, k))
<1>1. /\ c \in Calls /\ CallInv(c) /\ d \in Daemons /\ Sender(d, r)
      /\ listener.at = "header" => Unread(d, r, up[c], 0)
      /\ listener.at = "body" => k \notin Pooled(d) /\ Unread(d, r, up[c], Len(Header[d]))
  BY InHandFacts
<1>2. /\ call \in [Calls -> CallRecs] /\ up \in [Calls -> Seq(Fields)] /\ HandedInv(c) /\ r.at # "sending" /\ LineInv
  BY <1>1, TypeFacts DEF IInv
<1>3. r.at \in {"receiving", "spinning", "done"} \/ (r.at \in {"dead", "killed"} /\ "client" \in shut[c])
  <2>1. r.at # "idle"
    BY <1>2 DEF LineInv, Lined, Hand
  <2>2. r \in CallRecs
    BY <1>1, <1>2
  <2>3. QED
    BY <1>2, <2>1, <2>2 DEF HandedInv, CallRecs, CallAts
<1>4. k \in KindsOf(d) /\ Len(Header[d]) \in Nat /\ Len(all) > Len(Header[d])
  <2>1. k \in KindsOf(d)
    BY <1>1 DEF Sender
  <2>2. CASE k \in Pooled(d)
    <3> DEFINE reads == HandlerOf[d][k].reads
    <3>1. /\ Len(all) = Len(Header[d]) + Len(reads) /\ Len(Header[d]) \in Nat
          /\ reads \in Seq(Fields) /\ reads # <<>>
      BY <1>1, <2>2, AskFacts
    <3> HIDE DEF reads, all
    <3>2. Len(reads) \in Nat /\ Len(reads) > 0
      BY <3>1
    <3>3. QED
      BY <2>1, <3>1, <3>2
  <2>3. CASE k \notin Pooled(d)
    BY <1>1, <2>1, <2>3, TellFacts
  <2>4. QED
    BY <2>2, <2>3
<1>5. CASE listener.at = "body"
  <2>1. up[c] = <<>> /\ "client" \notin shut[c]
    BY <1>5 DEF ListenerWaits
  <2>2. r.at \in {"receiving", "spinning", "done"}
    BY <1>3, <2>1
  <2>3. Len(up[c]) = Len(all) - Len(Header[d])
    <3>1. PICK h \in Nat : h = Len(Header[d])
      BY <1>4
    <3>2. Unread(d, r, up[c], h) /\ Sender(d, r) /\ d \in Daemons
      BY <1>1, <1>5, <3>1
    <3> HIDE DEF d, r, c
    <3>3. Len(up[c]) = Len(all) - h
      BY <2>2, <3>2, WholeRequest
    <3>4. QED
      BY <3>1, <3>3
  <2>4. Len(up[c]) > 0
    <3> HIDE DEF all, d, c
    <3>1. Len(all) - Len(Header[d]) \in Int /\ Len(all) - Len(Header[d]) > 0
      <4>1. Len(all) \in Nat
        BY <1>1, <1>4, WriteFacts DEF all
      <4>2. QED
        BY <1>4, <4>1
    <3>2. QED
      BY <2>3, <3>1
  <2>5. QED
    BY <2>1, <2>4
<1>6. CASE listener.at = "header"
  <2>1. Len(up[c]) < Len(Header[d]) /\ ~("client" \in shut[c] /\ up[c] = <<>>)
    BY <1>6 DEF ListenerWaits
  <2>2. CASE r.at \in {"receiving", "spinning", "done"}
    <3>1. Len(up[c]) = Len(all) - 0
      <4> HIDE DEF d, r, c
      <4>1. QED
        BY <1>1, <1>6, <2>2, WholeRequest
    <3>2. Len(all) \in Nat
      BY <1>1, <1>4, WriteFacts
    <3>3. QED
      BY <1>4, <2>1, <3>1, <3>2
  <2>3. CASE r.at \in {"dead", "killed"} /\ "client" \in shut[c]
    <3>1. up[c] # <<>>
      BY <2>1, <2>3
    <3>2. PICK n \in 0..NumSends(d, k) : SentBy(d, r, n) /\ up[c] = Drop(Wrote(d, k, n), 0)
      BY <1>1, <1>6 DEF Unread
    <3>3. NumSends(d, k) \in Nat /\ Wrote(d, k, n) \in Seq(Fields) /\ Wrote(d, k, 0) = <<>> /\ Len(all) \in Nat
      BY <1>1, <1>4, WriteFacts
    <3>4. up[c] = Wrote(d, k, n)
      BY <3>2, <3>3, DropFacts
    <3>5. n \in {0, NumSends(d, k) - 1, NumSends(d, k)}
      BY <3>2 DEF SentBy
    <3>6. Len(Wrote(d, k, n)) >= Len(Header[d])
      <4>1. CASE n = NumSends(d, k)
        BY <1>4, <3>3, <4>1
      <4>2. CASE n = NumSends(d, k) - 1
        BY <1>1, <1>4, <3>1, <3>4, <4>2, HeaderWhole
      <4>3. QED
        BY <3>1, <3>3, <3>4, <3>5, <4>1, <4>2
    <3>7. Len(up[c]) \in Nat /\ Len(up[c]) >= Len(Header[d])
      BY <3>3, <3>4, <3>6
    <3>8. QED
      BY <1>4, <2>1, <3>7
  <2>4. QED
    BY <1>3, <2>2, <2>3
<1>7. QED
  BY <1>5, <1>6

LEMMA SomebodyGoesOn ==
  ASSUME IInv, \A c \in Calls : HandedInv(c)
  PROVE  NobodyLeftWaiting
<1> SUFFICES ASSUME NobodyGoesOn, NEW c \in Calls, call[c].at = "receiving"
             PROVE  FALSE
  BY DEF NobodyLeftWaiting
<1>1. \A d \in Calls : HandedInv(d) /\ call[d].at # "sending"
  BY DEF NobodyGoesOn
<1>2. listener.at = "accept" /\ backlog = <<>>
  BY <1>1, ListenerGoesOn DEF NobodyGoesOn
<1>3. Busy = {}
  <2>1. \A d \in Calls : ~HandlerWaits(d)
    BY <1>1, HandlersGoOn
  <2>2. QED
    BY <2>1 DEF NobodyGoesOn, Busy
<1>4. TypeOK /\ CallInv(c) /\ service \in Daemons /\ handler \in [Calls -> HandlerRecs] /\ jobs \in Seq(Calls)
  BY TypeFacts DEF IInv, TypeOK
<1>5. jobs = <<>>
  <2>1. Cardinality({}) = 0
    BY FS_EmptySet
  <2>2. PoolSize[service] \in Nat /\ PoolSize[service] > 0
    BY <1>4 DEF PoolSize, Daemons
  <2>3. QED
    BY <1>3, <2>1, <2>2 DEF NobodyGoesOn
<1>6. call[c].kind \in Pooled(service)
  <2>1. Client(c).awaits # <<>> /\ call[c].kind \in KindsOf(service)
    BY <1>4 DEF CallInv, AnswerInv, ClientInv
  <2>2. QED
    BY <1>4, <2>1, TellFacts DEF Client
<1>7. Range(backlog) = {} /\ Range(jobs) = {}
  BY <1>2, <1>4, <1>5, RangeFacts
<1>8. handler[c].at # "none" /\ handler[c].at # "queued"
  BY <1>1, <1>2, <1>6, <1>7 DEF HandedInv, Waiting
<1>9. handler[c].at \notin {"reading", "working", "replying"}
  BY <1>3 DEF Busy
<1>10. handler[c].at = "closed"
  BY <1>4, <1>8, <1>9 DEF HandlerRecs, HandlerAts
<1>11. "daemon" \in shut[c]
  BY <1>1, <1>10 DEF HandedInv
<1>12. QED
  BY <1>11 DEF NobodyGoesOn, ClientWaits

LEMMA HandedAlways == Spec => [](\A c \in Calls : HandedInv(c))
<1>1. Init => \A c \in Calls : HandedInv(c)
  BY HandedInit
<1>2. IInv /\ (\A c \in Calls : HandedInv(c)) /\ [Next]_vars => (\A c \in Calls : HandedInv(c))'
  BY HandedNext
<1>3. QED
  BY <1>1, <1>2, Inductive, PTL DEF Spec

-----------------------------------------------------------------------------
(* The theorems.                                                           *)

\* Options and locations are applied by the main thread in the order in which they were set: whoever waits
\* for one call to return before the next can rely on it, for any number of clients and calls.
THEOREM OrderKept == Spec => []AppliedInOrder
<1>1. IInv => AppliedInOrder
  BY DEF IInv, LineInv, InOrder, AppliedInOrder
<1>2. QED
  BY <1>1, Inductive, PTL

\* While some client waits for an answer some client, some thread of the pool or the listener can go on, for any
\* number of clients and any pool: a client never waits for a thread that waits for it, nor for a listener or
\* a pool that is kept by a client that will send no more.
THEOREM StreamsGoOn == Spec => []NobodyLeftWaiting
<1>1. IInv /\ (\A c \in Calls : HandedInv(c)) => NobodyLeftWaiting
  BY SomebodyGoesOn
<1>2. QED
  BY <1>1, Inductive, HandedAlways, PTL

\* What a handler takes for a request is the request its client sent, field by field, whatever the length of
\* a segment and however its sends and the end of its client fall, unless it is garbled; a client that
\* returns 0 has its answer and has left nothing of it unread; and none is left waiting.
THEOREM StreamsUnderstood == Spec => []StreamInv
<1>1. IInv => TypeOK /\ RequestsUnderstood /\ AnswersUnderstood
  <2> SUFFICES ASSUME IInv
               PROVE  TypeOK /\ RequestsUnderstood /\ AnswersUnderstood
    OBVIOUS
  <2>1. RequestsUnderstood
    BY DEF IInv, CallInv, RequestInv, Understood, RequestsUnderstood
  <2>2. AnswersUnderstood
    BY DEF IInv, CallInv, ReturnInv, AnswersUnderstood
  <2>3. QED
    BY <2>1, <2>2 DEF IInv
<1>2. TypeOK /\ RequestsUnderstood /\ AnswersUnderstood /\ NobodyLeftWaiting => StreamInv
  BY DEF StreamInv
<1>3. QED
  BY <1>1, <1>2, Inductive, StreamsGoOn, PTL

\* No client of a daemon that runs is killed by its socket, or receives for ever, but one that asks bfrd
\* about a short name: the daemon closes its end before its client does nowhere else while the client sends.
THEOREM DaemonSparesClients == Spec => []ClientsSurvive
<1>1. IInv => ClientsSurvive
  BY DEF IInv, CallInv, EndInv, ClientsSurvive
<1>2. QED
  BY <1>1, Inductive, PTL

\* A message nobody answers is not lost between the listener and the main thread of a daemon that runs.
THEOREM MessagesKept == Spec => []OthersKept
<1>1. IInv => OthersKept
  <2> SUFFICES ASSUME IInv, NEW c \in Calls,
                      alive, call[c].rv = "ok", call[c].kind # "hops", Client(c).awaits = <<>>
               PROVE  Kept(c)
    BY DEF OthersKept
  <2>1. CallInv(c)
    BY DEF IInv
  <2>2. performed[c] = 1 \/ InLine(c)
    BY <2>1 DEF CallInv, ClientInv, UpdateInv
  <2>3. Hand \subseteq {listener.conn}
    BY DEF Hand
  <2>4. QED
    BY <2>2, <2>3 DEF InLine, Kept
<1>2. QED
  BY <1>1, Inductive, PTL

-----------------------------------------------------------------------------
(* The abstract service.                                                   *)

LEMMA SameView ==
  ASSUME \A d \in Calls : call'[d].kind = call[d].kind /\ Result(d)' = Result(d), performed' = performed
  PROVE  UNCHANGED Abstract!serviceVars
BY DEF MadeAs, Results, Abstract!serviceVars

LEMMA QuietView ==
  ASSUME call' = call, performed' = performed
  PROVE  UNCHANGED Abstract!serviceVars
<1>1. \A d \in Calls : call'[d].kind = call[d].kind /\ Result(d)' = Result(d)
  BY DEF Result
<1>2. QED
  BY <1>1, SameView

\* A client that moves on without a result, or with one.
LEMMA MovedView ==
  ASSUME NEW c \in Calls, NEW at, NEW sent, NEW got, NEW rv, Moved(c, at, sent, got, rv),
         call[c].at # "done", performed' = performed
  PROVE  /\ at # "done" => UNCHANGED Abstract!serviceVars
         /\ at = "done" => /\ MadeAs' = MadeAs /\ Results[c] = "none" /\ Results' = [Results EXCEPT ![c] = rv]
<1>1. /\ call'[c].kind = call[c].kind /\ call'[c].at = at /\ call'[c].rv = rv
      /\ \A d \in Calls : d # c => call'[d] = call[d]
  BY DEF Moved, Turn
<1>2. /\ \A d \in Calls : call'[d].kind = call[d].kind
      /\ \A d \in Calls : d # c => Result(d)' = Result(d)
      /\ Result(c) = "none" /\ Result(c)' = IF at = "done" THEN rv ELSE "none"
  BY <1>1 DEF Result
<1>3. at # "done" => UNCHANGED Abstract!serviceVars
  BY <1>2, SameView
<1>4. MadeAs' = MadeAs
  BY <1>2 DEF MadeAs
<1>5. ASSUME at = "done"
      PROVE  Results[c] = "none" /\ Results' = [Results EXCEPT ![c] = rv]
  BY <1>2, <1>5 DEF Results
<1>6. QED
  BY <1>3, <1>4, <1>5

\* A call that was made has a kind; its caller waits for an answer in all daemons or in none.
LEMMA MadeFacts ==
  ASSUME IInv, NEW c \in Calls, call[c].at # "idle"
  PROVE  /\ MadeAs[c] # NoKind /\ MadeAs[c] = call[c].kind
         /\ MadeAs[c] \in AnsweredKinds => Client(c).awaits # <<>> /\ call[c].kind # "distance"
<1>1. service \in Daemons /\ call[c].kind \in KindsOf(service) /\ MadeAs[c] = call[c].kind
  BY DEF IInv, TypeOK, CallInv, ClientInv, MadeAs
<1>2. call[c].kind \in AllKinds
  BY <1>1 DEF AllKinds
<1>3. ASSUME MadeAs[c] \in AnsweredKinds
      PROVE  Client(c).awaits # <<>> /\ call[c].kind # "distance"
  <2> DEFINE k == call[c].kind
             e == service
  <2>1. k # "distance" /\ e \in Daemons /\ k \in KindsOf(e)
    BY <1>1, <1>3 DEF AnsweredKinds
  <2>2. PICK d \in Daemons : k \in KindsOf(d) /\ ClientOf[d][k].awaits # <<>>
    BY <1>1, <1>3 DEF AnsweredKinds
  <2> HIDE DEF k, e
  <2>3. ClientOf[e][k].awaits # <<>>
    BY <2>1, <2>2, KindsAgree, AwaitsFacts
  <2>4. QED
    BY <2>1, <2>3 DEF Client, k, e
<1>4. QED
  BY <1>1, <1>2, <1>3, KindsAssumption

LEMMA SucceedView ==
  ASSUME IInv, NEW c \in Calls, NEW sent, NEW got, Moved(c, "done", sent, got, "ok"),
         call[c].at \notin {"idle", "done"}, performed' = performed,
         Client(c).awaits = <<>> \/ call[c].kind = "distance" \/ performed[c] = 1
  PROVE  Abstract!Succeed(c)
<1>1. MadeAs' = MadeAs /\ Results[c] = "none" /\ Results' = [Results EXCEPT ![c] = "ok"]
  BY MovedView
<1>2. MadeAs[c] # NoKind /\ (MadeAs[c] \in AnsweredKinds => performed[c] = 1)
  BY MadeFacts
<1>3. QED
  BY <1>1, <1>2 DEF Abstract!Succeed

LEMMA FailView ==
  ASSUME IInv, NEW c \in Calls, NEW sent, NEW got, Moved(c, "done", sent, got, "failed"),
         call[c].at \notin {"idle", "done"}, performed' = performed
  PROVE  Abstract!Fail(c)
<1>1. MadeAs' = MadeAs /\ Results[c] = "none" /\ Results' = [Results EXCEPT ![c] = "failed"]
  BY MovedView
<1>2. MadeAs[c] # NoKind
  BY MadeFacts
<1>3. QED
  BY <1>1, <1>2 DEF Abstract!Fail

LEMMA ConnectView ==
  ASSUME IInv, NEW c \in Calls, NEW k \in KindsOf(service), NEW short \in BOOLEAN, Connect(c, k, short)
  PROVE  Abstract!Make(c, k) \/ Abstract!Refuse(c, k)
<1> DEFINE at == IF alive THEN "sending" ELSE "done"
           rv == IF alive THEN "none" ELSE "failed"
<1>1. /\ call[c].at = "idle" /\ performed' = performed
      /\ call' = [call EXCEPT ![c].kind = k, ![c].short = short, ![c].at = at, ![c].rv = rv]
      /\ call \in [Calls -> CallRecs] /\ call[c] \in CallRecs /\ CallInv(c)
  BY TypeFacts DEF Connect, IInv
<1>2. call[c].kind = NoKind
  BY <1>1 DEF CallInv, ClientInv
<1> HIDE DEF at, rv
<1>3. call'[c].kind = k /\ call'[c].at = at /\ call'[c].rv = rv /\ \A d \in Calls : d # c => call'[d] = call[d]
  <2>1. call'[c] = [call[c] EXCEPT !.kind = k, !.short = short, !.at = at, !.rv = rv]
        /\ \A d \in Calls : d # c => call'[d] = call[d]
    BY <1>1
  <2>2. QED
    BY <1>1, <2>1 DEF CallRecs
<1>4. MadeAs[c] = NoKind /\ MadeAs' = [MadeAs EXCEPT ![c] = k]
  BY <1>2, <1>3 DEF MadeAs
<1>5. Results' = [Results EXCEPT ![c] = IF alive THEN "none" ELSE "failed"] /\ Results[c] = "none"
  <2>1. \A d \in Calls : d # c => Result(d)' = Result(d)
    BY <1>3 DEF Result
  <2>2. Result(c) = "none" /\ Result(c)' = IF alive THEN "none" ELSE "failed"
    BY <1>1, <1>3 DEF Result, at, rv
  <2>3. QED
    BY <2>1, <2>2 DEF Results
<1>6. CASE alive
  <2>1. Results' = Results
    BY <1>5, <1>6 DEF Results
  <2>2. QED
    BY <1>1, <1>4, <2>1 DEF Abstract!Make
<1>7. CASE ~alive
  BY <1>1, <1>4, <1>5, <1>7 DEF Abstract!Refuse
<1>8. QED
  BY <1>6, <1>7

LEMMA ClientView ==
  ASSUME IInv, NEW c \in Calls, ClientStep(c) \/ Die(c)
  PROVE  Abstract!Succeed(c) \/ Abstract!Fail(c) \/ UNCHANGED Abstract!serviceVars
<1>0. call \in [Calls -> CallRecs] /\ call[c] \in CallRecs
  BY TypeFacts DEF IInv
<1>1. CASE Send(c)
  <2>1. /\ call[c].at = "sending" /\ performed' = performed
        /\ \E n : \/ Moved(c, "sending", n, <<>>, "none")
                  \/ Moved(c, "receiving", 0, <<>>, "none")
                  \/ Client(c).awaits = <<>> /\ Moved(c, "done", 0, <<>>, "ok")
    BY <1>1, SendStep DEF history
  <2>2. QED
    BY <2>1, MovedView, SucceedView
<1>2. CASE Receive(c)
  <2>1. /\ call[c].at = "receiving" /\ performed' = performed
        /\ \/ performed[c] = 1 /\ Moved(c, "done", call[c].sent, Client(c).awaits, "ok")
           \/ \E got : Moved(c, "done", call[c].sent, got, "failed")
    BY <1>2, ReceiveStep DEF history
  <2>2. QED
    BY <2>1, SucceedView, FailView
<1>3. CASE ReceiveForEver(c)
  <2>1. /\ call[c].at = "receiving" /\ performed' = performed /\ call' = [call EXCEPT ![c].at = "spinning"]
    BY <1>3 DEF ReceiveForEver, history
  <2>2. \A d \in Calls : call'[d].kind = call[d].kind /\ Result(d)' = Result(d)
    <3>1. call'[c] = [call[c] EXCEPT !.at = "spinning"] /\ \A d \in Calls : d # c => call'[d] = call[d]
      BY <1>0, <2>1
    <3>2. call'[c].kind = call[c].kind /\ call'[c].at = "spinning"
      BY <1>0, <3>1 DEF CallRecs
    <3>3. QED
      BY <2>1, <3>1, <3>2 DEF Result
  <2>3. QED
    BY <2>1, <2>2, SameView
<1>4. CASE ReceiveEnd(c)
  <2>1. "done" \in CallAts /\ call[c].at = "receiving" /\ performed' = performed
    BY <1>4 DEF ReceiveEnd, history, CallAts
  <2>2. CASE Finish(c, "done", "failed")
    <3>1. Moved(c, "done", 0, call[c].got, "failed")
      BY <1>0, <2>1, <2>2, FinishStep
    <3>2. QED
      BY <2>1, <3>1, FailView
  <2>3. CASE call[c].kind = "distance" /\ Finish(c, "done", "ok")
    <3>1. Moved(c, "done", 0, call[c].got, "ok")
      BY <1>0, <2>1, <2>3, FinishStep
    <3>2. QED
      BY <2>1, <2>3, <3>1, SucceedView
  <2>4. QED
    BY <1>4, <2>2, <2>3 DEF ReceiveEnd
<1>5. CASE SendKilled(c) \/ Die(c)
  <2>1. PICK at \in {"killed", "dead"} : Finish(c, at, "none")
    BY <1>5 DEF SendKilled, Die
  <2>2. call[c].at # "done" /\ performed' = performed /\ at \in CallAts
    BY <1>5 DEF SendKilled, Die, history, CallAts
  <2>3. Moved(c, at, 0, call[c].got, "none")
    BY <1>0, <2>1, <2>2, FinishStep
  <2>4. QED
    BY <2>2, <2>3, MovedView
<1>6. QED
  BY <1>1, <1>2, <1>3, <1>4, <1>5 DEF ClientStep

\* A call is carried out by its job or by the main thread, and never by both.
LEMMA PerformView ==
  ASSUME IInv, NEW c \in Calls, call[c].at # "idle", call' = call, performed[c] = 0,
         performed' = [performed EXCEPT ![c] = performed[c] + 1]
  PROVE  Abstract!Perform(c)
<1>1. MadeAs[c] # NoKind
  BY MadeFacts
<1>2. MadeAs' = MadeAs
  BY DEF MadeAs
<1>3. Results' = Results
  BY DEF Results, Result
<1>4. performed' = [performed EXCEPT ![c] = 1]
  OBVIOUS
<1>5. QED
  BY <1>1, <1>2, <1>3, <1>4 DEF Abstract!Perform

LEMMA WorkView ==
  ASSUME IInv, NEW c \in Calls, Work(c)
  PROVE  Abstract!Perform(c) \/ UNCHANGED Abstract!serviceVars
<1>1. /\ handler[c].at = "working" /\ call' = call
      /\ performed' = [performed EXCEPT ![c] = IF Garbled(c) THEN performed[c] ELSE performed[c] + 1]
  BY DEF Work
<1>2. handler[c].at \in Served
  BY <1>1 DEF Served
<1>3. CallInv(c) /\ call[c].at # "idle" /\ performed \in [Calls -> 0..1]
  BY <1>2, ServedFacts
<1>4. performed[c] = 0
  BY <1>1, <1>3 DEF CallInv, PerformedInv
<1>5. CASE Garbled(c)
  <2>1. performed' = performed
    BY <1>1, <1>3, <1>5
  <2>2. QED
    BY <1>1, <2>1, QuietView
<1>6. CASE ~Garbled(c)
  BY <1>1, <1>3, <1>4, <1>6, PerformView
<1>7. QED
  BY <1>5, <1>6

LEMMA TakeView ==
  ASSUME IInv, TakeMessage
  PROVE  (\E c \in Calls : Abstract!Perform(c)) \/ UNCHANGED Abstract!serviceVars
<1> DEFINE first == Head(queue)
<1>1. /\ queue # <<>> /\ queue \in Seq(Calls) /\ call' = call
      /\ IF IsUpdate(first) THEN performed' = [performed EXCEPT ![first] = performed[first] + 1]
         ELSE performed' = performed
  BY TypeFacts DEF TakeMessage, IInv
<1>2. first \in Calls /\ first \in Range(queue)
  BY <1>1, RangeFacts
<1>3. /\ call[first].at # "idle" /\ CallInv(first) /\ alive /\ first \notin Range(applied)
  <2>1. alive
    BY <1>1 DEF IInv, DaemonInv
  <2>2. first \in Lined
    BY <1>2 DEF Lined
  <2>3. QED
    BY <1>2, <2>1, <2>2 DEF IInv, LineInv, Precede
<1> HIDE DEF first
<1>4. CASE IsUpdate(first)
  <2>1. handler[first].at = "none" /\ performed[first] = 0
    BY <1>3, <1>4 DEF IsUpdate, CallInv, HandlerInv, PerformedInv
  <2>2. QED
    BY <1>1, <1>2, <1>3, <1>4, <2>1, PerformView
<1>5. CASE ~IsUpdate(first)
  BY <1>1, <1>5, QuietView
<1>6. QED
  BY <1>4, <1>5

\* A call is carried out at most once, and one that waits for its answer has been carried out when it returns
\* 0, whatever threads, sends, deaths of clients and the end of the daemon fall between.
THEOREM CallsAreServed == Spec => ImplementsCalls
<1>1. Init => Abstract!Init
  <2> SUFFICES ASSUME Init
               PROVE  Abstract!Init
    OBVIOUS
  <2>1. /\ call = [c \in Calls |-> [at |-> "idle", kind |-> NoKind, short |-> FALSE, sent |-> 0, got |-> <<>>,
                                    rv |-> "none"]]
        /\ performed = [c \in Calls |-> 0]
    BY DEF Init
  <2>2. MadeAs = [c \in Calls |-> NoKind] /\ Results = [c \in Calls |-> "none"]
    BY <2>1 DEF MadeAs, Results, Result
  <2>3. QED
    BY <2>1, <2>2 DEF Abstract!Init
<1>2. IInv /\ [Next]_vars => [Abstract!Next]_Abstract!serviceVars
  <2> SUFFICES ASSUME IInv, [Next]_vars
               PROVE  [Abstract!Next]_Abstract!serviceVars
    OBVIOUS
  <2>1. CASE UNCHANGED vars
    BY <2>1, QuietView DEF vars
  <2>2. ASSUME NEW c \in Calls, NEW k \in KindsOf(service) \cap Made[c], NEW short \in BOOLEAN, Connect(c, k, short)
        PROVE  Abstract!Next
    <3>1. k \in AllKinds
      BY DEF AllKinds, IInv, TypeOK
    <3>2. QED
      BY <2>2, <3>1, ConnectView DEF Abstract!Next
  <2>3. ASSUME NEW c \in Calls, ClientStep(c) \/ Die(c)
        PROVE  [Abstract!Next]_Abstract!serviceVars
    BY <2>3, ClientView DEF Abstract!Next
  <2>4. ASSUME NEW c \in Calls, HandlerStep(c)
        PROVE  [Abstract!Next]_Abstract!serviceVars
    <3>1. CASE Work(c)
      BY <3>1, WorkView DEF Abstract!Next
    <3>2. CASE HandlerRead(c) \/ HandlerGivesUp(c) \/ HandlerEnd(c) \/ WorkFails(c) \/ SummaryFails(c) \/ Reply(c)
      BY <3>2, QuietView
         DEF HandlerRead, HandlerGivesUp, HandlerEnd, WorkFails, SummaryFails, Reply, history
    <3>3. CASE ReplyKilled(c) \/ WorkCrashes(c)
      BY <3>3, QuietView DEF ReplyKilled, WorkCrashes, DaemonDown, history
    <3>4. QED
      BY <2>4, <3>1, <3>2, <3>3 DEF HandlerStep
  <2>5. CASE ListenerStep \/ Wait \/ Drained \/ Spurious \/ StartJob \/ Terminate
    BY <2>5, QuietView
       DEF ListenerStep, Accept, ReadHeader, HeaderEnd, ReadBody, BodyEnd, Enqueue, Signal, Wait, Drained, Spurious,
           StartJob, Terminate, DaemonDown, history
  <2>6. CASE TakeMessage
    BY <2>6, TakeView DEF Abstract!Next
  <2>7. QED
    <3>1. CASE Next
      BY <3>1, <2>2, <2>3, <2>4, <2>5, <2>6 DEF Next, MainStep
    <3>2. QED
      BY <2>1, <3>1
<1>3. QED
  BY <1>1, <1>2, Inductive, PTL DEF Spec, ImplementsCalls, Abstract!Spec
=============================================================================

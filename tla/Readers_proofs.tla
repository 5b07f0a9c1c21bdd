--------------------------- MODULE Readers_proofs ---------------------------
(***************************************************************************)
(* Proofs about Readers: LogLines for outputs of any length, cut into      *)
(* chunks anywhere, and ZipEntries for archives of any number of entries,  *)
(* paths of any length and any limit of their size.                        *)
(*                                                                         *)
(* A text and a path are read from left to right, each character and each  *)
(* segment by one step.  What is read of a longer one is found from what   *)
(* is read of a shorter one, by the induction that InductionUpTo and       *)
(* SequenceInduction state for sets.                                       *)
(***************************************************************************)
EXTENDS Readers, SequenceTheorems, FiniteSetTheorems, TLAPS

-----------------------------------------------------------------------------
(* Induction.                                                              *)

\* A set that has 0, and after each number below n the next one, has all up to n: the
\* smallest that it had not would be the next of one that it has.
LEMMA InductionUpTo ==
  ASSUME NEW n \in Nat, NEW S, 0 \in S, \A k \in 0 .. n - 1 : k \in S => k + 1 \in S
  PROVE  0 .. n \subseteq S
<1> DEFINE T == {k \in 0 .. n : k \notin S}
<1>1. CASE T = {}
  BY <1>1
<1>2. CASE T # {}
  <2>1. T \subseteq Nat
    OBVIOUS
  <2> HIDE DEF T
  <2>2. PICK m \in T : \A k \in T : <<k, m>> \notin OpToRel(<, Nat)
    BY <1>2, <2>1, WFMin, NatLessThanWellFounded
  <2>3. \A k \in T : ~(k < m)
    BY <2>1, <2>2 DEF OpToRel
  <2>4. m \in 1 .. n /\ m - 1 \in 0 .. n - 1 /\ m - 1 + 1 = m
    BY DEF T
  <2>5. m - 1 \in S
    BY <2>3, <2>4 DEF T
  <2> QED
    BY <2>4, <2>5 DEF T
<1> QED
  BY <1>1, <1>2

\* A set that has the empty sequence, and with each sequence all that are longer by one,
\* has all of them.
LEMMA SequenceInduction ==
  ASSUME NEW A, NEW S, <<>> \in S, \A t \in Seq(A), c \in A : t \in S => Append(t, c) \in S
  PROVE  Seq(A) \subseteq S
<1> SUFFICES ASSUME NEW x \in Seq(A) PROVE x \in S
  OBVIOUS
<1> DEFINE n == Len(x)
           T == {k \in 0 .. n : SubSeq(x, 1, k) \in S}
<1>1. n \in Nat /\ \A i \in 1 .. n : x[i] \in A
  BY LenProperties, ElementOfSeq
<1>2. 0 \in T
  <2>1. SubSeq(x, 1, 0) = <<>>
    BY SubSeqEmpty
  <2>2. 0 \in 0 .. n
    BY <1>1
  <2> HIDE DEF n
  <2> QED
    BY <2>1, <2>2
<1>3. ASSUME NEW k \in 0 .. n - 1, k \in T  PROVE k + 1 \in T
  <2>1. 1 \in 1 .. n /\ k + 1 \in 1 .. n /\ k + 1 - 1 = k /\ k + 1 \in 0 .. n
    BY <1>1
  <2>2. SubSeq(x, 1, k) \in Seq(A)
    <3>1. 1 \in Int /\ k \in Int /\ \A i \in 1 .. k : x[i] \in A
      BY <1>1
    <3> QED
      BY <3>1, SubSeqProperties
  <2>3. SubSeq(x, 1, k + 1) = SubSeq(x, 1, k) \o <<x[k + 1]>>
    BY <2>1, SubSeqRecursiveSecond
  <2>4. SubSeq(x, 1, k + 1) = Append(SubSeq(x, 1, k), x[k + 1])
    BY <1>1, <2>1, <2>2, <2>3, AppendIsConcat
  <2> QED
    BY <1>1, <1>3, <2>1, <2>2, <2>4
<1> HIDE DEF T
<1>4. n \in T
  <2>1. 0 .. n \subseteq T
    BY <1>1, <1>2, <1>3, InductionUpTo
  <2>2. n \in 0 .. n
    BY <1>1
  <2> QED
    BY <2>1, <2>2
<1>5. SubSeq(x, 1, n) = x
  BY SubSeqFull
<1> QED
  BY <1>4, <1>5 DEF T

\* Numbers up to n have a largest one.
LEMMA MaxOfNumbers ==
  ASSUME NEW n \in Nat, NEW s \in SUBSET (0 .. n), s # {}
  PROVE  Max(s) \in s /\ \A y \in s : Max(s) >= y
<1> DEFINE T == {k \in Nat : \E x \in s : n - x = k}
<1>1. T # {} /\ T \subseteq Nat
  <2>1. PICK x \in s : TRUE
    OBVIOUS
  <2>2. x \in 0 .. n /\ n - x \in Nat
    BY <2>1
  <2>3. n - x \in T
    BY <2>1, <2>2
  <2> QED
    BY <2>3
<1> HIDE DEF T
<1>2. PICK m \in T : \A k \in T : <<k, m>> \notin OpToRel(<, Nat)
  BY <1>1, WFMin, NatLessThanWellFounded
<1>3. \A k \in T : ~(k < m)
  BY <1>1, <1>2 DEF OpToRel
<1>4. PICK x \in s : n - x = m
  BY DEF T
<1>5. \A y \in s : x >= y
  <2> SUFFICES ASSUME NEW y \in s PROVE x >= y
    OBVIOUS
  <2>1. x \in 0 .. n /\ y \in 0 .. n
    OBVIOUS
  <2>2. n - y \in T
    BY <2>1 DEF T
  <2> QED
    BY <1>3, <1>4, <2>1, <2>2
<1> QED
  BY <1>5 DEF Max

\* Of the numbers from 1 to k the largest is k, and the others go up to k - 1.
LEMMA MaxUpTo ==
  ASSUME NEW k \in Nat \ {0}
  PROVE  Max(1 .. k) = k /\ (1 .. k) \ {k} = 1 .. k - 1 /\ 1 .. k # {}
<1>1. k \in 1 .. k /\ \A x \in 1 .. k : x \in Int /\ k >= x
  OBVIOUS
<1>2. \A x \in 1 .. k : (\A y \in 1 .. k : x >= y) => x = k
  BY <1>1
<1> QED
  BY <1>1, <1>2 DEF Max

-----------------------------------------------------------------------------
(* Folds.                                                                  *)

\* What FoldLeft defines: a function of the sets of places, by their last one.
Folds(step, base, seq, D, g) ==
  g = [s \in SUBSET D |-> IF s = {} THEN base ELSE step[g[s \ {Max(s)}]][seq[Max(s)]]]

\* The numbers up to the next one are those up to k, and it.
LEMMA UpToNext ==
  ASSUME NEW k \in Nat
  PROVE  /\ k + 1 \in Nat /\ k + 1 \in 1 .. k + 1
         /\ \A x \in 1 .. k + 1 : x \in Int /\ k + 1 >= x
         /\ \A s \in SUBSET (1 .. k + 1) : k + 1 \notin s => s \in SUBSET (1 .. k)
         /\ \A s \in SUBSET (1 .. k) : k + 1 \notin s /\ s \in SUBSET (1 .. k + 1)
<1>1. \A x : x \in 1 .. k + 1 <=> x \in 1 .. k \/ x = k + 1
  OBVIOUS
<1> QED
  BY <1>1

\* From a value of X, and an element of C, the step leads to a value of X.
StepOn(X, C, step, base) == step \in [X -> [C -> X]] /\ base \in X

\* There is such a function, of the places up to each.
LEMMA FoldsExist ==
  ASSUME NEW X, NEW C, NEW step, NEW base, StepOn(X, C, step, base), NEW seq \in Seq(C)
  PROVE  \E g \in [SUBSET (1 .. Len(seq)) -> X] :
           Folds(step, base, seq, 1 .. Len(seq), g)
<1> DEFINE n == Len(seq)
<1> USE DEF StepOn
<1>0. n \in Nat /\ \A i \in 1 .. n : seq[i] \in C
  BY LenProperties, ElementOfSeq
<1> HIDE DEF n
<1> DEFINE Has(k) == \E g \in [SUBSET (1 .. k) -> X] : Folds(step, base, seq, 1 .. k, g)
           S == {k \in 0 .. n : Has(k)}
<1>1. 0 \in S
  <2>1. 1 .. 0 = {} /\ SUBSET {} = {{}}
    OBVIOUS
  <2> DEFINE g == [s \in {{}} |-> base]
  <2>2. g \in [SUBSET (1 .. 0) -> X]
    BY <2>1
  <2>3. Folds(step, base, seq, 1 .. 0, g)
    BY <2>1 DEF Folds
  <2> HIDE DEF g
  <2>4. Has(0)
    BY <2>2, <2>3
  <2> HIDE DEF Has
  <2> QED
    BY <1>0, <2>4
<1>2. ASSUME NEW k \in 0 .. n - 1, k \in S  PROVE k + 1 \in S
  <2>1. PICK g \in [SUBSET (1 .. k) -> X] : Folds(step, base, seq, 1 .. k, g)
    BY <1>2
  <2> DEFINE m == k + 1
             h == [s \in SUBSET (1 .. m) |->
                     IF m \in s THEN step[g[s \ {m}]][seq[m]] ELSE g[s]]
  <2>8. m \in Nat /\ m \in 0 .. n /\ m \in 1 .. n
    BY <1>0
  <2>2. /\ m \in Nat /\ m \in 1 .. m
        /\ \A x \in 1 .. m : x \in Int /\ m >= x
        /\ \A s \in SUBSET (1 .. m) : m \notin s => s \in SUBSET (1 .. k)
        /\ \A s \in SUBSET (1 .. k) : m \notin s /\ s \in SUBSET (1 .. m)
    <3>1. k \in Nat
      BY <1>0
    <3> QED
      BY <3>1, UpToNext
  <2> HIDE DEF m
  <2>3. ASSUME NEW s \in SUBSET (1 .. m)
        PROVE  h[s] = IF s = {} THEN base ELSE step[h[s \ {Max(s)}]][seq[Max(s)]]
    <3>1. CASE m \in s
      <4>1. Max(s) = m
        <5>1. m \in Int /\ \A x \in s : x \in Int /\ m >= x
          BY <2>2
        <5>2. \A x \in s : (\A y \in s : x >= y) => x = m
          BY <3>1, <5>1
        <5> QED
          BY <3>1, <5>1, <5>2 DEF Max
      <4>2. s \ {m} \in SUBSET (1 .. m) /\ m \notin s \ {m}
        OBVIOUS
      <4>3. h[s \ {m}] = g[s \ {m}]
        BY <4>2
      <4>4. h[s] = step[g[s \ {m}]][seq[m]] /\ s # {}
        BY <3>1
      <4> HIDE DEF h
      <4> QED
        BY <4>1, <4>3, <4>4
    <3>2. CASE m \notin s
      <4>1. s \in SUBSET (1 .. k) /\ h[s] = g[s]
        BY <2>2, <3>2
      <4>2. g[s] = IF s = {} THEN base ELSE step[g[s \ {Max(s)}]][seq[Max(s)]]
        BY <2>1, <4>1 DEF Folds
      <4>3. s \ {Max(s)} \in SUBSET (1 .. m) /\ m \notin s \ {Max(s)}
        BY <3>2
      <4>4. h[s \ {Max(s)}] = g[s \ {Max(s)}]
        BY <4>3
      <4> HIDE DEF h
      <4> QED
        BY <4>1, <4>2, <4>4
    <3> QED
      BY <3>1, <3>2
  <2>4. h = [s \in SUBSET (1 .. m) |-> h[s]]
    OBVIOUS
  <2>5. ASSUME NEW s \in SUBSET (1 .. m)  PROVE h[s] \in X
    <3>1. CASE m \in s
      <4>1. s \ {m} \in SUBSET (1 .. k)
        BY <2>2
      <4>2. g[s \ {m}] \in X /\ seq[m] \in C
        BY <1>0, <2>8, <4>1
      <4>3. step[g[s \ {m}]][seq[m]] \in X
        BY <4>2
      <4> QED
        BY <3>1, <4>3
    <3>2. CASE m \notin s
      BY <2>2, <3>2
    <3> QED
      BY <3>1, <3>2
  <2> HIDE DEF h
  <2>6. h \in [SUBSET (1 .. m) -> X] /\ Folds(step, base, seq, 1 .. m, h)
    BY <2>3, <2>4, <2>5 DEF Folds
  <2>7. Has(m)
    BY <2>6
  <2> HIDE DEF Has
  <2> QED
    BY <2>7, <2>8 DEF m
<1> HIDE DEF S, Has
<1>3. n \in S
  <2>1. 0 .. n \subseteq S
    BY <1>0, <1>1, <1>2, InductionUpTo
  <2> QED
    BY <1>0, <2>1
<1> QED
  BY <1>3 DEF S, Has, n

\* The places before the last of some have the last place apart.
LEMMA LastPlace ==
  ASSUME NEW n \in Nat, NEW s \in SUBSET (1 .. n), s # {}
  PROVE  Max(s) \in 1 .. n /\ s \ {Max(s)} \in SUBSET (1 .. n)
<1>1. s \in SUBSET (0 .. n)
  OBVIOUS
<1>2. Max(s) \in s
  BY <1>1, MaxOfNumbers
<1> QED
  BY <1>2

\* walk takes the steps of a sequence, one after the other.
Along(step, base, seq, walk) ==
  /\ walk[0] = base
  /\ \A k \in 1 .. Len(seq) : walk[k] = step[walk[k - 1]][seq[k]]

\* The chosen function, of which only this is known: it takes the step at each last place
\* from a value of X.
FoldedBy(X, step, base, seq, g) ==
  /\ g[{}] = base
  /\ \A s \in SUBSET (1 .. Len(seq)) :
       s # {} /\ g[s \ {Max(s)}] \in X => g[s] = step[g[s \ {Max(s)}]][seq[Max(s)]]

\* It walks along the sequence, within X.
LEMMA WalkOf ==
  ASSUME NEW X, NEW C, NEW step, NEW base, StepOn(X, C, step, base), NEW seq \in Seq(C),
         NEW g, FoldedBy(X, step, base, seq, g)
  PROVE  /\ g[1 .. Len(seq)] \in X
         /\ \E walk : Along(step, base, seq, walk) /\ walk[Len(seq)] = g[1 .. Len(seq)]
<1> DEFINE n == Len(seq)
           S == {k \in 0 .. n : g[1 .. k] \in X}
<1>1. n \in Nat /\ \A i \in 1 .. n : seq[i] \in C
  BY LenProperties, ElementOfSeq
<1>2. g[1 .. 0] = base
  <2>1. 1 .. 0 = {}
    OBVIOUS
  <2> QED
    BY <2>1 DEF FoldedBy
<1>3. ASSUME NEW k \in 1 .. n, g[1 .. k - 1] \in X
      PROVE  g[1 .. k] = step[g[1 .. k - 1]][seq[k]]
  <2>1. k \in Nat \ {0} /\ 1 .. k \in SUBSET (1 .. n)
    BY <1>1
  <2>2. Max(1 .. k) = k /\ (1 .. k) \ {k} = 1 .. k - 1 /\ 1 .. k # {}
    BY <2>1, MaxUpTo
  <2> QED
    BY <1>3, <2>1, <2>2 DEF FoldedBy
<1> HIDE DEF n
<1>4. 0 \in S
  BY <1>1, <1>2 DEF StepOn
<1>5. ASSUME NEW k \in 0 .. n - 1, k \in S  PROVE k + 1 \in S
  <2>1. k + 1 \in 1 .. n /\ k + 1 \in 0 .. n /\ k + 1 - 1 = k
    BY <1>1
  <2>2. g[1 .. k] \in X /\ seq[k + 1] \in C
    BY <1>1, <1>5, <2>1
  <2>3. g[1 .. k + 1] = step[g[1 .. k]][seq[k + 1]]
    BY <1>3, <2>1, <2>2
  <2>4. g[1 .. k + 1] \in X
    BY <2>2, <2>3 DEF StepOn
  <2> QED
    BY <2>1, <2>4
<1> HIDE DEF S
<1>6. \A k \in 0 .. n : g[1 .. k] \in X
  <2>1. 0 .. n \subseteq S
    BY <1>1, <1>4, <1>5, InductionUpTo
  <2> QED
    BY <2>1 DEF S
<1> DEFINE walk == [k \in 0 .. n |-> g[1 .. k]]
<1>7. g[1 .. n] \in X
  BY <1>1, <1>6
<1>8. walk[0] = base /\ walk[n] = g[1 .. n]
  <2>1. 0 \in 0 .. n /\ n \in 0 .. n
    BY <1>1
  <2> QED
    BY <1>2, <2>1
<1>9. ASSUME NEW k \in 1 .. n  PROVE walk[k] = step[walk[k - 1]][seq[k]]
  <2>1. k \in 0 .. n /\ k - 1 \in 0 .. n
    BY <1>1
  <2> QED
    BY <1>3, <1>6, <2>1
<1> HIDE DEF walk
<1> QED
  BY <1>7, <1>8, <1>9 DEF Along, n

\* Two walks that start together and take the same steps end together.
LEMMA WalksAgree ==
  ASSUME NEW n \in Nat, NEW v, NEW w, v[0] = w[0],
         \A k \in 0 .. n - 1 : v[k] = w[k] => v[k + 1] = w[k + 1]
  PROVE  v[n] = w[n]
<1> DEFINE S == {k \in 0 .. n : v[k] = w[k]}
<1>1. 0 \in S
  OBVIOUS
<1>2. ASSUME NEW k \in 0 .. n - 1, k \in S  PROVE k + 1 \in S
  <2>1. k + 1 \in 0 .. n
    OBVIOUS
  <2> QED
    BY <1>2, <2>1
<1> HIDE DEF S
<1>3. 0 .. n \subseteq S
  BY <1>1, <1>2, InductionUpTo
<1> QED
  BY <1>3 DEF S

\* What is folded of a sequence with one more is a step from what is folded of it.
LEMMA FoldReads ==
  ASSUME NEW X, NEW C, NEW step, NEW base, StepOn(X, C, step, base), NEW F,
         \A seq \in Seq(C) :
           \E g : FoldedBy(X, step, base, seq, g) /\ F[seq] = g[1 .. Len(seq)]
  PROVE  /\ F[<<>>] = base
         /\ \A seq \in Seq(C) : F[seq] \in X
         /\ \A seq \in Seq(C), c \in C : F[Append(seq, c)] = step[F[seq]][c]
<1>1. ASSUME NEW seq \in Seq(C)
      PROVE  F[seq] \in X /\ \E walk : Along(step, base, seq, walk) /\ walk[Len(seq)] = F[seq]
  <2>1. PICK g : FoldedBy(X, step, base, seq, g) /\ F[seq] = g[1 .. Len(seq)]
    OBVIOUS
  <2> QED
    BY <2>1, WalkOf
<1>2. F[<<>>] = base
  <2>1. <<>> \in Seq(C) /\ Len(<<>>) = 0
    BY EmptySeq
  <2> QED
    BY <1>1, <2>1 DEF Along
<1>3. ASSUME NEW seq \in Seq(C), NEW c \in C  PROVE F[Append(seq, c)] = step[F[seq]][c]
  <2> DEFINE n == Len(seq)
             more == Append(seq, c)
  <2>1. /\ n \in Nat /\ more \in Seq(C) /\ Len(more) = n + 1
        /\ \A k \in 1 .. n : more[k] = seq[k]
        /\ more[n + 1] = c
    BY LenProperties, AppendProperties
  <2> HIDE DEF more
  <2>2. PICK w : Along(step, base, seq, w) /\ w[n] = F[seq]
    BY <1>1
  <2>3. PICK v : Along(step, base, more, v) /\ v[Len(more)] = F[more]
    BY <1>1, <2>1
  <2>4. \A m \in 1 .. n : w[m] = step[w[m - 1]][seq[m]]
    BY <2>2 DEF Along
  <2> HIDE DEF n
  <2>5. \A m \in 1 .. n + 1 : v[m] = step[v[m - 1]][more[m]]
    BY <2>1, <2>3 DEF Along
  <2>6. ASSUME NEW k \in 0 .. n - 1, v[k] = w[k]  PROVE v[k + 1] = w[k + 1]
    <3> DEFINE m == k + 1
    <3>1. m \in 1 .. n /\ m \in 1 .. n + 1 /\ m - 1 = k
      BY <2>1
    <3> HIDE DEF m
    <3>2. v[m] = step[v[m - 1]][more[m]] /\ w[m] = step[w[m - 1]][seq[m]]
      BY <2>4, <2>5, <3>1
    <3>3. more[m] = seq[m]
      BY <2>1, <3>1
    <3>4. v[m] = w[m]
      BY <2>6, <3>1, <3>2, <3>3
    <3> QED
      BY <3>4 DEF m
  <2>7. v[n] = w[n]
    <3>1. n \in Nat /\ v[0] = w[0]
      BY <2>1, <2>2, <2>3 DEF Along
    <3> QED
      BY <2>6, <3>1, WalksAgree
  <2>8. v[n + 1] = step[v[n]][c]
    <3> DEFINE m == n + 1
    <3>1. m \in 1 .. n + 1 /\ m - 1 = n /\ more[m] = c
      BY <2>1
    <3> HIDE DEF m
    <3>2. v[m] = step[v[m - 1]][more[m]]
      BY <2>5, <3>1
    <3>3. v[m] = step[v[n]][c]
      BY <3>1, <3>2
    <3> QED
      BY <3>3 DEF m
  <2> QED
    BY <2>1, <2>2, <2>3, <2>7, <2>8 DEF more
<1> QED
  BY <1>1, <1>2, <1>3

-----------------------------------------------------------------------------
(* Sequences.                                                              *)

\* All but the last, and the last.
LEMMA FrontLast ==
  ASSUME NEW A, NEW s \in Seq(A), s # <<>>
  PROVE  /\ Front(s) \in Seq(A) /\ Last(s) \in A /\ Len(Front(s)) = Len(s) - 1
         /\ Len(s) \in Nat \ {0} /\ Last(s) = s[Len(s)]
         /\ s = Append(Front(s), Last(s))
<1> DEFINE n == Len(s)
<1>1. n \in Nat \ {0} /\ \A i \in 1 .. n : s[i] \in A
  BY EmptySeq, ElementOfSeq
<1>2. Last(s) = s[n] /\ Last(s) \in A
  BY <1>1 DEF Last
<1>3. /\ Front(s) \in Seq(A) /\ Len(Front(s)) = n - 1
      /\ \A i \in 1 .. n - 1 : Front(s)[i] = s[i]
  <2>1. n - 1 \in Nat /\ \A i \in 1 .. n - 1 : s[i] \in A
    BY <1>1
  <2>2. Front(s) = SubSeq(s, 1, n - 1)
    BY DEF Front
  <2> DEFINE m == n - 1
  <2> HIDE DEF m
  <2>3. /\ SubSeq(s, 1, m) \in Seq(A) /\ Len(SubSeq(s, 1, m)) = m
        /\ \A i \in 1 .. m : SubSeq(s, 1, m)[i] = s[i]
    <3>1. m \in Nat /\ \A i \in 1 .. m : s[i] \in A
      BY <2>1 DEF m
    <3>2. 1 \in Int /\ m \in Int
      BY <3>1
    <3> QED
      BY <3>1, <3>2, SubSeqProperties
  <2> QED
    BY <2>2, <2>3 DEF m
<1>4. /\ Append(Front(s), Last(s)) \in Seq(A) /\ Len(Append(Front(s), Last(s))) = n
      /\ \A i \in 1 .. n : Append(Front(s), Last(s))[i] = s[i]
  BY <1>1, <1>2, <1>3, AppendProperties
<1>5. s = Append(Front(s), Last(s))
  BY <1>4, SeqEqual
<1> QED
  BY <1>1, <1>2, <1>3, <1>5

\* Of a sequence with one more.
LEMMA LastAppended ==
  ASSUME NEW A, NEW s \in Seq(A), NEW e \in A
  PROVE  /\ Append(s, e) \in Seq(A) /\ Append(s, e) # <<>>
         /\ Front(Append(s, e)) = s /\ Last(Append(s, e)) = e
<1> DEFINE more == Append(s, e)
<1>1. more \in Seq(A) /\ more # <<>> /\ Len(more) = Len(s) + 1 /\ more[Len(s) + 1] = e
  BY AppendProperties
<1>2. Last(more) = e
  BY <1>1 DEF Last
<1>3. more = Append(Front(more), Last(more)) /\ Front(more) \in Seq(A)
  BY <1>1, FrontLast
<1>4. Front(more) = s
  <2>1. Append(Front(more), e) = Append(s, e)
    BY <1>2, <1>3
  <2> QED
    BY <1>3, <2>1, AppendInjective
<1> QED
  BY <1>1, <1>2, <1>4

\* One more at the end of two sequences.
LEMMA ConcatAppend ==
  ASSUME NEW A, NEW p \in Seq(A), NEW q \in Seq(A), NEW c \in A
  PROVE  p \o q \in Seq(A) /\ p \o Append(q, c) = Append(p \o q, c)
<1>1. <<c>> \in Seq(A)
  OBVIOUS
<1>2. p \o q \in Seq(A)
  BY ConcatProperties
<1>3. Append(q, c) = q \o <<c>> /\ Append(p \o q, c) = (p \o q) \o <<c>>
  BY <1>2, AppendIsConcat
<1>4. (p \o q) \o <<c>> = p \o (q \o <<c>>)
  BY <1>1, ConcatAssociative
<1> QED
  BY <1>2, <1>3, <1>4

\* The last of two sequences is that of the second one.
LEMMA ConcatEnd ==
  ASSUME NEW A, NEW p \in Seq(A), NEW q \in Seq(A), q # <<>>
  PROVE  p \o q # <<>> /\ Front(p \o q) = p \o Front(q) /\ Last(p \o q) = Last(q)
<1>1. Front(q) \in Seq(A) /\ Last(q) \in A /\ q = Append(Front(q), Last(q))
  BY FrontLast
<1> DEFINE s == p \o Front(q)
<1>2. s \in Seq(A) /\ p \o Append(Front(q), Last(q)) = Append(s, Last(q))
  BY <1>1, ConcatAppend
<1> HIDE DEF s
<1>3. p \o q = Append(s, Last(q))
  BY <1>1, <1>2
<1>4. /\ Append(s, Last(q)) # <<>> /\ Front(Append(s, Last(q))) = s
      /\ Last(Append(s, Last(q))) = Last(q)
  BY <1>1, <1>2, LastAppended
<1> QED
  BY <1>3, <1>4 DEF s

\* What comes first of two sequences is a prefix of them.
LEMMA PrefixOf ==
  ASSUME NEW A, NEW p \in Seq(A), NEW q \in Seq(A)
  PROVE  IsPrefix(p, p \o q)
<1>1. /\ p \o q \in Seq(A) /\ Len(p \o q) = Len(p) + Len(q) /\ Len(p) \in Nat /\ Len(q) \in Nat
  BY ConcatProperties, LenProperties
<1>2. SubSeq(p, 1, Len(p)) = SubSeq(p \o q, 1, Len(p))
  <2>1. CASE Len(p) = 0
    BY <2>1, SubSeqEmpty
  <2>2. CASE Len(p) # 0
    <3>1. 1 \in 1 .. Len(p) /\ Len(p) \in 1 .. Len(p)
      BY <1>1, <2>2
    <3> QED
      BY <3>1, SubSeqOfConcat1
  <2> QED
    BY <2>1, <2>2
<1> QED
  BY <1>1, <1>2 DEF IsPrefix

-----------------------------------------------------------------------------
(* Paths: Normalize, one segment after the other.                          *)

\* What is between the slashes of a path.
Segments == {"a", "b", ".", "..", Empty, "c:", "a\\"}

\* An empty segment is neither of the others.
LEMMA EmptyDiffers == Empty \notin {".", "..", "a", "b", "c:", "a\\"}
BY Zenon DEF Empty

\* The names so far, and one segment.
LEMMA FollowTyped ==
  /\ <<>> \in Seq(Segments)
  /\ \A names \in Seq(Segments), s \in Segments : Follow(names, s) \in Seq(Segments)
<1>1. ASSUME NEW names \in Seq(Segments), NEW s \in Segments
      PROVE  Follow(names, s) \in Seq(Segments)
  <2>1. Append(names, s) \in Seq(Segments)
    BY AppendProperties
  <2>2. ASSUME names # <<>>  PROVE Front(names) \in Seq(Segments)
    BY <2>2, FrontLast
  <2>3. CASE s = ".." /\ names # <<>> /\ Last(names) # ".."
    BY <2>1, <2>2, <2>3 DEF Follow
  <2>4. CASE ~(s = ".." /\ names # <<>> /\ Last(names) # "..")
    BY <2>1, <2>4 DEF Follow
  <2> QED
    BY <2>3, <2>4
<1> QED
  BY <1>1, EmptySeq

\* A path is followed one segment after the other.
NormalizeStep == [names \in Seq(Segments) |-> [c \in Segments |-> Follow(names, c)]]

LEMMA NormalizeWalked ==
  ASSUME NEW path \in Seq(Segments)
  PROVE  /\ StepOn(Seq(Segments), Segments, NormalizeStep, <<>>)
         /\ \E g : /\ FoldedBy(Seq(Segments), NormalizeStep, <<>>, path, g)
                  /\ Normalize(path) = g[1 .. Len(path)]
<1> DEFINE n == Len(path)
           Is(g) == g = [s \in SUBSET (1 .. n) |->
                           IF s = {} THEN <<>>
                           ELSE Follow(g[s \ {Max(s)}], path[Max(s)])]
<1>1. n \in Nat /\ DOMAIN path = 1 .. n /\ \A i \in 1 .. n : path[i] \in Segments
  BY LenProperties, ElementOfSeq
<1>2. StepOn(Seq(Segments), Segments, NormalizeStep, <<>>)
  BY FollowTyped DEF StepOn, NormalizeStep
<1>3. ASSUME NEW g, NEW s \in SUBSET (1 .. n), s # {}, g[s \ {Max(s)}] \in Seq(Segments)
      PROVE  NormalizeStep[g[s \ {Max(s)}]][path[Max(s)]] =
               Follow(g[s \ {Max(s)}], path[Max(s)])
  <2>1. path[Max(s)] \in Segments
    BY <1>1, <1>3, LastPlace
  <2> QED
    BY <1>3, <2>1 DEF NormalizeStep
<1> HIDE DEF n
<1>4. \E g : Is(g)
  <2>1. PICK g \in [SUBSET (1 .. n) -> Seq(Segments)] :
          Folds(NormalizeStep, <<>>, path, 1 .. n, g)
    BY <1>2, FoldsExist DEF n
  <2>2. ASSUME NEW s \in SUBSET (1 .. n), s # {}  PROVE g[s \ {Max(s)}] \in Seq(Segments)
    BY <1>1, <2>2, LastPlace
  <2>3. Is(g)
    BY <1>3, <2>1, <2>2 DEF Folds
  <2> HIDE DEF Is
  <2> QED
    BY <2>3
<1> DEFINE g == CHOOSE f : Is(f)
<1>5. Normalize(path) = g[1 .. n]
  BY <1>1 DEF Normalize, FoldLeft, MapThenFoldSet
<1>6. Is(g)
  BY <1>4
<1> HIDE DEF g
<1>7. FoldedBy(Seq(Segments), NormalizeStep, <<>>, path, g)
  BY <1>3, <1>6 DEF FoldedBy, n
<1> HIDE DEF Is
<1> QED
  BY <1>2, <1>5, <1>7 DEF n

-----------------------------------------------------------------------------
(* A path that is safe stays inside.                                       *)

\* Steps up, and down, are counted one segment after the other.
LEMMA UpsCounted ==
  ASSUME NEW path, NEW k \in Nat \ {0}
  PROVE  /\ Ups(path, 0) = 0 /\ Ups(path, k - 1) \in Nat
         /\ Ups(path, k) = Ups(path, k - 1) + (IF path[k] = ".." THEN 1 ELSE 0)
<1> DEFINE before == {i \in 1 .. k - 1 : path[i] = ".."}
           upto == {i \in 1 .. k : path[i] = ".."}
           none == {i \in 1 .. 0 : path[i] = ".."}
<1>1. /\ Ups(path, k - 1) = Cardinality(before) /\ Ups(path, k) = Cardinality(upto)
      /\ Ups(path, 0) = Cardinality(none)
  BY DEF Ups, Quantify
<1>2. none = {} /\ before \subseteq 1 .. k - 1 /\ k \notin before
  OBVIOUS
<1>3. upto = IF path[k] = ".." THEN before \cup {k} ELSE before
  <2>1. \A i : i \in 1 .. k <=> i \in 1 .. k - 1 \/ i = k
    OBVIOUS
  <2> QED
    BY <2>1
<1> HIDE DEF before, upto, none
<1>4. IsFiniteSet(before)
  <2>1. 1 \in Int /\ k - 1 \in Int
    OBVIOUS
  <2>2. IsFiniteSet(1 .. k - 1)
    BY <2>1, FS_Interval
  <2> QED
    BY <1>2, <2>2, FS_Subset
<1>5. /\ Cardinality(none) = 0 /\ Cardinality(before) \in Nat
      /\ Cardinality(before \cup {k}) = Cardinality(before) + 1
  BY <1>2, <1>4, FS_EmptySet, FS_CardinalityType, FS_AddElement
<1> QED
  BY <1>1, <1>3, <1>5

LEMMA DownsCounted ==
  ASSUME NEW path, NEW k \in Nat \ {0}
  PROVE  /\ Downs(path, 0) = 0 /\ Downs(path, k - 1) \in Nat
         /\ Downs(path, k) =
              Downs(path, k - 1) + (IF path[k] \in {Empty, ".", ".."} THEN 0 ELSE 1)
<1> DEFINE before == {i \in 1 .. k - 1 : path[i] \notin {Empty, ".", ".."}}
           upto == {i \in 1 .. k : path[i] \notin {Empty, ".", ".."}}
           none == {i \in 1 .. 0 : path[i] \notin {Empty, ".", ".."}}
<1>1. /\ Downs(path, k - 1) = Cardinality(before) /\ Downs(path, k) = Cardinality(upto)
      /\ Downs(path, 0) = Cardinality(none)
  BY DEF Downs, Quantify
<1>2. none = {} /\ before \subseteq 1 .. k - 1 /\ k \notin before
  OBVIOUS
<1>3. upto = IF path[k] \in {Empty, ".", ".."} THEN before ELSE before \cup {k}
  <2>1. \A i : i \in 1 .. k <=> i \in 1 .. k - 1 \/ i = k
    OBVIOUS
  <2> QED
    BY <2>1
<1> HIDE DEF before, upto, none
<1>4. IsFiniteSet(before)
  <2>1. 1 \in Int /\ k - 1 \in Int
    OBVIOUS
  <2>2. IsFiniteSet(1 .. k - 1)
    BY <2>1, FS_Interval
  <2> QED
    BY <1>2, <2>2, FS_Subset
<1>5. /\ Cardinality(none) = 0 /\ Cardinality(before) \in Nat
      /\ Cardinality(before \cup {k}) = Cardinality(before) + 1
  BY <1>2, <1>4, FS_EmptySet, FS_CardinalityType, FS_AddElement
<1> QED
  BY <1>1, <1>3, <1>5

\* Names that begin with ".." lead out; the others are as many as there were more
\* steps down than up.
Out(names) == names # <<>> /\ names[1] = ".."
Inside(path, k, names) ==
  /\ \A i \in DOMAIN names : names[i] # ".."
  /\ Len(names) + Ups(path, k) = Downs(path, k)

\* One more segment: who is out stays out, who is inside stays inside or gets out.
LEMMA FollowStep ==
  ASSUME NEW path, NEW k \in Nat \ {0}, path[k] \in Segments,
         NEW names \in Seq(Segments), Out(names) \/ Inside(path, k - 1, names)
  PROVE  LET more == Follow(names, path[k])
         IN /\ more \in Seq(Segments)
            /\ Out(names) => Out(more)
            /\ Out(more) \/ Inside(path, k, more)
<1> DEFINE s == path[k]
           more == Follow(names, s)
<1>1. /\ Ups(path, k - 1) \in Nat /\ Downs(path, k - 1) \in Nat
      /\ Ups(path, k) = Ups(path, k - 1) + (IF s = ".." THEN 1 ELSE 0)
      /\ Downs(path, k) = Downs(path, k - 1) + (IF s \in {Empty, ".", ".."} THEN 0 ELSE 1)
  BY UpsCounted, DownsCounted
<1>2. Len(names) \in Nat /\ DOMAIN names = 1 .. Len(names) /\ (names = <<>> <=> Len(names) = 0)
  BY LenProperties, EmptySeq
<1>3. CASE s \in {Empty, "."}
  <2>1. more = names /\ s # ".."
    BY <1>3, EmptyDiffers DEF Follow
  <2>2. Ups(path, k) = Ups(path, k - 1) /\ Downs(path, k) = Downs(path, k - 1)
    BY <1>1, <1>3, <2>1
  <2> HIDE DEF more, s
  <2> QED
    BY <2>1, <2>2 DEF Inside, more, s
<1>4. CASE s = ".." /\ names # <<>> /\ Last(names) # ".."
  <2>1. more = Front(names) /\ Last(names) = names[Len(names)]
    BY <1>4, EmptyDiffers DEF Follow, Last
  <2>2. /\ Front(names) = [i \in 1 .. Len(names) - 1 |-> names[i]]
        /\ Front(names) \in Seq(Segments) /\ Len(Front(names)) = Len(names) - 1
    BY <1>2, <1>4, SubSeqProperties DEF Front
  <2> HIDE DEF more, s
  <2>3. Out(names) => Out(more)
    <3>1. ASSUME Out(names)  PROVE Out(more)
      <4>1. Len(names) \in Nat /\ Len(names) >= 2
        BY <1>2, <1>4, <2>1, <3>1 DEF Out
      <4>2. 1 \in 1 .. Len(names) - 1
        BY <4>1
      <4>3. more[1] = names[1] /\ Len(more) # 0
        BY <2>1, <2>2, <4>1, <4>2
      <4> QED
        BY <2>1, <2>2, <3>1, <4>3, EmptySeq DEF Out
    <3> QED
      BY <3>1
  <2>4. ASSUME Inside(path, k - 1, names)  PROVE Inside(path, k, more)
    <3>1. \A i \in DOMAIN more : i \in DOMAIN names /\ more[i] = names[i]
      BY <1>2, <2>1, <2>2
    <3>2. Len(more) + Ups(path, k) = Downs(path, k)
      BY <1>1, <1>2, <1>4, <2>1, <2>2, <2>4 DEF Inside
    <3> QED
      BY <2>4, <3>1, <3>2 DEF Inside
  <2> QED
    BY <2>1, <2>2, <2>3, <2>4 DEF more, s
<1>5. CASE s \notin {Empty, "."} /\ ~(s = ".." /\ names # <<>> /\ Last(names) # "..")
  <2>1. more = Append(names, s)
    BY <1>5 DEF Follow
  <2>2. /\ more \in Seq(Segments) /\ Len(more) = Len(names) + 1
        /\ \A i \in DOMAIN names : more[i] = names[i]
        /\ more[Len(names) + 1] = s
    BY <1>2, <2>1, AppendProperties
  <2>3. more # <<>>
    BY <1>2, <2>2, EmptySeq
  <2>4. Out(names) => Out(more)
    BY <1>2, <2>2, <2>3 DEF Out
  <2>5. ASSUME Inside(path, k - 1, names)  PROVE Out(more) \/ Inside(path, k, more)
    <3>1. CASE s = ".."
      <4>1. names = <<>>
        <5>1. ASSUME names # <<>>  PROVE FALSE
          <6>1. Last(names) = names[Len(names)] /\ Len(names) \in DOMAIN names
            BY <1>2, <5>1 DEF Last
          <6> QED
            BY <1>5, <2>5, <3>1, <5>1, <6>1 DEF Inside
        <5> QED
          BY <5>1
      <4>2. more[1] = ".."
        BY <1>2, <2>2, <3>1, <4>1
      <4> QED
        BY <2>3, <4>2 DEF Out
    <3>2. CASE s # ".."
      <4>1. \A i \in DOMAIN more : i \in DOMAIN names \/ i = Len(names) + 1
        BY <1>2, <2>2, LenProperties
      <4>2. Len(more) + Ups(path, k) = Downs(path, k)
        <5>1. /\ Ups(path, k) = Ups(path, k - 1)
              /\ Downs(path, k) = Downs(path, k - 1) + 1
          BY <1>1, <1>5, <3>2
        <5>2. Len(names) + Ups(path, k - 1) = Downs(path, k - 1)
          BY <2>5 DEF Inside
        <5> HIDE DEF more, s
        <5> QED
          BY <1>1, <1>2, <2>2, <5>1, <5>2
      <4> QED
        BY <2>2, <2>5, <3>2, <4>1, <4>2 DEF Inside
    <3> QED
      BY <3>1, <3>2
  <2> QED
    BY <2>2, <2>4, <2>5
<1> QED
  BY <1>3, <1>4, <1>5

\* A path is a sequence, and not an empty one.
LEMMA PathsAreSequences ==
  ASSUME NEW path \in Paths
  PROVE  /\ path \in Seq(Segments) /\ Len(path) \in Nat \ {0}
         /\ DOMAIN path = 1 .. Len(path)
<1>1. ASSUME NEW n \in 1 .. MaxSegments, path \in [1 .. n -> {"a", "..", Empty}]
      PROVE  /\ path \in Seq(Segments) /\ Len(path) \in Nat \ {0}
             /\ DOMAIN path = 1 .. Len(path)
  <2>1. n \in Nat /\ n # 0
    BY ZipAssumption
  <2>2. {"a", "..", Empty} \subseteq Segments
    BY DEF Segments
  <2>3. path \in [1 .. n -> Segments]
    BY <1>1, <2>2
  <2>4. path \in Seq(Segments)
    BY <2>1, <2>3, SeqDef
  <2> QED
    BY <2>1, <2>3, <2>4, LenProperties
<1>2. ASSUME NEW a \in Segments, path = <<a>>
      PROVE  path \in Seq(Segments) /\ Len(path) = 1 /\ DOMAIN path = 1 .. 1
  BY <1>2
<1>3. ASSUME NEW a \in Segments, NEW b \in Segments, path = <<a, b>>
      PROVE  path \in Seq(Segments) /\ Len(path) = 2 /\ DOMAIN path = 1 .. 2
  BY <1>3
<1>4. ASSUME NEW a \in Segments, NEW b \in Segments, NEW c \in Segments, path = <<a, b, c>>
      PROVE  path \in Seq(Segments) /\ Len(path) = 3 /\ DOMAIN path = 1 .. 3
  BY <1>4
<1> DEFINE Walked == UNION { [1 .. n -> {"a", "..", Empty}] : n \in 1 .. MaxSegments }
           Special == {<<"c:", "a">>, <<"a\\">>, <<".">>, <<".", Empty>>, <<"a", ".", "b">>}
<1>5. CASE path \in Walked
  <2>1. PICK n \in 1 .. MaxSegments : path \in [1 .. n -> {"a", "..", Empty}]
    BY <1>5
  <2> QED
    BY <1>1, <2>1
<1>6. CASE path \in Special
  <2>1. /\ "a" \in Segments /\ "b" \in Segments /\ "." \in Segments
        /\ Empty \in Segments /\ "c:" \in Segments /\ "a\\" \in Segments
    BY DEF Segments
  <2>2. 1 \in Nat \ {0} /\ 2 \in Nat \ {0} /\ 3 \in Nat \ {0}
    OBVIOUS
  <2>3. CASE path = <<"c:", "a">>
    BY <1>3, <2>1, <2>2, <2>3
  <2>4. CASE path = <<"a\\">>
    BY <1>2, <2>1, <2>2, <2>4
  <2>5. CASE path = <<".">>
    BY <1>2, <2>1, <2>2, <2>5
  <2>6. CASE path = <<".", Empty>>
    BY <1>3, <2>1, <2>2, <2>6
  <2>7. CASE path = <<"a", ".", "b">>
    BY <1>4, <2>1, <2>2, <2>7
  <2> QED
    BY Zenon, <1>6, <2>3, <2>4, <2>5, <2>6, <2>7
<1>7. Paths = Walked \cup Special
  BY Zenon DEF Paths
<1> HIDE DEF Walked, Special
<1>8. path \in Walked \/ path \in Special
  BY <1>7
<1> QED
  BY <1>5, <1>6, <1>8 DEF Walked, Special

\* A path that is not unsafe never climbs, and its names are as many as it goes down
\* more than up.
LEMMA SafeStaysInside ==
  ASSUME NEW path \in Paths, ~Unsafe(path)
  PROVE  /\ ~Climbs(path) /\ path[1] # Empty
         /\ Normalize(path) \in Seq(Segments)
         /\ Len(Normalize(path)) + Ups(path, Len(path)) = Downs(path, Len(path))
<1> DEFINE n == Len(path)
<1>1. path \in Seq(Segments) /\ n \in Nat \ {0} /\ DOMAIN path = 1 .. n
  BY PathsAreSequences
<1>2. PICK walk : Along(NormalizeStep, <<>>, path, walk) /\ walk[n] = Normalize(path)
  <2>1. PICK g : /\ FoldedBy(Seq(Segments), NormalizeStep, <<>>, path, g)
                 /\ Normalize(path) = g[1 .. Len(path)]
    BY <1>1, NormalizeWalked
  <2>2. StepOn(Seq(Segments), Segments, NormalizeStep, <<>>)
    BY <1>1, NormalizeWalked
  <2> QED
    BY <1>1, <2>1, <2>2, WalkOf
<1> HIDE DEF n
<1> DEFINE Fine(k) == /\ walk[k] \in Seq(Segments)
                      /\ Out(walk[k]) \/ Inside(path, k, walk[k])
                      /\ \A j \in 0 .. k : Out(walk[j]) => Out(walk[k])
           S == {k \in 0 .. n : Fine(k)}
<1>3. 0 \in S
  <2>1. <<>> \in Seq(Segments) /\ DOMAIN <<>> = {} /\ Len(<<>>) = 0
    BY EmptySeq
  <2>2. Ups(path, 0) = 0 /\ Downs(path, 0) = 0
    <3>1. 1 \in Nat \ {0}
      OBVIOUS
    <3> QED
      BY <3>1, UpsCounted, DownsCounted
  <2>3. walk[0] = <<>>
    BY <1>2 DEF Along
  <2>4. Inside(path, 0, walk[0])
    BY <2>1, <2>2, <2>3 DEF Inside
  <2>5. \A j \in 0 .. 0 : j = 0
    OBVIOUS
  <2>6. Fine(0)
    BY <2>1, <2>3, <2>4, <2>5
  <2> HIDE DEF Fine
  <2> QED
    BY <1>1, <2>6
<1>4. ASSUME NEW k \in 0 .. n - 1, k \in S  PROVE k + 1 \in S
  <2> DEFINE m == k + 1
  <2>1. /\ m \in Nat \ {0} /\ m \in 1 .. n /\ m - 1 = k
        /\ \A j \in 0 .. m : j \in 0 .. k \/ j = m
    BY <1>1
  <2>2. path[m] \in Segments
    BY <1>1, <2>1, ElementOfSeq DEF n
  <2> HIDE DEF m
  <2>4. Fine(k)
    BY <1>4
  <2>3. walk[m] = Follow(walk[k], path[m])
    <3>1. walk[m] = NormalizeStep[walk[m - 1]][path[m]]
      BY <1>2, <2>1 DEF Along, n
    <3> QED
      BY <2>1, <2>2, <2>4, <3>1 DEF NormalizeStep
  <2>5. /\ walk[m] \in Seq(Segments)
        /\ Out(walk[k]) => Out(walk[m])
        /\ Out(walk[m]) \/ Inside(path, m, walk[m])
    BY <2>1, <2>2, <2>3, <2>4, FollowStep
  <2>6. Fine(m)
    <3>1. ASSUME NEW j \in 0 .. m, Out(walk[j])  PROVE Out(walk[m])
      BY <2>1, <2>4, <2>5, <3>1
    <3> QED
      BY <2>5, <3>1
  <2> HIDE DEF Fine
  <2> QED
    BY <1>1, <2>1, <2>6 DEF m
<1>5. \A k \in 0 .. n : Fine(k)
  <2> HIDE DEF S
  <2>1. 0 .. n \subseteq S
    BY <1>1, <1>3, <1>4, InductionUpTo
  <2> USE DEF S
  <2> QED
    BY <2>1
<1>6. Normalize(path) = walk[n] /\ n \in 0 .. n
  BY <1>1, <1>2
<1>7. ~Out(walk[n])
  BY <1>6 DEF Unsafe, Out
<1>8. \A k \in 0 .. n : walk[k] \in Seq(Segments) /\ Inside(path, k, walk[k])
  BY <1>5, <1>6, <1>7
<1>9. ASSUME NEW k \in DOMAIN path  PROVE ~(Ups(path, k) > Downs(path, k))
  <2>1. k \in 0 .. n /\ k \in Nat \ {0}
    BY <1>1
  <2>2. Len(walk[k]) \in Nat /\ Len(walk[k]) + Ups(path, k) = Downs(path, k)
    BY <1>8, <2>1, LenProperties DEF Inside
  <2>3. Ups(path, k) \in Nat
    BY <2>1, UpsCounted
  <2> QED
    BY <2>2, <2>3
<1> QED
  BY <1>6, <1>8, <1>9 DEF Climbs, Inside, Unsafe, n

-----------------------------------------------------------------------------
(* The invariant of an extraction.                                         *)

Files == [names : Seq(Segments), entry : Nat]
Archives ==
  [entries : Seq(Entries), next : Nat, bytes : Nat, files : SUBSET Files,
   dirs : SUBSET Seq(Segments), outcome : {"reading", "extracted", "error"}]

\* Every entry that is behind was safe, and is in place.
Followed(z) ==
  \A i \in 1 .. z.next - 1 :
    /\ ~Unsafe(z.entries[i].path)
    /\ MakesDirectory(z.entries[i]) \/ \E f \in z.files : f.entry = i

\* An entry a file is written of.
MakesFile(entry) == entry.type = "file" /\ ~MakesDirectory(entry)

\* A file stands where its entry's path leads.
FilesOfEntries(z) ==
  \A f \in z.files :
    /\ f.entry \in 1 .. z.next - 1 /\ f.names = Normalize(z.entries[f.entry].path)
    /\ MakesFile(z.entries[f.entry])

\* No directory is a file, and the staged directory is there.
Apart(z) == <<>> \in z.dirs /\ \A f \in z.files : f.names \notin z.dirs

ArchiveInv(z) ==
  /\ z \in Archives
  /\ z.next \in 1 .. Len(z.entries) + 1 /\ z.bytes <= maxExtractedBytes
  /\ Followed(z) /\ FilesOfEntries(z) /\ Apart(z)
  /\ z.outcome = "extracted" => z.next > Len(z.entries)

\* The fields of an archive.
LEMMA Fields ==
  ASSUME NEW z \in Archives
  PROVE  /\ z.entries \in Seq(Entries) /\ z.next \in Nat /\ z.bytes \in Nat
         /\ z.files \in SUBSET Files /\ z.dirs \in SUBSET Seq(Segments)
         /\ z.outcome \in {"reading", "extracted", "error"}
         /\ z = [entries |-> z.entries, next |-> z.next, bytes |-> z.bytes,
                 files |-> z.files, dirs |-> z.dirs, outcome |-> z.outcome]
BY DEF Archives

\* An archive that goes on.
LEMMA ReadOn ==
  ASSUME NEW z \in Archives, NEW n \in Nat, NEW b \in Nat
  PROVE  [z EXCEPT !.next = n, !.bytes = b] =
           [entries |-> z.entries, next |-> n, bytes |-> b, files |-> z.files,
            dirs |-> z.dirs, outcome |-> z.outcome]
<1> DEFINE s == [z EXCEPT !.next = n, !.bytes = b]
<1>1. /\ s \in Archives /\ s.entries = z.entries /\ s.next = n /\ s.bytes = b
      /\ s.files = z.files /\ s.dirs = z.dirs /\ s.outcome = z.outcome
  BY DEF Archives
<1> HIDE DEF s
<1>2. s = [entries |-> s.entries, next |-> s.next, bytes |-> s.bytes, files |-> s.files,
           dirs |-> s.dirs, outcome |-> s.outcome]
  BY <1>1, Fields
<1>3. s = [entries |-> z.entries, next |-> n, bytes |-> b, files |-> z.files,
           dirs |-> z.dirs, outcome |-> z.outcome]
  BY <1>1, <1>2
<1> QED
  BY <1>3 DEF s

\* The two parts about entries, from the fields they speak of.
LEMMA Assembled ==
  ASSUME NEW z, NEW es, NEW last, NEW fs,
         z.entries = es, z.next - 1 = last, z.files = fs,
         \A i \in 1 .. last :
           ~Unsafe(es[i].path) /\ (MakesDirectory(es[i]) \/ \E f \in fs : f.entry = i),
         \A f \in fs : /\ f.entry \in 1 .. last /\ f.names = Normalize(es[f.entry].path)
                       /\ MakesFile(es[f.entry])
  PROVE  Followed(z) /\ FilesOfEntries(z)
BY DEF Followed, FilesOfEntries

\* An archive is not what stands for none.
LEMMA ArchiveIsNotNothing == ASSUME NEW z \in Archives PROVE z # Nothing
<1>1. "entries" \in DOMAIN z
  BY DEF Archives
<1>2. "entries" \notin DOMAIN Nothing
  BY DEF Nothing
<1> QED
  BY <1>1, <1>2

\* The directories over a name are shorter, or the name itself.
LEMMA ParentsAreShorter ==
  ASSUME NEW names \in Seq(Segments)
  PROVE  /\ Parents(names) \in SUBSET Seq(Segments)
         /\ names # <<>> =>
              Parents(Parent(names)) \in SUBSET Seq(Segments)
                /\ names \notin Parents(Parent(names))
<1>1. ASSUME NEW some \in Seq(Segments), NEW n \in 0 .. Len(some)
      PROVE  SubSeq(some, 1, n) \in Seq(Segments) /\ Len(SubSeq(some, 1, n)) = n
  <2>1. Len(some) \in Nat /\ 1 \in 1 .. Len(some) + 1 /\ n \in 1 - 1 .. Len(some)
    BY <1>1, LenProperties
  <2>2. SubSeq(some, 1, n) \in Seq(Segments) /\ Len(SubSeq(some, 1, n)) = n - 1 + 1
    BY <2>1, SubSeqProperties
  <2> QED
    BY <2>1, <2>2
<1>2. Parents(names) \in SUBSET Seq(Segments)
  BY <1>1 DEF Parents
<1>3. ASSUME names # <<>>
      PROVE  /\ Parents(Parent(names)) \in SUBSET Seq(Segments)
             /\ names \notin Parents(Parent(names))
  <2>1. Len(names) \in Nat /\ Len(names) # 0
    BY <1>3, LenProperties, EmptySeq
  <2>2. Len(names) - 1 \in 0 .. Len(names)
    BY <2>1
  <2>3. Parent(names) \in Seq(Segments) /\ Len(Parent(names)) = Len(names) - 1
    BY <1>1, <2>2 DEF Parent
  <2>4. \A some \in Parents(Parent(names)) :
          some \in Seq(Segments) /\ Len(some) \in 0 .. Len(names) - 1
    BY <1>1, <2>3 DEF Parents
  <2> QED
    BY <2>1, <2>4
<1> QED
  BY <1>2, <1>3

-----------------------------------------------------------------------------
(* Every step keeps it.                                                    *)

\* An archive starts at its first entry.
LEMMA ZipInitInv == ASSUME ZipInit PROVE ArchiveInv(zip)
<1>0. PICK n \in 0 .. MaxEntries : \E entries \in [1 .. n -> Entries] :
        zip = [entries |-> entries, next |-> 1, bytes |-> 0, files |-> {}, dirs |-> {<<>>},
               outcome |-> "reading"]
  BY DEF ZipInit
<1>1. PICK entries \in [1 .. n -> Entries] :
        zip = [entries |-> entries, next |-> 1, bytes |-> 0, files |-> {}, dirs |-> {<<>>},
               outcome |-> "reading"]
  BY <1>0
<1>2. n \in Nat
  BY ZipAssumption
<1>3. entries \in Seq(Entries)
  BY <1>2, SeqDef
<1>4. {<<>>} \in SUBSET Seq(Segments) /\ {} \in SUBSET Files /\ 1 \in Nat /\ 0 \in Nat
  BY EmptySeq
<1>5. zip \in Archives
  BY <1>1, <1>3, <1>4 DEF Archives
<1>6. Len(entries) \in Nat
  BY <1>3, LenProperties
<1>7. Followed(zip) /\ FilesOfEntries(zip) /\ Apart(zip)
  <2>1. 1 .. 1 - 1 = {}
    OBVIOUS
  <2> QED
    BY <1>1, <2>1 DEF Followed, FilesOfEntries, Apart
<1>8. zip.next \in 1 .. Len(zip.entries) + 1 /\ zip.bytes <= maxExtractedBytes
  BY <1>1, <1>6, ZipAssumption
<1> QED
  BY <1>1, <1>5, <1>7, <1>8 DEF ArchiveInv

\* An entry that is followed, with its file or without.
LEMMA FollowedInv ==
  ASSUME NEW z, NEW w \in Archives, NEW n, NEW entry,
         ArchiveInv(z), n = z.next, n <= Len(z.entries), entry = z.entries[n],
         ~Unsafe(entry.path),
         w.entries = z.entries, w.next = n + 1, w.bytes <= maxExtractedBytes,
         \/ w.files = z.files /\ MakesDirectory(entry)
         \/ /\ w.files = z.files \cup {[names |-> Normalize(entry.path), entry |-> n]}
            /\ MakesFile(entry),
         z.dirs \subseteq w.dirs, \A f \in w.files : f.names \notin w.dirs,
         w.outcome = "reading"
  PROVE  ArchiveInv(w)
<1>1. z \in Archives /\ z.next \in 1 .. Len(z.entries) + 1
  BY DEF ArchiveInv
<1>2. n \in Nat /\ Len(z.entries) \in Nat /\ n \in 1 .. Len(z.entries)
  <2>1. z.entries \in Seq(Entries) /\ n \in Nat
    BY <1>1, Fields
  <2>2. Len(z.entries) \in Nat
    BY <2>1, LenProperties
  <2> QED
    BY <1>1, <2>1, <2>2
<1>3. \A i : i \in 1 .. n <=> i \in 1 .. n - 1 \/ i = n
  BY <1>2
<1>4. ASSUME NEW i \in 1 .. n
      PROVE  /\ ~Unsafe(z.entries[i].path)
             /\ MakesDirectory(z.entries[i]) \/ \E f \in w.files : f.entry = i
  <2>1. CASE i \in 1 .. n - 1
    <3>1. /\ ~Unsafe(z.entries[i].path)
          /\ MakesDirectory(z.entries[i]) \/ \E f \in z.files : f.entry = i
      BY <2>1 DEF ArchiveInv, Followed
    <3> QED
      BY <3>1
  <2>2. CASE i = n
    <3>1. z.entries[i] = entry
      BY <2>2
    <3> DEFINE file == [names |-> Normalize(entry.path), entry |-> n]
    <3>2. CASE w.files = z.files \cup {file}
      <4>1. file \in w.files /\ file.entry = n
        BY <3>2
      <4> QED
        BY <2>2, <3>1, <4>1
    <3>3. CASE MakesDirectory(entry)
      BY <3>1, <3>3
    <3> QED
      BY <3>2, <3>3
  <2> QED
    BY <1>3, <2>1, <2>2
<1>5. ASSUME NEW f \in w.files
      PROVE  /\ f.entry \in 1 .. n /\ f.names = Normalize(z.entries[f.entry].path)
             /\ MakesFile(z.entries[f.entry])
  <2>1. CASE f \in z.files
    BY <1>3, <2>1 DEF ArchiveInv, FilesOfEntries
  <2>2. CASE f = [names |-> Normalize(entry.path), entry |-> n] /\ MakesFile(entry)
    BY <1>3, <2>2
  <2> QED
    BY <2>1, <2>2
<1>6. w.next - 1 = n
  BY <1>2
<1>7. Followed(w) /\ FilesOfEntries(w)
  BY <1>4, <1>5, <1>6, Assembled
<1>8. Apart(w)
  BY DEF Apart, ArchiveInv
<1>9. w.next \in 1 .. Len(w.entries) + 1
  BY <1>2
<1> QED
  BY <1>7, <1>8, <1>9 DEF ArchiveInv

\* The next entry.
LEMMA EntryInv == ASSUME ArchiveInv(zip), Entry PROVE ArchiveInv(zip')
<1> DEFINE entry == zip.entries[zip.next]
           kind == GetZipEntryKind(entry)
           bytes == zip.bytes + entry.size
           names == Normalize(entry.path)
           refused == kind = "blocked" \/ bytes > maxExtractedBytes \/ Unsafe(entry.path)
           read(fs, ds) == [entries |-> zip.entries, next |-> zip.next + 1, bytes |-> bytes,
                            files |-> fs, dirs |-> ds, outcome |-> "reading"]
           file == [names |-> names, entry |-> zip.next]
<1>1. /\ zip \in Archives /\ zip.outcome = "reading" /\ zip.next <= Len(zip.entries)
      /\ zip.next \in 1 .. Len(zip.entries) + 1
  BY DEF Entry, ArchiveInv
<1>2. /\ zip.entries \in Seq(Entries) /\ zip.next \in Nat /\ zip.bytes \in Nat
      /\ zip.files \in SUBSET Files /\ zip.dirs \in SUBSET Seq(Segments)
      /\ zip = [entries |-> zip.entries, next |-> zip.next, bytes |-> zip.bytes,
                files |-> zip.files, dirs |-> zip.dirs, outcome |-> "reading"]
  BY <1>1, Fields
<1>3. /\ entry.path \in Paths /\ entry.size \in 1 .. 2
      /\ entry.type \in {"file", "directory", "link"}
  <2>1. Len(zip.entries) \in Nat
    BY <1>2, LenProperties
  <2>2. zip.next \in 1 .. Len(zip.entries)
    BY <1>1, <1>2, <2>1
  <2>3. entry \in Entries
    BY <1>2, <2>2, ElementOfSeq
  <2> QED
    BY <2>3 DEF Entries, Types
<1>4. bytes \in Nat
  BY <1>2, <1>3
<1>5. CASE FinishWithError
  <2>1. zip' = [entries |-> zip.entries, next |-> zip.next, bytes |-> zip.bytes,
                files |-> zip.files, dirs |-> zip.dirs, outcome |-> "error"]
    BY <1>2, <1>5 DEF FinishWithError
  <2>2. /\ zip' \in Archives /\ zip'.entries = zip.entries /\ zip'.next = zip.next
        /\ zip'.bytes = zip.bytes /\ zip'.files = zip.files /\ zip'.dirs = zip.dirs
        /\ zip'.outcome = "error"
    BY <1>2, <2>1 DEF Archives
  <2> QED
    BY <2>2 DEF ArchiveInv, Followed, FilesOfEntries, Apart
<1>6. CASE /\ ~refused /\ kind = "directory" /\ CanMake(names)
           /\ zip' = read(zip.files, zip.dirs \cup Parents(names))
  <2>1. MakesDirectory(entry)
    BY <1>6 DEF GetZipEntryKind, MakesDirectory
  <2>2. ~Unsafe(entry.path) /\ bytes <= maxExtractedBytes
    BY <1>4, <1>6, ZipAssumption
  <2>3. names \in Seq(Segments)
    BY <1>3, <2>2, SafeStaysInside
  <2>4. zip.dirs \cup Parents(names) \in SUBSET Seq(Segments)
    BY <1>2, <2>3, ParentsAreShorter
  <2>5. \A f \in zip.files : f.names \notin zip.dirs \cup Parents(names)
    BY <1>6 DEF ArchiveInv, Apart, CanMake, Written
  <2> DEFINE w == read(zip.files, zip.dirs \cup Parents(names))
  <2>6. /\ w \in Archives /\ w.entries = zip.entries /\ w.next = zip.next + 1
        /\ w.bytes = bytes /\ w.files = zip.files
        /\ w.dirs = zip.dirs \cup Parents(names) /\ w.outcome = "reading"
    BY <1>2, <1>4, <2>4 DEF Archives
  <2>7. zip' = w
    BY <1>6
  <2> HIDE DEF bytes, kind, w, entry
  <2>8. ArchiveInv(w)
    BY <1>1, <2>1, <2>2, <2>5, <2>6, FollowedInv DEF entry
  <2> QED
    BY <2>7, <2>8
<1>7. CASE /\ ~refused /\ kind # "directory" /\ CanWrite(names)
           /\ zip' = read(zip.files \cup {file}, zip.dirs \cup Parents(Parent(names)))
  <2>1. ~Unsafe(entry.path) /\ bytes <= maxExtractedBytes
    BY <1>4, <1>7, ZipAssumption
  <2>2. names \in Seq(Segments)
    BY <1>3, <2>1, SafeStaysInside
  <2>3. names # <<>>
    BY <1>7 DEF CanWrite, ArchiveInv, Apart
  <2>4. /\ Parents(Parent(names)) \in SUBSET Seq(Segments)
        /\ names \notin Parents(Parent(names))
    BY <2>2, <2>3, ParentsAreShorter
  <2>5. \A f \in zip.files : f.names \notin zip.dirs \cup Parents(Parent(names))
    BY <1>7 DEF ArchiveInv, Apart, CanWrite, CanMake, Written
  <2>6. file.names \notin zip.dirs \cup Parents(Parent(names))
    BY <1>7, <2>4 DEF CanWrite
  <2>7. zip.dirs \cup Parents(Parent(names)) \in SUBSET Seq(Segments)
    BY <1>2, <2>4
  <2>8. \A f \in zip.files \cup {file} : f.names \notin zip.dirs \cup Parents(Parent(names))
    BY <2>5, <2>6
  <2> DEFINE w == read(zip.files \cup {file}, zip.dirs \cup Parents(Parent(names)))
  <2>9. file \in Files
    BY <1>2, <2>2 DEF Files
  <2>10. /\ w \in Archives /\ w.entries = zip.entries /\ w.next = zip.next + 1
         /\ w.bytes = bytes /\ w.files = zip.files \cup {file}
         /\ w.dirs = zip.dirs \cup Parents(Parent(names)) /\ w.outcome = "reading"
    BY <1>2, <1>4, <2>7, <2>9 DEF Archives
  <2>11. zip' = w
    BY <1>7
  <2>13. MakesFile(entry)
    BY <1>3, <1>7 DEF GetZipEntryKind, MakesFile, MakesDirectory
  <2> HIDE DEF bytes, kind, w, entry
  <2>12. ArchiveInv(w)
    BY <1>1, <2>1, <2>8, <2>10, <2>13, FollowedInv DEF entry
  <2> QED
    BY <2>11, <2>12
<1>8. \/ FinishWithError
      \/ /\ ~refused /\ kind = "directory" /\ CanMake(names)
         /\ zip' = read(zip.files, zip.dirs \cup Parents(names))
      \/ /\ ~refused /\ kind # "directory" /\ CanWrite(names)
         /\ zip' = read(zip.files \cup {file}, zip.dirs \cup Parents(Parent(names)))
  <2> DEFINE step == [zip EXCEPT !.next = @ + 1, !.bytes = bytes]
             made(dir) == [step EXCEPT !.dirs = @ \cup Parents(dir)]
             wrote == [made(Parent(names)) EXCEPT
                         !.files = { f \in @ : f.names # names }
                                     \cup {[names |-> names, entry |-> zip.next]}]
  <2>1. \/ FinishWithError
        \/ ~refused /\ kind = "directory" /\ CanMake(names) /\ zip' = made(names)
        \/ ~refused /\ kind # "directory" /\ CanWrite(names) /\ zip' = wrote
    BY DEF Entry
  <2> HIDE DEF bytes, names, kind, refused, file
  <2>5. zip.next + 1 \in Nat
    BY <1>2
  <2>4. step = [entries |-> zip.entries, next |-> zip.next + 1, bytes |-> bytes,
                files |-> zip.files, dirs |-> zip.dirs, outcome |-> "reading"]
    BY <1>1, <1>4, <2>5, ReadOn
  <2> HIDE DEF step
  <2>2. ASSUME NEW dir  PROVE made(dir) = read(zip.files, zip.dirs \cup Parents(dir))
    BY <2>4
  <2>3. ASSUME CanWrite(names)
        PROVE  wrote = read(zip.files \cup {file}, zip.dirs \cup Parents(Parent(names)))
    <3>1. { f \in zip.files : f.names # names } = zip.files
      BY <2>3 DEF CanWrite, Written
    <3>2. made(Parent(names)) = read(zip.files, zip.dirs \cup Parents(Parent(names)))
      BY <2>2
    <3> HIDE DEF made
    <3> QED
      BY <3>1, <3>2 DEF file
  <2> HIDE DEF made, wrote, read
  <2> QED
    BY <2>1, <2>2, <2>3
<1> QED
  BY <1>5, <1>6, <1>7, <1>8

\* The end of the archive.
LEMMA EndInv == ASSUME ArchiveInv(zip), End PROVE ArchiveInv(zip')
<1>1. /\ zip \in Archives /\ zip.next > Len(zip.entries)
      /\ zip' = [zip EXCEPT !.outcome = "extracted"]
  BY DEF ArchiveInv, End
<1>2. /\ zip.entries \in Seq(Entries) /\ zip.next \in Nat /\ zip.bytes \in Nat
      /\ zip.files \in SUBSET Files /\ zip.dirs \in SUBSET Seq(Segments)
      /\ zip = [entries |-> zip.entries, next |-> zip.next, bytes |-> zip.bytes,
                files |-> zip.files, dirs |-> zip.dirs, outcome |-> zip.outcome]
  BY <1>1, Fields
<1>3. zip' = [entries |-> zip.entries, next |-> zip.next, bytes |-> zip.bytes,
              files |-> zip.files, dirs |-> zip.dirs, outcome |-> "extracted"]
  BY <1>1, <1>2
<1>4. /\ zip' \in Archives /\ zip'.entries = zip.entries /\ zip'.next = zip.next
      /\ zip'.bytes = zip.bytes /\ zip'.files = zip.files /\ zip'.dirs = zip.dirs
  BY <1>2, <1>3 DEF Archives
<1> QED
  BY <1>1, <1>4 DEF ArchiveInv, Followed, FilesOfEntries, Apart

\* What the run checks follows from it.
LEMMA ArchiveInvInPlace == ASSUME ArchiveInv(zip) PROVE EntriesStayInside
<1>1. ArchiveInv(zip)
  OBVIOUS
<1>2. zip \in Archives /\ zip.entries \in Seq(Entries) /\ zip.next \in Nat
  BY <1>1, Fields DEF ArchiveInv
<1>3. /\ Len(zip.entries) \in Nat /\ DOMAIN zip.entries = 1 .. Len(zip.entries)
      /\ zip.next \in 1 .. Len(zip.entries) + 1
  BY <1>1, <1>2, LenProperties DEF ArchiveInv
<1>4. ASSUME NEW i \in 1 .. zip.next - 1
      PROVE  /\ ~Climbs(zip.entries[i].path) /\ zip.entries[i].path[1] # Empty
             /\ LET path == zip.entries[i].path
                IN Len(Normalize(path)) + Ups(path, Len(path)) = Downs(path, Len(path))
  <2>1. i \in 1 .. Len(zip.entries)
    BY <1>3
  <2>2. zip.entries[i] \in Entries
    BY <1>2, <2>1, ElementOfSeq
  <2>3. zip.entries[i].path \in Paths
    BY <2>2 DEF Entries
  <2>4. ~Unsafe(zip.entries[i].path)
    BY <1>1 DEF ArchiveInv, Followed
  <2> QED
    BY <2>3, <2>4, SafeStaysInside
<1>5. ASSUME NEW f \in zip.files
      PROVE  LET entry == zip.entries[f.entry]
                 path == entry.path
             IN /\ entry.type = "file" /\ ~MakesDirectory(entry)
                /\ Len(f.names) + Ups(path, Len(path)) = Downs(path, Len(path))
  BY <1>1, <1>4 DEF ArchiveInv, FilesOfEntries, MakesFile
<1>6. <<>> \notin Written /\ Written \cap zip.dirs = {}
  BY <1>1 DEF ArchiveInv, Apart, Written
<1>7. ASSUME NEW i \in 1 .. zip.next - 1
      PROVE  MakesDirectory(zip.entries[i]) \/ \E f \in zip.files : f.entry = i
  BY <1>1 DEF ArchiveInv, Followed
<1>8. ASSUME NEW i \in 1 .. zip.next - 1, zip.entries[i].type = "link"
      PROVE  MakesDirectory(zip.entries[i])
  BY <1>5, <1>7, <1>8
<1>9. zip.outcome = "extracted" => DOMAIN zip.entries \subseteq 1 .. zip.next - 1
  BY <1>1, <1>2, <1>3 DEF ArchiveInv
<1>10. zip.bytes <= maxExtractedBytes
  BY <1>1 DEF ArchiveInv
<1> QED
  BY <1>4, <1>5, <1>6, <1>7, <1>8, <1>9, <1>10 DEF EntriesStayInside

-----------------------------------------------------------------------------
(* Texts.                                                                  *)

\* What docker writes, with what stands for two bytes, and what is read of it.
Bytes == {"x", "s", "r", "n", "h", "t"}
Undecoded == Bytes \cup {"c"}
Chars == {"x", "s", "r", "n", "c", Replacement}
Texts == Seq(Chars)
Pieces == Seq(Texts) \ {<<>>}

\* A byte completes a character, or is one more.
LEMMA DecodeTyped ==
  /\ <<>> \in Seq(Undecoded)
  /\ \A text \in Seq(Undecoded), byte \in Bytes : Decode(text, byte) \in Seq(Undecoded)
<1>1. ASSUME NEW text \in Seq(Undecoded), NEW byte \in Bytes
      PROVE  Decode(text, byte) \in Seq(Undecoded)
  <2>1. byte \in Undecoded /\ "c" \in Undecoded
    BY DEF Undecoded
  <2>2. Append(text, byte) \in Seq(Undecoded)
    BY <2>1, AppendProperties
  <2>3. ASSUME text # <<>>  PROVE Append(Front(text), "c") \in Seq(Undecoded)
    BY <2>1, <2>3, FrontLast, AppendProperties
  <2> QED
    BY <2>2, <2>3 DEF Decode
<1> QED
  BY <1>1, EmptySeq

\* "\n" takes the place of "\r", or is one more.
LEMMA EndLineTyped ==
  <<>> \in Texts /\ \A text \in Texts, c \in Chars : EndLine(text, c) \in Texts
<1>1. ASSUME NEW text \in Texts, NEW c \in Chars  PROVE EndLine(text, c) \in Texts
  <2>1. Append(text, c) \in Texts
    BY AppendProperties DEF Texts
  <2>2. ASSUME text # <<>>  PROVE Append(Front(text), c) \in Texts
    BY <2>2, FrontLast, AppendProperties DEF Texts
  <2> QED
    BY <2>1, <2>2 DEF EndLine
<1> QED
  BY <1>1, EmptySeq DEF Texts

\* There is always a last piece to read on.
LEMMA CutTyped ==
  << <<>> >> \in Pieces /\ \A pieces \in Pieces, c \in Chars : Cut(pieces, c) \in Pieces
<1>1. <<>> \in Texts /\ << <<>> >> \in Pieces
  <2>1. <<>> \in Texts
    BY EmptySeq DEF Texts
  <2> QED
    BY <2>1 DEF Pieces
<1>2. ASSUME NEW pieces \in Pieces, NEW c \in Chars  PROVE Cut(pieces, c) \in Pieces
  <2>1. pieces \in Seq(Texts) /\ pieces # <<>>
    BY DEF Pieces
  <2>2. Append(pieces, <<>>) \in Pieces
    BY <1>1, <2>1, AppendProperties DEF Pieces
  <2>3. Front(pieces) \in Seq(Texts) /\ Last(pieces) \in Texts
    BY <2>1, FrontLast
  <2>4. Append(Last(pieces), c) \in Texts
    BY <2>3, AppendProperties DEF Texts
  <2>5. Append(Front(pieces), Append(Last(pieces), c)) \in Pieces
    BY <2>3, <2>4, AppendProperties DEF Pieces
  <2> QED
    BY <2>2, <2>5 DEF Cut
<1> QED
  BY <1>1, <1>2

\* The two bytes of a character put together.
Joined(bytes) == FoldLeft(Decode, <<>>, bytes)

\* Where the solid characters of a text end.
SolidEnd(text) == Max(Solid(text) \cup {0})

\* It is a place of the text, or 0.
LEMMA SolidEndPlace ==
  ASSUME NEW text \in Texts
  PROVE  /\ Len(text) \in Nat /\ Solid(text) \in SUBSET (1 .. Len(text))
         /\ SolidEnd(text) \in Solid(text) \cup {0} /\ SolidEnd(text) \in 0 .. Len(text)
         /\ \A i \in Solid(text) : SolidEnd(text) >= i
<1>1. Len(text) \in Nat /\ DOMAIN text = 1 .. Len(text)
  BY LenProperties DEF Texts
<1>2. Solid(text) \in SUBSET (1 .. Len(text))
  BY <1>1 DEF Solid
<1>3. Solid(text) \cup {0} \in SUBSET (0 .. Len(text)) /\ Solid(text) \cup {0} # {}
  BY <1>1, <1>2
<1>4. /\ SolidEnd(text) \in Solid(text) \cup {0}
      /\ \A i \in Solid(text) \cup {0} : SolidEnd(text) >= i
  BY <1>1, <1>3, MaxOfNumbers DEF SolidEnd
<1> QED
  BY <1>1, <1>2, <1>3, <1>4

\* What is trimmed of a text is seen at its last character.
LEMMA TrimEndReads ==
  /\ TrimEnd(<<>>) = <<>>
  /\ \A text \in Texts : TrimEnd(text) \in Texts
  /\ \A text \in Texts, c \in Chars :
       TrimEnd(Append(text, c)) = IF c \in White THEN TrimEnd(text) ELSE Append(text, c)
<1>1. TrimEnd(<<>>) = <<>>
  <2>1. <<>> \in Texts /\ Len(<<>>) = 0
    BY EmptySeq DEF Texts
  <2>2. SolidEnd(<<>>) = 0
    BY <2>1, SolidEndPlace
  <2> QED
    BY <2>2, SubSeqEmpty DEF TrimEnd, SolidEnd
<1>2. ASSUME NEW text \in Texts  PROVE TrimEnd(text) \in Texts
  <2>1. SolidEnd(text) \in 0 .. Len(text) /\ Len(text) \in Nat
    BY SolidEndPlace
  <2>2. 1 \in Int /\ SolidEnd(text) \in Int /\ \A i \in 1 .. SolidEnd(text) : text[i] \in Chars
    BY <2>1, ElementOfSeq DEF Texts
  <2> QED
    BY <2>2, SubSeqProperties DEF TrimEnd, SolidEnd, Texts
<1>3. ASSUME NEW text \in Texts, NEW c \in Chars
      PROVE  TrimEnd(Append(text, c)) =
               IF c \in White THEN TrimEnd(text) ELSE Append(text, c)
  <2> DEFINE n == Len(text)
             more == Append(text, c)
  <2>1. /\ more \in Texts /\ Len(more) = n + 1 /\ more[n + 1] = c
        /\ \A i \in 1 .. n : more[i] = text[i]
    BY AppendProperties DEF Texts
  <2>2. n \in Nat /\ DOMAIN text = 1 .. n /\ DOMAIN more = 1 .. n + 1
    BY <2>1, LenProperties DEF Texts
  <2> HIDE DEF more
  <2>3. \A i : i \in 1 .. n + 1 <=> i \in 1 .. n \/ i = n + 1
    BY <2>2
  <2> HIDE DEF n
  <2>4. CASE c \in White
    <3>1. Solid(more) = Solid(text)
      <4>1. \A i \in 1 .. n : more[i] \notin White <=> text[i] \notin White
        BY <2>1
      <4> QED
        BY <2>1, <2>2, <2>3, <2>4, <4>1 DEF Solid
    <3> DEFINE m == SolidEnd(text)
    <3>2. TrimEnd(more) = SubSeq(more, 1, m) /\ TrimEnd(text) = SubSeq(text, 1, m)
      BY <3>1 DEF TrimEnd, SolidEnd
    <3>3. m \in 0 .. n
      BY SolidEndPlace DEF n
    <3> HIDE DEF m
    <3>4. CASE m = 0
      <4>1. SubSeq(more, 1, m) = <<>> /\ SubSeq(text, 1, m) = <<>>
        BY <3>4, SubSeqEmpty
      <4> QED
        BY <2>4, <3>2, <4>1 DEF more
    <3>5. CASE m # 0
      <4>1. 1 \in 1 .. n /\ m \in 1 .. n
        BY <2>2, <3>3, <3>5
      <4>2. more = text \o <<c>> /\ <<c>> \in Seq(Chars)
        BY AppendIsConcat DEF more, Texts
      <4>3. SubSeq(text \o <<c>>, 1, m) = SubSeq(text, 1, m)
        BY <4>1, <4>2, SubSeqOfConcat1 DEF n, Texts
      <4> QED
        BY <2>4, <3>2, <4>2, <4>3 DEF more
    <3> QED
      BY <3>4, <3>5
  <2>5. CASE c \notin White
    <3>1. n + 1 \in Solid(more)
      BY <2>1, <2>2, <2>3, <2>5 DEF Solid
    <3>2. SolidEnd(more) \in 0 .. n + 1 /\ SolidEnd(more) >= n + 1
      BY <2>1, <3>1, SolidEndPlace
    <3>3. SolidEnd(more) = Len(more)
      BY <2>1, <2>2, <3>2
    <3>4. TrimEnd(more) = more
      BY <2>1, <3>3, SubSeqFull DEF TrimEnd, SolidEnd, Texts
    <3> QED
      BY <2>5, <3>4 DEF more
  <2> QED
    BY <2>4, <2>5
<1> QED
  BY <1>1, <1>2, <1>3

\* A line is kept, or is not.
LEMMA KeepLineTyped ==
  /\ <<>> \in Seq(Texts)
  /\ \A lines \in Seq(Texts), piece \in Texts : KeepLine(lines, piece) \in Seq(Texts)
<1>1. ASSUME NEW lines \in Seq(Texts), NEW piece \in Texts
      PROVE  KeepLine(lines, piece) \in Seq(Texts)
  <2>1. TrimEnd(piece) \in Texts
    BY TrimEndReads
  <2>2. Append(lines, TrimEnd(piece)) \in Seq(Texts)
    BY <2>1, AppendProperties
  <2> QED
    BY <2>2 DEF KeepLine
<1> QED
  BY <1>1, EmptySeq

-----------------------------------------------------------------------------
(* What is read of a longer text.                                          *)

\* The bytes are joined one after the other.
JoinedStep == [text \in Seq(Undecoded) |-> [c \in Bytes |-> Decode(text, c)]]

LEMMA JoinedWalked ==
  ASSUME NEW bytes \in Seq(Bytes)
  PROVE  /\ StepOn(Seq(Undecoded), Bytes, JoinedStep, <<>>)
         /\ \E g : /\ FoldedBy(Seq(Undecoded), JoinedStep, <<>>, bytes, g)
                  /\ Joined(bytes) = g[1 .. Len(bytes)]
<1> DEFINE n == Len(bytes)
           Is(g) == g = [s \in SUBSET (1 .. n) |->
                           IF s = {} THEN <<>>
                           ELSE Decode(g[s \ {Max(s)}], bytes[Max(s)])]
<1>1. n \in Nat /\ DOMAIN bytes = 1 .. n /\ \A i \in 1 .. n : bytes[i] \in Bytes
  BY LenProperties, ElementOfSeq
<1>2. StepOn(Seq(Undecoded), Bytes, JoinedStep, <<>>)
  BY DecodeTyped DEF StepOn, JoinedStep
<1>3. ASSUME NEW g, NEW s \in SUBSET (1 .. n), s # {}, g[s \ {Max(s)}] \in Seq(Undecoded)
      PROVE  JoinedStep[g[s \ {Max(s)}]][bytes[Max(s)]] =
               Decode(g[s \ {Max(s)}], bytes[Max(s)])
  <2>1. bytes[Max(s)] \in Bytes
    BY <1>1, <1>3, LastPlace
  <2> QED
    BY <1>3, <2>1 DEF JoinedStep
<1> HIDE DEF n
<1>4. \E g : Is(g)
  <2>1. PICK g \in [SUBSET (1 .. n) -> Seq(Undecoded)] :
          Folds(JoinedStep, <<>>, bytes, 1 .. n, g)
    BY <1>2, FoldsExist DEF n
  <2>2. ASSUME NEW s \in SUBSET (1 .. n), s # {}  PROVE g[s \ {Max(s)}] \in Seq(Undecoded)
    BY <1>1, <2>2, LastPlace
  <2>3. Is(g)
    BY <1>3, <2>1, <2>2 DEF Folds
  <2> HIDE DEF Is
  <2> QED
    BY <2>3
<1> DEFINE g == CHOOSE f : Is(f)
<1>5. Joined(bytes) = g[1 .. n]
  BY <1>1 DEF Joined, FoldLeft, MapThenFoldSet
<1>6. Is(g)
  BY <1>4
<1> HIDE DEF g
<1>7. FoldedBy(Seq(Undecoded), JoinedStep, <<>>, bytes, g)
  BY <1>3, <1>6 DEF FoldedBy, n
<1> HIDE DEF Is
<1> QED
  BY <1>2, <1>5, <1>7 DEF n

\* One byte more.
LEMMA JoinedReads ==
  /\ Joined(<<>>) = <<>>
  /\ \A bytes \in Seq(Bytes) : Joined(bytes) \in Seq(Undecoded)
  /\ \A bytes \in Seq(Bytes), c \in Bytes :
       Joined(Append(bytes, c)) = Decode(Joined(bytes), c)
<1> DEFINE all == [bytes \in Seq(Bytes) |-> Joined(bytes)]
<1>1. /\ <<>> \in Seq(Bytes) /\ StepOn(Seq(Undecoded), Bytes, JoinedStep, <<>>)
      /\ \A bytes \in Seq(Bytes) :
           \E g : /\ FoldedBy(Seq(Undecoded), JoinedStep, <<>>, bytes, g)
                  /\ all[bytes] = g[1 .. Len(bytes)]
  BY EmptySeq, JoinedWalked
<1>2. \A bytes \in Seq(Bytes) : all[bytes] = Joined(bytes)
  OBVIOUS
<1> HIDE DEF all
<1>3. /\ all[<<>>] = <<>>
      /\ \A bytes \in Seq(Bytes) : all[bytes] \in Seq(Undecoded)
      /\ \A bytes \in Seq(Bytes), c \in Bytes :
           all[Append(bytes, c)] = JoinedStep[all[bytes]][c]
  BY <1>1, FoldReads
<1>4. ASSUME NEW bytes \in Seq(Bytes), NEW c \in Bytes
      PROVE  Joined(Append(bytes, c)) = Decode(Joined(bytes), c)
  <2>1. Append(bytes, c) \in Seq(Bytes)
    BY AppendProperties
  <2>2. /\ Joined(Append(bytes, c)) = JoinedStep[Joined(bytes)][c]
        /\ Joined(bytes) \in Seq(Undecoded)
    BY <1>2, <1>3, <2>1
  <2> QED
    BY <2>2 DEF JoinedStep
<1> QED
  BY <1>1, <1>2, <1>3, <1>4

\* The ends of lines are made one by one.
NewlinesOnlyStep == [t \in Texts |-> [c \in Chars |-> EndLine(t, c)]]

LEMMA NewlinesOnlyWalked ==
  ASSUME NEW text \in Seq(Chars)
  PROVE  /\ StepOn(Texts, Chars, NewlinesOnlyStep, <<>>)
         /\ \E g : /\ FoldedBy(Texts, NewlinesOnlyStep, <<>>, text, g)
                  /\ NewlinesOnly(text) = g[1 .. Len(text)]
<1> DEFINE n == Len(text)
           Is(g) == g = [s \in SUBSET (1 .. n) |->
                           IF s = {} THEN <<>>
                           ELSE EndLine(g[s \ {Max(s)}], text[Max(s)])]
<1>1. n \in Nat /\ DOMAIN text = 1 .. n /\ \A i \in 1 .. n : text[i] \in Chars
  BY LenProperties, ElementOfSeq
<1>2. StepOn(Texts, Chars, NewlinesOnlyStep, <<>>)
  BY EndLineTyped DEF StepOn, NewlinesOnlyStep
<1>3. ASSUME NEW g, NEW s \in SUBSET (1 .. n), s # {}, g[s \ {Max(s)}] \in Texts
      PROVE  NewlinesOnlyStep[g[s \ {Max(s)}]][text[Max(s)]] =
               EndLine(g[s \ {Max(s)}], text[Max(s)])
  <2>1. text[Max(s)] \in Chars
    BY <1>1, <1>3, LastPlace
  <2> QED
    BY <1>3, <2>1 DEF NewlinesOnlyStep
<1> HIDE DEF n
<1>4. \E g : Is(g)
  <2>1. PICK g \in [SUBSET (1 .. n) -> Texts] :
          Folds(NewlinesOnlyStep, <<>>, text, 1 .. n, g)
    BY <1>2, FoldsExist DEF n
  <2>2. ASSUME NEW s \in SUBSET (1 .. n), s # {}  PROVE g[s \ {Max(s)}] \in Texts
    BY <1>1, <2>2, LastPlace
  <2>3. Is(g)
    BY <1>3, <2>1, <2>2 DEF Folds
  <2> HIDE DEF Is
  <2> QED
    BY <2>3
<1> DEFINE g == CHOOSE f : Is(f)
<1>5. NewlinesOnly(text) = g[1 .. n]
  BY <1>1 DEF NewlinesOnly, FoldLeft, MapThenFoldSet
<1>6. Is(g)
  BY <1>4
<1> HIDE DEF g
<1>7. FoldedBy(Texts, NewlinesOnlyStep, <<>>, text, g)
  BY <1>3, <1>6 DEF FoldedBy, n
<1> HIDE DEF Is
<1> QED
  BY <1>2, <1>5, <1>7 DEF n

\* One character more.
LEMMA NewlinesOnlyReads ==
  /\ NewlinesOnly(<<>>) = <<>>
  /\ \A text \in Seq(Chars) : NewlinesOnly(text) \in Texts
  /\ \A text \in Seq(Chars), c \in Chars :
       NewlinesOnly(Append(text, c)) = EndLine(NewlinesOnly(text), c)
<1> DEFINE all == [text \in Seq(Chars) |-> NewlinesOnly(text)]
<1>1. /\ <<>> \in Seq(Chars) /\ StepOn(Texts, Chars, NewlinesOnlyStep, <<>>)
      /\ \A text \in Seq(Chars) :
           \E g : /\ FoldedBy(Texts, NewlinesOnlyStep, <<>>, text, g)
                  /\ all[text] = g[1 .. Len(text)]
  BY EmptySeq, NewlinesOnlyWalked
<1>2. \A text \in Seq(Chars) : all[text] = NewlinesOnly(text)
  OBVIOUS
<1> HIDE DEF all
<1>3. /\ all[<<>>] = <<>>
      /\ \A text \in Seq(Chars) : all[text] \in Texts
      /\ \A text \in Seq(Chars), c \in Chars :
           all[Append(text, c)] = NewlinesOnlyStep[all[text]][c]
  BY <1>1, FoldReads
<1>4. ASSUME NEW text \in Seq(Chars), NEW c \in Chars
      PROVE  NewlinesOnly(Append(text, c)) = EndLine(NewlinesOnly(text), c)
  <2>1. Append(text, c) \in Seq(Chars)
    BY AppendProperties
  <2>2. /\ NewlinesOnly(Append(text, c)) = NewlinesOnlyStep[NewlinesOnly(text)][c]
        /\ NewlinesOnly(text) \in Texts
    BY <1>2, <1>3, <2>1
  <2> QED
    BY <2>2 DEF NewlinesOnlyStep
<1> QED
  BY <1>1, <1>2, <1>3, <1>4

\* A text is cut from left to right.
SplitStep == [pieces \in Pieces |-> [c \in Chars |-> Cut(pieces, c)]]

LEMMA SplitWalked ==
  ASSUME NEW text \in Seq(Chars)
  PROVE  /\ StepOn(Pieces, Chars, SplitStep, << <<>> >>)
         /\ \E g : /\ FoldedBy(Pieces, SplitStep, << <<>> >>, text, g)
                  /\ Split(text) = g[1 .. Len(text)]
<1> DEFINE n == Len(text)
           Is(g) == g = [s \in SUBSET (1 .. n) |->
                           IF s = {} THEN << <<>> >>
                           ELSE Cut(g[s \ {Max(s)}], text[Max(s)])]
<1>1. n \in Nat /\ DOMAIN text = 1 .. n /\ \A i \in 1 .. n : text[i] \in Chars
  BY LenProperties, ElementOfSeq
<1>2. StepOn(Pieces, Chars, SplitStep, << <<>> >>)
  BY CutTyped DEF StepOn, SplitStep
<1>3. ASSUME NEW g, NEW s \in SUBSET (1 .. n), s # {}, g[s \ {Max(s)}] \in Pieces
      PROVE  SplitStep[g[s \ {Max(s)}]][text[Max(s)]] =
               Cut(g[s \ {Max(s)}], text[Max(s)])
  <2>1. text[Max(s)] \in Chars
    BY <1>1, <1>3, LastPlace
  <2> QED
    BY <1>3, <2>1 DEF SplitStep
<1> HIDE DEF n
<1>4. \E g : Is(g)
  <2>1. PICK g \in [SUBSET (1 .. n) -> Pieces] :
          Folds(SplitStep, << <<>> >>, text, 1 .. n, g)
    BY <1>2, FoldsExist DEF n
  <2>2. ASSUME NEW s \in SUBSET (1 .. n), s # {}  PROVE g[s \ {Max(s)}] \in Pieces
    BY <1>1, <2>2, LastPlace
  <2>3. Is(g)
    BY <1>3, <2>1, <2>2 DEF Folds
  <2> HIDE DEF Is
  <2> QED
    BY <2>3
<1> DEFINE g == CHOOSE f : Is(f)
<1>5. Split(text) = g[1 .. n]
  BY <1>1 DEF Split, FoldLeft, MapThenFoldSet
<1>6. Is(g)
  BY <1>4
<1> HIDE DEF g
<1>7. FoldedBy(Pieces, SplitStep, << <<>> >>, text, g)
  BY <1>3, <1>6 DEF FoldedBy, n
<1> HIDE DEF Is
<1> QED
  BY <1>2, <1>5, <1>7 DEF n

\* One character more.
LEMMA SplitReads ==
  /\ Split(<<>>) = << <<>> >>
  /\ \A text \in Seq(Chars) : Split(text) \in Pieces
  /\ \A text \in Seq(Chars), c \in Chars :
       Split(Append(text, c)) = Cut(Split(text), c)
<1> DEFINE all == [text \in Seq(Chars) |-> Split(text)]
<1>1. /\ <<>> \in Seq(Chars) /\ StepOn(Pieces, Chars, SplitStep, << <<>> >>)
      /\ \A text \in Seq(Chars) :
           \E g : /\ FoldedBy(Pieces, SplitStep, << <<>> >>, text, g)
                  /\ all[text] = g[1 .. Len(text)]
  BY EmptySeq, SplitWalked
<1>2. \A text \in Seq(Chars) : all[text] = Split(text)
  OBVIOUS
<1> HIDE DEF all
<1>3. /\ all[<<>>] = << <<>> >>
      /\ \A text \in Seq(Chars) : all[text] \in Pieces
      /\ \A text \in Seq(Chars), c \in Chars :
           all[Append(text, c)] = SplitStep[all[text]][c]
  BY <1>1, FoldReads
<1>4. ASSUME NEW text \in Seq(Chars), NEW c \in Chars
      PROVE  Split(Append(text, c)) = Cut(Split(text), c)
  <2>1. Append(text, c) \in Seq(Chars)
    BY AppendProperties
  <2>2. /\ Split(Append(text, c)) = SplitStep[Split(text)][c]
        /\ Split(text) \in Pieces
    BY <1>2, <1>3, <2>1
  <2> QED
    BY <2>2 DEF SplitStep
<1> QED
  BY <1>1, <1>2, <1>3, <1>4

\* The lines are kept one by one.
LinesStep == [lines \in Seq(Texts) |-> [c \in Texts |-> KeepLine(lines, c)]]

LEMMA LinesWalked ==
  ASSUME NEW pieces \in Seq(Texts)
  PROVE  /\ StepOn(Seq(Texts), Texts, LinesStep, <<>>)
         /\ \E g : /\ FoldedBy(Seq(Texts), LinesStep, <<>>, pieces, g)
                  /\ Lines(pieces) = g[1 .. Len(pieces)]
<1> DEFINE n == Len(pieces)
           Is(g) == g = [s \in SUBSET (1 .. n) |->
                           IF s = {} THEN <<>>
                           ELSE KeepLine(g[s \ {Max(s)}], pieces[Max(s)])]
<1>1. n \in Nat /\ DOMAIN pieces = 1 .. n /\ \A i \in 1 .. n : pieces[i] \in Texts
  BY LenProperties, ElementOfSeq
<1>2. StepOn(Seq(Texts), Texts, LinesStep, <<>>)
  BY KeepLineTyped DEF StepOn, LinesStep
<1>3. ASSUME NEW g, NEW s \in SUBSET (1 .. n), s # {}, g[s \ {Max(s)}] \in Seq(Texts)
      PROVE  LinesStep[g[s \ {Max(s)}]][pieces[Max(s)]] =
               KeepLine(g[s \ {Max(s)}], pieces[Max(s)])
  <2>1. pieces[Max(s)] \in Texts
    BY <1>1, <1>3, LastPlace
  <2> QED
    BY <1>3, <2>1 DEF LinesStep
<1> HIDE DEF n
<1>4. \E g : Is(g)
  <2>1. PICK g \in [SUBSET (1 .. n) -> Seq(Texts)] :
          Folds(LinesStep, <<>>, pieces, 1 .. n, g)
    BY <1>2, FoldsExist DEF n
  <2>2. ASSUME NEW s \in SUBSET (1 .. n), s # {}  PROVE g[s \ {Max(s)}] \in Seq(Texts)
    BY <1>1, <2>2, LastPlace
  <2>3. Is(g)
    BY <1>3, <2>1, <2>2 DEF Folds
  <2> HIDE DEF Is
  <2> QED
    BY <2>3
<1> DEFINE g == CHOOSE f : Is(f)
<1>5. Lines(pieces) = g[1 .. n]
  BY <1>1 DEF Lines, FoldLeft, MapThenFoldSet
<1>6. Is(g)
  BY <1>4
<1> HIDE DEF g
<1>7. FoldedBy(Seq(Texts), LinesStep, <<>>, pieces, g)
  BY <1>3, <1>6 DEF FoldedBy, n
<1> HIDE DEF Is
<1> QED
  BY <1>2, <1>5, <1>7 DEF n

\* One piece more.
LEMMA LinesReads ==
  /\ Lines(<<>>) = <<>>
  /\ \A pieces \in Seq(Texts) : Lines(pieces) \in Seq(Texts)
  /\ \A pieces \in Seq(Texts), c \in Texts :
       Lines(Append(pieces, c)) = KeepLine(Lines(pieces), c)
<1> DEFINE all == [pieces \in Seq(Texts) |-> Lines(pieces)]
<1>1. /\ <<>> \in Seq(Texts) /\ StepOn(Seq(Texts), Texts, LinesStep, <<>>)
      /\ \A pieces \in Seq(Texts) :
           \E g : /\ FoldedBy(Seq(Texts), LinesStep, <<>>, pieces, g)
                  /\ all[pieces] = g[1 .. Len(pieces)]
  BY EmptySeq, LinesWalked
<1>2. \A pieces \in Seq(Texts) : all[pieces] = Lines(pieces)
  OBVIOUS
<1> HIDE DEF all
<1>3. /\ all[<<>>] = <<>>
      /\ \A pieces \in Seq(Texts) : all[pieces] \in Seq(Texts)
      /\ \A pieces \in Seq(Texts), c \in Texts :
           all[Append(pieces, c)] = LinesStep[all[pieces]][c]
  BY <1>1, FoldReads
<1>4. ASSUME NEW pieces \in Seq(Texts), NEW c \in Texts
      PROVE  Lines(Append(pieces, c)) = KeepLine(Lines(pieces), c)
  <2>1. Append(pieces, c) \in Seq(Texts)
    BY AppendProperties
  <2>2. /\ Lines(Append(pieces, c)) = LinesStep[Lines(pieces)][c]
        /\ Lines(pieces) \in Seq(Texts)
    BY <1>2, <1>3, <2>1
  <2> QED
    BY <2>2 DEF LinesStep
<1> QED
  BY <1>1, <1>2, <1>3, <1>4

-----------------------------------------------------------------------------
(* Pieces, and the lines that are made of them.                            *)

\* The line that is read last is that of the last piece.
LEMMA PiecesEnd ==
  ASSUME NEW p \in Pieces
  PROVE  /\ p \in Seq(Texts) /\ p # <<>> /\ Front(p) \in Seq(Texts) /\ Last(p) \in Texts
         /\ p = Append(Front(p), Last(p)) /\ Lines(p) \in Seq(Texts)
         /\ Lines(Front(p)) \in Seq(Texts)
         /\ Lines(p) = KeepLine(Lines(Front(p)), Last(p))
<1>1. p \in Seq(Texts) /\ p # <<>>
  BY DEF Pieces
<1>2. Front(p) \in Seq(Texts) /\ Last(p) \in Texts /\ p = Append(Front(p), Last(p))
  BY <1>1, FrontLast
<1>3. Lines(Append(Front(p), Last(p))) = KeepLine(Lines(Front(p)), Last(p))
  BY <1>2, LinesReads
<1>4. Lines(p) \in Seq(Texts) /\ Lines(Front(p)) \in Seq(Texts)
  BY <1>1, <1>2, LinesReads
<1> QED
  BY <1>1, <1>2, <1>3, <1>4

\* A newline ends the last piece, another character is added to it.
LEMMA CutEnd ==
  ASSUME NEW p \in Pieces, NEW c \in Chars
  PROVE  /\ Cut(p, c) \in Pieces
         /\ c = "n" => Front(Cut(p, c)) = p /\ Last(Cut(p, c)) = <<>>
         /\ c # "n" => /\ Front(Cut(p, c)) = Front(p)
                       /\ Last(Cut(p, c)) = Append(Last(p), c)
<1>1. p \in Seq(Texts) /\ Front(p) \in Seq(Texts) /\ Last(p) \in Texts
  BY PiecesEnd
<1>2. <<>> \in Texts /\ Append(Last(p), c) \in Texts
  BY <1>1, EmptySeq, AppendProperties DEF Texts
<1>3. Front(Append(p, <<>>)) = p /\ Last(Append(p, <<>>)) = <<>>
  BY <1>1, <1>2, LastAppended
<1>4. /\ Front(Append(Front(p), Append(Last(p), c))) = Front(p)
      /\ Last(Append(Front(p), Append(Last(p), c))) = Append(Last(p), c)
  BY <1>1, <1>2, LastAppended
<1> QED
  BY <1>3, <1>4, CutTyped DEF Cut

\* The pieces of a longer text.
LEMMA SplitEnd ==
  ASSUME NEW t \in Texts, NEW c \in Chars
  PROVE  /\ Append(t, c) \in Texts /\ Split(t) \in Pieces /\ Split(Append(t, c)) \in Pieces
         /\ c = "n" => /\ Front(Split(Append(t, c))) = Split(t)
                       /\ Last(Split(Append(t, c))) = <<>>
         /\ c # "n" => /\ Front(Split(Append(t, c))) = Front(Split(t))
                       /\ Last(Split(Append(t, c))) = Append(Last(Split(t)), c)
<1>1. Append(t, c) \in Texts /\ Split(t) \in Pieces /\ Split(Append(t, c)) = Cut(Split(t), c)
  BY SplitReads, AppendProperties DEF Texts
<1> QED
  BY <1>1, CutEnd

\* White characters at the end of a piece make no other line of it.
LEMMA KeptAlike ==
  ASSUME NEW lines, NEW t \in Texts, NEW c \in White
  PROVE  KeepLine(lines, Append(t, c)) = KeepLine(lines, t) /\ KeepLine(lines, <<>>) = lines
<1>1. c \in Chars
  BY DEF White, Chars
<1>2. TrimEnd(Append(t, c)) = TrimEnd(t) /\ TrimEnd(<<>>) = <<>>
  BY <1>1, TrimEndReads
<1> QED
  BY <1>2 DEF KeepLine

\* The lines of some pieces are followed by the lines of others.
LEMMA LinesOn ==
  ASSUME NEW p \in Seq(Texts), NEW q \in Seq(Texts)
  PROVE  /\ p \o q \in Seq(Texts) /\ Lines(p) \in Seq(Texts) /\ Lines(q) \in Seq(Texts)
         /\ Lines(p \o q) = Lines(p) \o Lines(q)
<1> DEFINE S == {r \in Seq(Texts) : Lines(p \o r) = Lines(p) \o Lines(r)}
<1>1. \A r \in Seq(Texts) : p \o r \in Seq(Texts) /\ Lines(r) \in Seq(Texts)
  BY ConcatProperties, LinesReads
<1>2. <<>> \in S
  <2>1. <<>> \in Seq(Texts) /\ p \o <<>> = p /\ Lines(p) \o <<>> = Lines(p)
    BY <1>1, EmptySeq, ConcatEmptySeq
  <2> QED
    BY <2>1, LinesReads
<1>3. ASSUME NEW r \in Seq(Texts), NEW t \in Texts, r \in S  PROVE Append(r, t) \in S
  <2>1. Append(r, t) \in Seq(Texts) /\ p \o Append(r, t) = Append(p \o r, t)
    BY AppendProperties, ConcatAppend
  <2>2. /\ Lines(Append(p \o r, t)) = KeepLine(Lines(p \o r), t)
        /\ Lines(Append(r, t)) = KeepLine(Lines(r), t)
    BY <1>1, LinesReads
  <2>3. TrimEnd(t) \in Texts
    BY TrimEndReads
  <2>4. Lines(p) \o Append(Lines(r), TrimEnd(t)) = Append(Lines(p) \o Lines(r), TrimEnd(t))
    BY <1>1, <2>3, ConcatAppend
  <2>5. KeepLine(Lines(p) \o Lines(r), t) = Lines(p) \o KeepLine(Lines(r), t)
    BY <2>4 DEF KeepLine
  <2> QED
    BY <1>3, <2>1, <2>2, <2>5
<1> HIDE DEF S
<1>4. Seq(Texts) \subseteq S
  BY <1>2, <1>3, SequenceInduction
<1> QED
  BY <1>1, <1>4 DEF S

\* The last piece has no newline in it.
LEMMA LastPieceWhole ==
  ASSUME NEW t \in Texts
  PROVE  Split(Last(Split(t))) = <<Last(Split(t))>>
<1> DEFINE S == {u \in Texts : Split(Last(Split(u))) = <<Last(Split(u))>>}
<1>1. <<>> \in Texts /\ Split(<<>>) = << <<>> >> /\ Last(<< <<>> >>) = <<>>
  <2>1. <<>> \in Texts /\ Split(<<>>) = << <<>> >>
    BY SplitReads, EmptySeq DEF Texts
  <2> QED
    BY <2>1 DEF Last
<1>2. <<>> \in S
  BY <1>1
<1>3. ASSUME NEW u \in Texts, NEW c \in Chars, u \in S  PROVE Append(u, c) \in S
  <2>1. Append(u, c) \in Texts /\ Split(u) \in Pieces
    BY SplitEnd
  <2>2. CASE c = "n"
    BY <1>1, <2>1, <2>2, SplitEnd
  <2>3. CASE c # "n"
    <3> DEFINE b == Last(Split(u))
    <3>1. b \in Texts /\ Split(b) = <<b>> /\ Append(b, c) \in Texts
      BY <1>3, <2>1, PiecesEnd, SplitEnd
    <3>2. Last(Split(Append(u, c))) = Append(b, c)
      BY <2>3, SplitEnd
    <3> HIDE DEF b
    <3>3. Split(Append(b, c)) = Cut(Split(b), c)
      BY <3>1, SplitReads DEF Texts
    <3>4. <<>> \in Seq(Texts) /\ <<b>> = Append(<<>>, b)
          /\ <<Append(b, c)>> = Append(<<>>, Append(b, c))
      BY EmptySeq
    <3>5. Front(<<b>>) = <<>> /\ Last(<<b>>) = b
      <4>1. Front(Append(<<>>, b)) = <<>> /\ Last(Append(<<>>, b)) = b
        BY <3>1, <3>4, LastAppended
      <4> QED
        BY <3>4, <4>1
    <3>6. Split(Append(b, c)) = <<Append(b, c)>>
      BY <2>3, <3>1, <3>3, <3>4, <3>5 DEF Cut
    <3> QED
      BY <2>1, <3>2, <3>6
  <2> QED
    BY <2>2, <2>3
<1> HIDE DEF S
<1>4. Texts \subseteq S
  BY <1>2, <1>3, SequenceInduction DEF Texts
<1> QED
  BY <1>4 DEF S

\* Reading on after a text: its last piece is continued, the others stay.
LEMMA SplitOn ==
  ASSUME NEW t \in Texts, NEW d \in Texts
  PROVE  /\ t \o d \in Texts /\ Last(Split(t)) \o d \in Texts
         /\ Last(Split(t \o d)) = Last(Split(Last(Split(t)) \o d))
         /\ Lines(Front(Split(t \o d))) =
              Lines(Front(Split(t))) \o Lines(Front(Split(Last(Split(t)) \o d)))
<1> DEFINE b == Last(Split(t))
           Same(e) == /\ Last(Split(t \o e)) = Last(Split(b \o e))
                      /\ Front(Split(t \o e)) = Front(Split(t)) \o Front(Split(b \o e))
           S == {e \in Texts : Same(e)}
<1>1. b \in Texts /\ Split(t) \in Pieces /\ Front(Split(t)) \in Seq(Texts)
  BY SplitReads, PiecesEnd DEF Texts
<1>2. \A e \in Texts : t \o e \in Texts /\ b \o e \in Texts
  BY <1>1, ConcatProperties DEF Texts
<1> HIDE DEF b
<1>3. <<>> \in S
  <2>1. /\ <<>> \in Texts /\ t \o <<>> = t /\ b \o <<>> = b
        /\ Front(Split(t)) \o <<>> = Front(Split(t))
    BY <1>1, EmptySeq, ConcatEmptySeq DEF Texts
  <2>2. Split(b) = Append(<<>>, b) /\ <<>> \in Seq(Texts)
    BY LastPieceWhole, EmptySeq DEF b
  <2>3. Front(Split(b)) = <<>> /\ Last(Split(b)) = b
    BY <1>1, <2>2, LastAppended
  <2> QED
    BY <2>1, <2>3 DEF b
<1>4. ASSUME NEW e \in Texts, NEW c \in Chars, e \in S  PROVE Append(e, c) \in S
  <2>1. /\ Append(e, c) \in Texts /\ t \o Append(e, c) = Append(t \o e, c)
        /\ b \o Append(e, c) = Append(b \o e, c)
    BY <1>1, AppendProperties, ConcatAppend DEF Texts
  <2> DEFINE u == t \o e
             w == b \o e
  <2>2. u \in Texts /\ w \in Texts /\ Split(u) \in Pieces /\ Split(w) \in Pieces
    BY <1>2, SplitReads DEF Texts
  <2>3. Last(Split(u)) = Last(Split(w)) /\ Front(Split(u)) = Front(Split(t)) \o Front(Split(w))
    BY <1>4
  <2> HIDE DEF u, w
  <2>4. CASE c = "n"
    <3>1. /\ Split(u) = Append(Front(Split(u)), Last(Split(u)))
          /\ Split(w) = Append(Front(Split(w)), Last(Split(w)))
          /\ Front(Split(w)) \in Seq(Texts) /\ Last(Split(w)) \in Texts
      BY <2>2, PiecesEnd
    <3>2. Split(u) = Front(Split(t)) \o Split(w)
      <4>1. Front(Split(t)) \o Append(Front(Split(w)), Last(Split(w))) =
              Append(Front(Split(t)) \o Front(Split(w)), Last(Split(w)))
        BY <1>1, <3>1, ConcatAppend
      <4> QED
        BY <2>3, <3>1, <4>1
    <3>3. /\ Last(Split(Append(u, c))) = Last(Split(Append(w, c)))
          /\ Front(Split(Append(u, c))) = Front(Split(t)) \o Front(Split(Append(w, c)))
      BY <2>2, <2>4, <3>2, SplitEnd
    <3> QED
      BY <2>1, <3>3 DEF u, w
  <2>5. CASE c # "n"
    <3>1. /\ Front(Split(Append(u, c))) = Front(Split(u))
          /\ Last(Split(Append(u, c))) = Append(Last(Split(u)), c)
      BY <2>2, <2>5, SplitEnd
    <3>2. /\ Front(Split(Append(w, c))) = Front(Split(w))
          /\ Last(Split(Append(w, c))) = Append(Last(Split(w)), c)
      BY <2>2, <2>5, SplitEnd
    <3>3. /\ Last(Split(Append(u, c))) = Last(Split(Append(w, c)))
          /\ Front(Split(Append(u, c))) = Front(Split(t)) \o Front(Split(Append(w, c)))
      BY <2>3, <3>1, <3>2
    <3> QED
      BY <2>1, <3>3 DEF u, w
  <2> QED
    BY <2>4, <2>5
<1> HIDE DEF S
<1>5. Texts \subseteq S
  BY <1>3, <1>4, SequenceInduction DEF Texts
<1>6. Same(d)
  BY <1>5 DEF S
<1>7. Front(Split(b \o d)) \in Seq(Texts)
  BY <1>2, SplitReads, PiecesEnd DEF Texts
<1> QED
  BY <1>1, <1>2, <1>6, <1>7, LinesOn DEF b

\* What matters of a text: its complete lines, and its last piece.
SameLines(t, u) ==
  Lines(Front(Split(t))) = Lines(Front(Split(u))) /\ Last(Split(t)) = Last(Split(u))

\* Texts with the same lines have the same lines with one more character.
LEMMA SameLinesOn ==
  ASSUME NEW t \in Texts, NEW u \in Texts, SameLines(t, u), NEW c \in Chars
  PROVE  Lines(Split(t)) = Lines(Split(u)) /\ SameLines(Append(t, c), Append(u, c))
<1>1. Split(t) \in Pieces /\ Split(u) \in Pieces
  BY SplitEnd
<1>2. Lines(Split(t)) = Lines(Split(u))
  BY <1>1, PiecesEnd DEF SameLines
<1>3. CASE c = "n"
  BY <1>2, <1>3, SplitEnd DEF SameLines
<1>4. CASE c # "n"
  <2>1. /\ Front(Split(Append(t, c))) = Front(Split(t))
        /\ Last(Split(Append(t, c))) = Append(Last(Split(t)), c)
    BY <1>4, SplitEnd
  <2>2. /\ Front(Split(Append(u, c))) = Front(Split(u))
        /\ Last(Split(Append(u, c))) = Append(Last(Split(u)), c)
    BY <1>4, SplitEnd
  <2> QED
    BY <1>2, <2>1, <2>2 DEF SameLines
<1> QED
  BY <1>2, <1>3, <1>4

\* The "\r" before a newline is trimmed from its line, whether it is dropped or not.
LEMMA NewlinesAlike ==
  ASSUME NEW t \in Texts
  PROVE  NewlinesOnly(t) \in Texts /\ SameLines(NewlinesOnly(t), t)
<1> DEFINE S == {u \in Texts : SameLines(NewlinesOnly(u), u)}
<1>1. \A u \in Texts : NewlinesOnly(u) \in Texts
  BY NewlinesOnlyReads DEF Texts
<1>2. <<>> \in S
  <2>1. <<>> \in Texts /\ NewlinesOnly(<<>>) = <<>>
    BY NewlinesOnlyReads, EmptySeq DEF Texts
  <2> QED
    BY <2>1 DEF SameLines
<1>3. ASSUME NEW u \in Texts, NEW c \in Chars, u \in S  PROVE Append(u, c) \in S
  <2> DEFINE v == NewlinesOnly(u)
  <2>1. /\ v \in Texts /\ SameLines(v, u) /\ Append(u, c) \in Texts
        /\ NewlinesOnly(Append(u, c)) = EndLine(v, c)
    BY <1>1, <1>3, SplitEnd, NewlinesOnlyReads DEF Texts
  <2> HIDE DEF v
  <2>2. CASE ~(c = "n" /\ v # <<>> /\ Last(v) = "r")
    <3>1. EndLine(v, c) = Append(v, c)
      BY <2>2 DEF EndLine
    <3> QED
      BY <2>1, <3>1, SameLinesOn
  <2>3. CASE c = "n" /\ v # <<>> /\ Last(v) = "r"
    <3> DEFINE w == Front(v)
    <3>1. w \in Texts /\ v = Append(w, "r") /\ "r" \in Chars /\ "r" \in White
      BY <2>1, <2>3, FrontLast DEF Texts, Chars, White
    <3>2. EndLine(v, c) = Append(w, c)
      BY <2>3 DEF EndLine
    <3> HIDE DEF w
    <3>3. Split(w) \in Pieces /\ Split(u) \in Pieces /\ Split(v) \in Pieces
      BY <2>1, <3>1, SplitEnd
    <3>4. Front(Split(v)) = Front(Split(w)) /\ Last(Split(v)) = Append(Last(Split(w)), "r")
      BY <3>1, SplitEnd
    <3>5. Lines(Split(w)) = KeepLine(Lines(Front(Split(w))), Last(Split(w)))
      BY <3>3, PiecesEnd
    <3>6. Lines(Split(v)) = KeepLine(Lines(Front(Split(w))), Append(Last(Split(w)), "r"))
      BY <3>3, <3>4, PiecesEnd
    <3>7. Lines(Split(w)) = Lines(Split(v))
      BY <3>1, <3>3, <3>5, <3>6, PiecesEnd, KeptAlike
    <3>8. Lines(Split(v)) = Lines(Split(u))
      BY <2>1, SameLinesOn
    <3>9. /\ Front(Split(Append(w, c))) = Split(w) /\ Last(Split(Append(w, c))) = <<>>
          /\ Front(Split(Append(u, c))) = Split(u) /\ Last(Split(Append(u, c))) = <<>>
      BY <2>3, <3>1, SplitEnd
    <3>10. SameLines(Append(w, c), Append(u, c))
      BY <3>7, <3>8, <3>9 DEF SameLines
    <3> QED
      BY <2>1, <3>2, <3>10
  <2> QED
    BY <2>2, <2>3
<1> HIDE DEF S
<1>4. Texts \subseteq S
  BY <1>2, <1>3, SequenceInduction DEF Texts
<1> QED
  BY <1>1, <1>4 DEF S

\* What is trimmed from the end of a text is no line.
LEMMA TrimmedAlike ==
  ASSUME NEW t \in Texts
  PROVE  TrimEnd(t) \in Texts /\ Lines(Split(TrimEnd(t))) = Lines(Split(t))
<1> DEFINE S == {u \in Texts : Lines(Split(TrimEnd(u))) = Lines(Split(u))}
<1>1. <<>> \in S
  <2>1. <<>> \in Texts
    BY EmptySeq DEF Texts
  <2> QED
    BY <2>1, TrimEndReads
<1>2. ASSUME NEW u \in Texts, NEW c \in Chars, u \in S  PROVE Append(u, c) \in S
  <2>1. /\ Append(u, c) \in Texts /\ Split(u) \in Pieces /\ Split(Append(u, c)) \in Pieces
    BY SplitEnd
  <2>2. CASE c \notin White
    BY <2>1, <2>2, TrimEndReads
  <2>3. CASE c \in White
    <3>1. TrimEnd(Append(u, c)) = TrimEnd(u)
      BY <2>3, TrimEndReads
    <3>2. Lines(Split(Append(u, c))) =
            KeepLine(Lines(Front(Split(Append(u, c)))), Last(Split(Append(u, c))))
      BY <2>1, PiecesEnd
    <3>3. Last(Split(u)) \in Texts
          /\ Lines(Split(u)) = KeepLine(Lines(Front(Split(u))), Last(Split(u)))
      BY <2>1, PiecesEnd
    <3>4. CASE c = "n"
      <4>1. Front(Split(Append(u, c))) = Split(u) /\ Last(Split(Append(u, c))) = <<>>
        BY <3>4, SplitEnd
      <4>2. Lines(Split(Append(u, c))) = KeepLine(Lines(Split(u)), <<>>)
        BY <3>2, <4>1
      <4>3. Lines(Split(Append(u, c))) = Lines(Split(u))
        BY <2>3, <3>3, <4>2, KeptAlike
      <4> QED
        BY <1>2, <2>1, <3>1, <4>3
    <3>5. CASE c # "n"
      <4>1. /\ Front(Split(Append(u, c))) = Front(Split(u))
            /\ Last(Split(Append(u, c))) = Append(Last(Split(u)), c)
        BY <3>5, SplitEnd
      <4>2. Lines(Split(Append(u, c))) =
              KeepLine(Lines(Front(Split(u))), Append(Last(Split(u)), c))
        BY <3>2, <4>1
      <4>3. Lines(Split(Append(u, c))) = Lines(Split(u))
        BY <2>3, <3>3, <4>2, KeptAlike
      <4> QED
        BY <1>2, <2>1, <3>1, <4>3
    <3> QED
      BY <3>4, <3>5
  <2> QED
    BY <2>2, <2>3
<1> HIDE DEF S
<1>3. Texts \subseteq S
  BY <1>1, <1>2, SequenceInduction DEF Texts
<1> QED
  BY <1>3, TrimEndReads DEF S

\* The reader of the last lines shows the lines of the output.
LEMMA ParsedAsSplit ==
  ASSUME NEW t \in Texts, t # <<>>, t[1] \notin White
  PROVE  ParseLogLines(t) = Lines(Split(t))
<1>1. Trim(t) = TrimEnd(t)
  <2>1. Len(t) \in Nat \ {0} /\ DOMAIN t = 1 .. Len(t)
    BY EmptySeq, LenProperties DEF Texts
  <2>2. 1 \in Solid(t)
    BY <2>1 DEF Solid
  <2>3. Solid(t) \in SUBSET (1 .. Len(t)) /\ Solid(t) # {}
    BY <2>2, SolidEndPlace
  <2>4. Min(Solid(t)) = 1
    <3>1. 1 \in Solid(t) /\ \A x \in Solid(t) : x \in Int /\ 1 <= x
      BY <2>1, <2>2, <2>3
    <3>2. \A x \in Solid(t) : (\A y \in Solid(t) : x <= y) => x = 1
      BY <3>1
    <3> QED
      BY <3>1, <3>2 DEF Min
  <2>5. Max(Solid(t)) = Max(Solid(t) \cup {0})
    <3>1. Solid(t) \in SUBSET (0 .. Len(t)) /\ Solid(t) \cup {0} \in SUBSET (0 .. Len(t))
          /\ Solid(t) \cup {0} # {}
      BY <2>1, <2>3
    <3> DEFINE m == Max(Solid(t))
               k == Max(Solid(t) \cup {0})
    <3>2. m \in Solid(t) /\ \A y \in Solid(t) : m >= y
      BY <2>1, <2>3, <3>1, MaxOfNumbers
    <3>3. k \in Solid(t) \cup {0} /\ \A y \in Solid(t) \cup {0} : k >= y
      BY <2>1, <3>1, MaxOfNumbers
    <3> HIDE DEF m, k
    <3>4. m \in 1 .. Len(t) /\ k \in 0 .. Len(t) /\ k >= m
      BY <2>1, <2>3, <3>1, <3>2, <3>3
    <3>5. k # 0
      BY <2>1, <3>4
    <3>6. m >= k
      BY <3>2, <3>3, <3>5
    <3>7. m = k
      BY <2>1, <3>4, <3>6
    <3> QED
      BY <3>7 DEF m, k
  <2> QED
    BY <2>3, <2>4, <2>5 DEF Trim, TrimEnd
<1> DEFINE u == TrimEnd(t)
<1>2. u \in Texts /\ Lines(Split(u)) = Lines(Split(t))
  BY TrimmedAlike
<1> HIDE DEF u
<1>3. NewlinesOnly(u) \in Texts /\ SameLines(NewlinesOnly(u), u)
  BY <1>2, NewlinesAlike
<1>4. Lines(Split(NewlinesOnly(u))) = Lines(Split(u))
  <2>1. Split(NewlinesOnly(u)) \in Pieces /\ Split(u) \in Pieces
    BY <1>2, <1>3, SplitReads DEF Texts
  <2> QED
    BY <1>3, <2>1, PiecesEnd DEF SameLines
<1> QED
  BY <1>1, <1>2, <1>4 DEF ParseLogLines, u

-----------------------------------------------------------------------------
(* Bytes and characters.                                                   *)

\* What docker writes is a letter, and bytes.
OutputOf(cs) == FoldLeft(Write, Letter, cs)

LEMMA CharactersTyped ==
  /\ Characters \subseteq Seq(Bytes) /\ Letter = <<"x">> /\ Letter \in Seq(Bytes)
  /\ \A bytes \in Seq(Bytes), character \in Characters : Write(bytes, character) \in Seq(Bytes)
<1>1. <<"x">> \in Seq(Bytes) /\ <<"s">> \in Seq(Bytes) /\ <<"r">> \in Seq(Bytes)
      /\ <<"n">> \in Seq(Bytes) /\ <<"h", "t">> \in Seq(Bytes)
  BY DEF Bytes
<1>2. Characters \subseteq Seq(Bytes) /\ Letter = <<"x">>
  BY <1>1 DEF Characters, Letter
<1> QED
  BY <1>1, <1>2, ConcatProperties DEF Write

\* The characters are written one after the other.
OutputOfStep == [bytes \in Seq(Bytes) |-> [c \in Characters |-> Write(bytes, c)]]

LEMMA OutputOfWalked ==
  ASSUME NEW cs \in Seq(Characters)
  PROVE  /\ StepOn(Seq(Bytes), Characters, OutputOfStep, Letter)
         /\ \E g : /\ FoldedBy(Seq(Bytes), OutputOfStep, Letter, cs, g)
                  /\ OutputOf(cs) = g[1 .. Len(cs)]
<1> DEFINE n == Len(cs)
           Is(g) == g = [s \in SUBSET (1 .. n) |->
                           IF s = {} THEN Letter
                           ELSE Write(g[s \ {Max(s)}], cs[Max(s)])]
<1>1. n \in Nat /\ DOMAIN cs = 1 .. n /\ \A i \in 1 .. n : cs[i] \in Characters
  BY LenProperties, ElementOfSeq
<1>2. StepOn(Seq(Bytes), Characters, OutputOfStep, Letter)
  BY CharactersTyped DEF StepOn, OutputOfStep
<1>3. ASSUME NEW g, NEW s \in SUBSET (1 .. n), s # {}, g[s \ {Max(s)}] \in Seq(Bytes)
      PROVE  OutputOfStep[g[s \ {Max(s)}]][cs[Max(s)]] =
               Write(g[s \ {Max(s)}], cs[Max(s)])
  <2>1. cs[Max(s)] \in Characters
    BY <1>1, <1>3, LastPlace
  <2> QED
    BY <1>3, <2>1 DEF OutputOfStep
<1> HIDE DEF n
<1>4. \E g : Is(g)
  <2>1. PICK g \in [SUBSET (1 .. n) -> Seq(Bytes)] :
          Folds(OutputOfStep, Letter, cs, 1 .. n, g)
    BY <1>2, FoldsExist DEF n
  <2>2. ASSUME NEW s \in SUBSET (1 .. n), s # {}  PROVE g[s \ {Max(s)}] \in Seq(Bytes)
    BY <1>1, <2>2, LastPlace
  <2>3. Is(g)
    BY <1>3, <2>1, <2>2 DEF Folds
  <2> HIDE DEF Is
  <2> QED
    BY <2>3
<1> DEFINE g == CHOOSE f : Is(f)
<1>5. OutputOf(cs) = g[1 .. n]
  BY <1>1 DEF OutputOf, FoldLeft, MapThenFoldSet
<1>6. Is(g)
  BY <1>4
<1> HIDE DEF g
<1>7. FoldedBy(Seq(Bytes), OutputOfStep, Letter, cs, g)
  BY <1>3, <1>6 DEF FoldedBy, n
<1> HIDE DEF Is
<1> QED
  BY <1>2, <1>5, <1>7 DEF n

\* One character more.
LEMMA OutputOfReads ==
  /\ OutputOf(<<>>) = Letter
  /\ \A cs \in Seq(Characters) : OutputOf(cs) \in Seq(Bytes)
  /\ \A cs \in Seq(Characters), c \in Characters :
       OutputOf(Append(cs, c)) = Write(OutputOf(cs), c)
<1> DEFINE all == [cs \in Seq(Characters) |-> OutputOf(cs)]
<1>1. /\ <<>> \in Seq(Characters) /\ StepOn(Seq(Bytes), Characters, OutputOfStep, Letter)
      /\ \A cs \in Seq(Characters) :
           \E g : /\ FoldedBy(Seq(Bytes), OutputOfStep, Letter, cs, g)
                  /\ all[cs] = g[1 .. Len(cs)]
  BY EmptySeq, OutputOfWalked
<1>2. \A cs \in Seq(Characters) : all[cs] = OutputOf(cs)
  OBVIOUS
<1> HIDE DEF all
<1>3. /\ all[<<>>] = Letter
      /\ \A cs \in Seq(Characters) : all[cs] \in Seq(Bytes)
      /\ \A cs \in Seq(Characters), c \in Characters :
           all[Append(cs, c)] = OutputOfStep[all[cs]][c]
  BY <1>1, FoldReads
<1>4. ASSUME NEW cs \in Seq(Characters), NEW c \in Characters
      PROVE  OutputOf(Append(cs, c)) = Write(OutputOf(cs), c)
  <2>1. Append(cs, c) \in Seq(Characters)
    BY AppendProperties
  <2>2. /\ OutputOf(Append(cs, c)) = OutputOfStep[OutputOf(cs)][c]
        /\ OutputOf(cs) \in Seq(Bytes)
    BY <1>2, <1>3, <2>1
  <2> QED
    BY <2>2 DEF OutputOfStep
<1> QED
  BY <1>1, <1>2, <1>3, <1>4

\* An output begins with a letter.
LEMMA OutputsBegin ==
  ASSUME NEW bytes \in Outputs
  PROVE  \E rest \in Seq(Bytes) : bytes = <<"x">> \o rest
<1> DEFINE S == {cs \in Seq(Characters) :
                   \E rest \in Seq(Bytes) : OutputOf(cs) = <<"x">> \o rest}
<1>1. <<>> \in S
  <2>1. /\ <<>> \in Seq(Bytes) /\ <<>> \in Seq(Characters)
        /\ <<"x">> \o <<>> = <<"x">> /\ OutputOf(<<>>) = <<"x">>
    BY EmptySeq, ConcatEmptySeq, CharactersTyped, OutputOfReads
  <2> QED
    BY <2>1
<1>2. ASSUME NEW cs \in Seq(Characters), NEW c \in Characters, cs \in S
      PROVE  Append(cs, c) \in S
  <2>1. PICK rest \in Seq(Bytes) : OutputOf(cs) = <<"x">> \o rest
    BY <1>2
  <2>2. /\ c \in Seq(Bytes) /\ rest \o c \in Seq(Bytes) /\ <<"x">> \in Seq(Bytes)
        /\ Append(cs, c) \in Seq(Characters)
    BY CharactersTyped, ConcatProperties, AppendProperties
  <2>3. OutputOf(Append(cs, c)) = (<<"x">> \o rest) \o c
    BY <2>1, OutputOfReads DEF Write
  <2>4. OutputOf(Append(cs, c)) = <<"x">> \o (rest \o c)
    BY <2>2, <2>3, ConcatAssociative
  <2> QED
    BY <2>2, <2>4
<1> HIDE DEF S
<1>3. Seq(Characters) \subseteq S
  BY <1>1, <1>2, SequenceInduction
<1>4. PICK n \in 0 .. MaxOutput : \E cs \in [1 .. n -> Characters] : bytes = OutputOf(cs)
  BY DEF Outputs, OutputOf
<1>5. PICK cs \in [1 .. n -> Characters] : bytes = OutputOf(cs)
  BY <1>4
<1>6. cs \in Seq(Characters)
  <2>1. n \in Nat
    BY OutputAssumption
  <2> QED
    BY <2>1, SeqDef
<1> QED
  BY <1>3, <1>5, <1>6 DEF S

\* A byte without the other one is shown as a replacement.
Seen(c) == IF c \in {"h", "t"} THEN Replacement ELSE c
Shown(text) == [i \in DOMAIN text |-> Seen(text[i])]

\* One character of a text after the other.
LEMMA ShownReads ==
  /\ Shown(<<>>) = <<>> /\ <<>> \in Seq(Undecoded)
  /\ \A c \in Undecoded : Seen(c) \in Chars
  /\ \A text \in Seq(Undecoded) : Shown(text) \in Texts /\ Len(Shown(text)) = Len(text)
  /\ \A text \in Seq(Undecoded), c \in Undecoded :
       /\ Append(text, c) \in Seq(Undecoded)
       /\ Shown(Append(text, c)) = Append(Shown(text), Seen(c))
<1>1. \A c \in Undecoded : Seen(c) \in Chars
  BY DEF Seen, Undecoded, Bytes, Chars
<1>2. ASSUME NEW text \in Seq(Undecoded)
      PROVE  /\ Shown(text) \in Texts /\ Len(Shown(text)) = Len(text)
             /\ \A i \in 1 .. Len(text) : Shown(text)[i] = Seen(text[i])
  <2> DEFINE n == Len(text)
  <2>1. n \in Nat /\ DOMAIN text = 1 .. n /\ \A i \in 1 .. n : text[i] \in Undecoded
    BY LenProperties, ElementOfSeq
  <2>2. Shown(text) \in [1 .. n -> Chars]
    BY <1>1, <2>1 DEF Shown
  <2>3. Shown(text) \in Seq(Chars)
    BY <2>1, <2>2, SeqDef
  <2>4. Len(Shown(text)) = n
    <3>1. DOMAIN Shown(text) = 1 .. n /\ Len(Shown(text)) \in Nat
          /\ DOMAIN Shown(text) = 1 .. Len(Shown(text))
      BY <2>2, <2>3, LenProperties
    <3> HIDE DEF n
    <3> QED
      BY <2>1, <3>1
  <2> QED
    BY <2>1, <2>3, <2>4 DEF Shown, Texts
<1>3. Shown(<<>>) = <<>> /\ <<>> \in Seq(Undecoded)
  <2>1. <<>> \in Seq(Undecoded) /\ Len(<<>>) = 0
    BY EmptySeq
  <2>2. Shown(<<>>) \in Texts /\ Len(Shown(<<>>)) = 0
    BY <1>2, <2>1
  <2> QED
    BY <2>1, <2>2, EmptySeq DEF Texts
<1>4. ASSUME NEW text \in Seq(Undecoded), NEW c \in Undecoded
      PROVE  /\ Append(text, c) \in Seq(Undecoded)
             /\ Shown(Append(text, c)) = Append(Shown(text), Seen(c))
  <2> DEFINE n == Len(text)
             more == Append(text, c)
  <2>1. /\ more \in Seq(Undecoded) /\ Len(more) = n + 1 /\ more[n + 1] = c
        /\ \A i \in 1 .. n : more[i] = text[i]
    BY AppendProperties
  <2>2. n \in Nat /\ \A i : i \in 1 .. n + 1 <=> i \in 1 .. n \/ i = n + 1
    BY LenProperties
  <2>3. /\ Shown(text) \in Texts /\ Len(Shown(text)) = n
        /\ \A i \in 1 .. n : Shown(text)[i] = Seen(text[i])
    BY <1>2
  <2>4. /\ Append(Shown(text), Seen(c)) \in Texts
        /\ Len(Append(Shown(text), Seen(c))) = n + 1
        /\ Append(Shown(text), Seen(c))[n + 1] = Seen(c)
        /\ \A i \in 1 .. n : Append(Shown(text), Seen(c))[i] = Seen(text[i])
    BY <1>1, <2>3, AppendProperties DEF Texts
  <2> HIDE DEF more, n
  <2>5. /\ Shown(more) \in Texts /\ Len(Shown(more)) = n + 1
        /\ \A i \in 1 .. n + 1 : Shown(more)[i] = Seen(more[i])
    BY <1>2, <2>1
  <2>6. \A i \in 1 .. n + 1 : Shown(more)[i] = Append(Shown(text), Seen(c))[i]
    BY <2>1, <2>2, <2>4, <2>5
  <2>7. Shown(more) = Append(Shown(text), Seen(c))
    BY <2>4, <2>5, <2>6, SeqEqual DEF Texts
  <2> QED
    BY <2>1, <2>7 DEF more
<1> QED
  BY <1>1, <1>2, <1>3, <1>4

\* What is decoded of a longer text: the last byte completes a character, or is one more.
LEMMA DecodedEnd ==
  ASSUME NEW b \in Seq(Bytes), NEW c \in Bytes
  PROVE  /\ Append(b, c) \in Seq(Bytes) /\ Decoded(b) \in Texts /\ Seen(c) \in Chars
         /\ \/ Decoded(Append(b, c)) = Append(Decoded(b), Seen(c))
            \/ c = "t" /\ \E w \in Texts : /\ Decoded(b) = Append(w, "?")
                                           /\ Decoded(Append(b, c)) = Append(w, "c")
<1> DEFINE t == Joined(b)
<1>1. /\ t \in Seq(Undecoded) /\ Joined(Append(b, c)) = Decode(t, c)
      /\ Append(b, c) \in Seq(Bytes) /\ c \in Undecoded /\ "c" \in Undecoded
  BY JoinedReads, AppendProperties DEF Undecoded
<1>2. Decoded(b) = Shown(t) /\ Decoded(Append(b, c)) = Shown(Decode(t, c))
  BY <1>1 DEF Decoded, Shown, Seen, Joined
<1> HIDE DEF t
<1>3. CASE ~(c = "t" /\ t # <<>> /\ Last(t) = "h")
  <2>1. Decode(t, c) = Append(t, c)
    BY <1>3 DEF Decode
  <2> QED
    BY <1>1, <1>2, <2>1, ShownReads
<1>4. CASE c = "t" /\ t # <<>> /\ Last(t) = "h"
  <2> DEFINE w == Front(t)
  <2>1. w \in Seq(Undecoded) /\ t = Append(w, "h") /\ "h" \in Undecoded
    BY <1>1, <1>4, FrontLast DEF Undecoded, Bytes
  <2>2. Decode(t, c) = Append(w, "c")
    BY <1>4 DEF Decode
  <2> HIDE DEF w
  <2>3. Seen("h") = "?" /\ Seen("c") = "c"
    BY DEF Seen, Replacement
  <2>4. /\ Shown(w) \in Texts /\ Shown(t) = Append(Shown(w), "?")
        /\ Shown(Append(w, "c")) = Append(Shown(w), "c")
    BY <1>1, <2>1, <2>3, ShownReads
  <2> QED
    BY <1>1, <1>2, <1>4, <2>2, <2>4, ShownReads
<1> QED
  BY <1>3, <1>4

\* Bytes whose last one begins no character are joined to none of those that follow.
LEMMA JoinedOn ==
  ASSUME NEW a \in Seq(Bytes), a = <<>> \/ Last(a) # "h", NEW b \in Seq(Bytes)
  PROVE  Joined(a \o b) = Joined(a) \o Joined(b)
<1> DEFINE t == Joined(a)
<1>1. t \in Seq(Undecoded) /\ (t = <<>> \/ Last(t) # "h")
  <2>1. CASE a = <<>>
    BY <2>1, JoinedReads
  <2>2. CASE a # <<>>
    <3> DEFINE u == Joined(Front(a))
               l == Last(a)
    <3>1. Front(a) \in Seq(Bytes) /\ l \in Bytes /\ a = Append(Front(a), l) /\ l # "h"
      BY <2>2, FrontLast
    <3>2. t = Decode(u, l) /\ u \in Seq(Undecoded) /\ t \in Seq(Undecoded)
      <4>1. Joined(Append(Front(a), l)) = Decode(u, l)
        BY <3>1, JoinedReads
      <4> QED
        BY <3>1, <4>1, JoinedReads
    <3>3. l \in Undecoded /\ "c" \in Undecoded
      BY <3>1 DEF Undecoded
    <3> HIDE DEF u, l, t
    <3>4. Append(u, l) # <<>> /\ Last(Append(u, l)) = l
      BY <3>2, <3>3, LastAppended
    <3>5. ASSUME u # <<>>  PROVE Last(Append(Front(u), "c")) = "c"
      <4>1. Front(u) \in Seq(Undecoded)
        BY <3>2, <3>5, FrontLast
      <4> QED
        BY <3>3, <4>1, LastAppended
    <3> QED
      BY <3>1, <3>2, <3>4, <3>5 DEF Decode
  <2> QED
    BY <2>1, <2>2
<1> DEFINE S == {d \in Seq(Bytes) : Joined(a \o d) = t \o Joined(d)}
<1>2. <<>> \in S
  <2>1. <<>> \in Seq(Bytes) /\ a \o <<>> = a /\ t \o <<>> = t /\ Joined(<<>>) = <<>>
    BY <1>1, EmptySeq, ConcatEmptySeq, JoinedReads
  <2> QED
    BY <2>1
<1>3. ASSUME NEW d \in Seq(Bytes), NEW c \in Bytes, d \in S  PROVE Append(d, c) \in S
  <2> DEFINE e == Joined(d)
  <2>1. /\ Append(d, c) \in Seq(Bytes) /\ a \o d \in Seq(Bytes)
        /\ a \o Append(d, c) = Append(a \o d, c)
    BY AppendProperties, ConcatAppend
  <2>2. /\ Joined(Append(a \o d, c)) = Decode(t \o e, c) /\ Joined(Append(d, c)) = Decode(e, c)
        /\ e \in Seq(Undecoded)
    BY <1>3, <2>1, JoinedReads
  <2>3. c \in Undecoded /\ "c" \in Undecoded
    BY DEF Undecoded
  <2> HIDE DEF e, t
  <2>4. Decode(t \o e, c) = t \o Decode(e, c)
    <3>1. t \o Append(e, c) = Append(t \o e, c)
      BY <1>1, <2>2, <2>3, ConcatAppend
    <3>2. CASE e = <<>>
      <4>1. t \o e = t
        BY <1>1, <3>2, ConcatEmptySeq
      <4>2. Decode(t, c) = Append(t, c) /\ Decode(e, c) = Append(e, c)
        BY <1>1, <3>2 DEF Decode
      <4> QED
        BY <3>1, <4>1, <4>2
    <3>3. CASE e # <<>>
      <4>1. t \o e # <<>> /\ Front(t \o e) = t \o Front(e) /\ Last(t \o e) = Last(e)
        BY <1>1, <2>2, <3>3, ConcatEnd
      <4>2. Front(e) \in Seq(Undecoded)
        BY <2>2, <3>3, FrontLast
      <4>3. t \o Append(Front(e), "c") = Append(t \o Front(e), "c")
        BY <1>1, <2>3, <4>2, ConcatAppend
      <4> QED
        BY <3>1, <3>3, <4>1, <4>3 DEF Decode
    <3> QED
      BY <3>2, <3>3
  <2>5. Joined(a \o Append(d, c)) = t \o Joined(Append(d, c))
    BY <2>1, <2>2, <2>4
  <2> QED
    BY <2>1, <2>5
<1> HIDE DEF S
<1>4. Seq(Bytes) \subseteq S
  BY <1>2, <1>3, SequenceInduction
<1> QED
  BY <1>4 DEF S

\* Two texts are shown one after the other.
LEMMA ShownOn ==
  ASSUME NEW p \in Seq(Undecoded), NEW q \in Seq(Undecoded)
  PROVE  Shown(p \o q) = Shown(p) \o Shown(q)
<1> DEFINE S == {r \in Seq(Undecoded) : Shown(p \o r) = Shown(p) \o Shown(r)}
<1>1. \A r \in Seq(Undecoded) : Shown(r) \in Texts /\ p \o r \in Seq(Undecoded)
  BY ShownReads, ConcatProperties
<1>2. <<>> \in S
  <2>1. /\ <<>> \in Seq(Undecoded) /\ p \o <<>> = p /\ Shown(<<>>) = <<>>
        /\ Shown(p) \o <<>> = Shown(p)
    BY <1>1, ShownReads, ConcatEmptySeq DEF Texts
  <2> QED
    BY <2>1
<1>3. ASSUME NEW r \in Seq(Undecoded), NEW c \in Undecoded, r \in S  PROVE Append(r, c) \in S
  <2>1. Append(r, c) \in Seq(Undecoded) /\ p \o Append(r, c) = Append(p \o r, c)
    BY AppendProperties, ConcatAppend
  <2>2. /\ Shown(Append(p \o r, c)) = Append(Shown(p \o r), Seen(c))
        /\ Shown(Append(r, c)) = Append(Shown(r), Seen(c)) /\ Seen(c) \in Chars
    BY <1>1, ShownReads
  <2>3. Shown(p) \o Append(Shown(r), Seen(c)) = Append(Shown(p) \o Shown(r), Seen(c))
    BY <1>1, <2>2, ConcatAppend DEF Texts
  <2> QED
    BY <1>3, <2>1, <2>2, <2>3
<1> HIDE DEF S
<1>4. Seq(Undecoded) \subseteq S
  BY <1>2, <1>3, SequenceInduction
<1> QED
  BY <1>4 DEF S

\* So what follows them is decoded as if it stood alone.
LEMMA DecodedOn ==
  ASSUME NEW a \in Seq(Bytes), a = <<>> \/ Last(a) # "h", NEW b \in Seq(Bytes)
  PROVE  /\ a \o b \in Seq(Bytes) /\ Decoded(a) \in Texts /\ Decoded(b) \in Texts
         /\ Decoded(a \o b) = Decoded(a) \o Decoded(b)
<1>1. a \o b \in Seq(Bytes)
  BY ConcatProperties
<1>2. \A d \in Seq(Bytes) : Joined(d) \in Seq(Undecoded) /\ Decoded(d) = Shown(Joined(d))
  BY JoinedReads DEF Decoded, Shown, Seen, Joined
<1>3. Joined(a \o b) = Joined(a) \o Joined(b)
  BY JoinedOn
<1>4. /\ Joined(a) \in Seq(Undecoded) /\ Decoded(a) = Shown(Joined(a))
      /\ Joined(b) \in Seq(Undecoded) /\ Decoded(b) = Shown(Joined(b))
      /\ Decoded(a \o b) = Shown(Joined(a \o b))
  BY <1>1, <1>2
<1>5. Shown(Joined(a) \o Joined(b)) = Shown(Joined(a)) \o Shown(Joined(b))
  BY <1>4, ShownOn
<1> QED
  BY <1>1, <1>3, <1>4, <1>5, ShownReads

\* The output begins with a letter, however it is decoded.
LEMMA DecodedBegins ==
  ASSUME NEW rest \in Seq(Bytes)
  PROVE  /\ <<"x">> \o rest \in Seq(Bytes)
         /\ Decoded(<<"x">> \o rest) \in Texts /\ Decoded(<<"x">> \o rest) # <<>>
         /\ Decoded(<<"x">> \o rest)[1] \notin White
<1>1. /\ <<>> \in Seq(Bytes) /\ "x" \in Bytes /\ <<"x">> \in Seq(Bytes)
      /\ <<"x">> = Append(<<>>, "x")
  BY EmptySeq DEF Bytes
<1>2. Last(<<"x">>) # "h"
  BY DEF Last
<1>3. Decoded(<<"x">>) = <<"x">>
  <2>1. Joined(<<"x">>) = <<"x">>
    <3>1. Joined(Append(<<>>, "x")) = Decode(Joined(<<>>), "x") /\ Joined(<<>>) = <<>>
      BY <1>1, JoinedReads
    <3> QED
      BY <1>1, <3>1 DEF Decode
  <2>2. Decoded(<<"x">>) = Shown(<<"x">>)
    BY <2>1 DEF Decoded, Shown, Seen, Joined
  <2>3. <<>> \in Seq(Undecoded) /\ "x" \in Undecoded
    BY EmptySeq DEF Undecoded, Bytes
  <2>4. Shown(Append(<<>>, "x")) = Append(<<>>, Seen("x"))
    BY <2>3, ShownReads
  <2> QED
    BY <1>1, <2>2, <2>4 DEF Seen
<1> DEFINE d == Decoded(rest)
           t == <<"x">> \o d
<1>4. d \in Texts /\ Decoded(<<"x">> \o rest) = t /\ <<"x">> \o rest \in Seq(Bytes)
  BY <1>1, <1>2, <1>3, DecodedOn
<1> HIDE DEF d
<1>5. <<"x">> \in Texts
  BY DEF Texts, Chars
<1>6. t \in Texts /\ Len(t) = 1 + Len(d) /\ t[1] = "x"
  <2>1. Len(<<"x">>) = 1 /\ <<"x">>[1] = "x" /\ Len(d) \in Nat
    BY <1>4, LenProperties DEF Texts
  <2>2. 1 \in 1 .. 1 + Len(d) /\ 1 <= 1
    BY <2>1
  <2> QED
    BY <1>4, <1>5, <2>1, <2>2, ConcatProperties DEF Texts
<1>7. t # <<>> /\ "x" \notin White
  <2>1. Len(d) \in Nat /\ Len(<<>>) = 0
    BY <1>4, LenProperties DEF Texts
  <2>2. Len(t) # 0
    BY <1>6, <2>1
  <2> HIDE DEF t
  <2> QED
    BY <2>1, <2>2 DEF White
<1> QED
  BY <1>4, <1>6, <1>7

-----------------------------------------------------------------------------
(* Lines that are as many, whatever is on them.                            *)

\* How many complete lines there are, and whether the last piece would be one.
Full(t) == Len(Lines(Front(Split(t))))
Blank(t) == TrimEnd(Last(Split(t))) = <<>>
Alike(t, u) == Full(t) = Full(u) /\ (Blank(t) <=> Blank(u))

\* One character more.
LEMMA CountedEnd ==
  ASSUME NEW t \in Texts, NEW c \in Chars
  PROVE  /\ Append(t, c) \in Texts /\ Full(t) \in Nat
         /\ Len(Lines(Split(t))) = Full(t) + (IF Blank(t) THEN 0 ELSE 1)
         /\ c = "n" => /\ Full(Append(t, c)) = Full(t) + (IF Blank(t) THEN 0 ELSE 1)
                       /\ Blank(Append(t, c))
         /\ c # "n" => /\ Full(Append(t, c)) = Full(t)
                       /\ Blank(Append(t, c)) <=> Blank(t) /\ c \in White
<1>1. /\ Append(t, c) \in Texts /\ Split(t) \in Pieces /\ Split(Append(t, c)) \in Pieces
      /\ Last(Split(t)) \in Texts
  BY SplitEnd, PiecesEnd
<1>2. Full(t) \in Nat
  BY <1>1, PiecesEnd, LenProperties DEF Full
<1>3. Len(Lines(Split(t))) = Full(t) + (IF Blank(t) THEN 0 ELSE 1)
  <2> DEFINE ls == Lines(Front(Split(t)))
             l == TrimEnd(Last(Split(t)))
  <2>1. ls \in Seq(Texts) /\ l \in Texts /\ Lines(Split(t)) = KeepLine(ls, Last(Split(t)))
    BY <1>1, PiecesEnd, TrimEndReads
  <2>2. Lines(Split(t)) = IF l = <<>> THEN ls ELSE Append(ls, l)
    BY <2>1 DEF KeepLine
  <2>3. Full(t) = Len(ls) /\ (Blank(t) <=> l = <<>>)
    BY DEF Full, Blank
  <2> HIDE DEF ls, l
  <2>4. Len(Append(ls, l)) = Len(ls) + 1 /\ Len(ls) \in Nat
    BY <2>1, AppendProperties, LenProperties
  <2> QED
    BY <2>2, <2>3, <2>4
<1>4. CASE c = "n"
  <2>1. Front(Split(Append(t, c))) = Split(t) /\ Last(Split(Append(t, c))) = <<>>
    BY <1>4, SplitEnd
  <2>2. Full(Append(t, c)) = Len(Lines(Split(t))) /\ Blank(Append(t, c))
    BY <2>1, TrimEndReads DEF Full, Blank
  <2> QED
    BY <1>1, <1>2, <1>3, <1>4, <2>2
<1>5. CASE c # "n"
  <2> DEFINE l == Last(Split(t))
  <2>1. /\ Front(Split(Append(t, c))) = Front(Split(t))
        /\ Last(Split(Append(t, c))) = Append(l, c)
    BY <1>5, SplitEnd
  <2>2. Full(Append(t, c)) = Full(t)
    BY <2>1 DEF Full
  <2>3. TrimEnd(Append(l, c)) = IF c \in White THEN TrimEnd(l) ELSE Append(l, c)
    BY <1>1, TrimEndReads
  <2>4. Append(l, c) # <<>>
    BY <1>1, AppendProperties DEF Texts
  <2>5. Blank(Append(t, c)) <=> Blank(t) /\ c \in White
    BY <2>1, <2>3, <2>4 DEF Blank
  <2> QED
    BY <1>1, <1>2, <1>3, <1>5, <2>2, <2>5
<1> QED
  BY <1>4, <1>5

\* A solid byte leaves the complete lines, and makes the last piece a line, whether it
\* completes a character or is replaced.
LEMMA SolidByte ==
  ASSUME NEW t \in Texts, NEW b \in Seq(Bytes), NEW c \in Bytes \ White
  PROVE  /\ t \o Decoded(Append(b, c)) \in Texts
         /\ Full(t \o Decoded(Append(b, c))) = Full(t \o Decoded(b))
         /\ ~Blank(t \o Decoded(Append(b, c)))
<1>1. Decoded(b) \in Texts /\ Seen(c) \in Chars /\ Append(b, c) \in Seq(Bytes)
  BY DecodedEnd
<1>2. t \o Decoded(b) \in Texts
  BY <1>1, ConcatProperties DEF Texts
<1>3. CASE Decoded(Append(b, c)) = Append(Decoded(b), Seen(c))
  <2>1. t \o Append(Decoded(b), Seen(c)) = Append(t \o Decoded(b), Seen(c))
    BY <1>1, ConcatAppend DEF Texts
  <2>2. Seen(c) \notin White /\ Seen(c) # "n"
    BY DEF Seen, White, Bytes, Replacement
  <2>3. /\ Append(t \o Decoded(b), Seen(c)) \in Texts
        /\ Full(Append(t \o Decoded(b), Seen(c))) = Full(t \o Decoded(b))
        /\ ~Blank(Append(t \o Decoded(b), Seen(c)))
    BY <1>1, <1>2, <2>2, CountedEnd
  <2> QED
    BY <1>3, <2>1, <2>3
<1>4. ASSUME NEW w \in Texts, Decoded(b) = Append(w, "?"),
             Decoded(Append(b, c)) = Append(w, "c")
      PROVE  /\ t \o Decoded(Append(b, c)) \in Texts
             /\ Full(t \o Decoded(Append(b, c))) = Full(t \o Decoded(b))
             /\ ~Blank(t \o Decoded(Append(b, c)))
  <2> DEFINE u == t \o w
  <2>1. "?" \in Chars \ White /\ "c" \in Chars \ White /\ "?" # "n" /\ "c" # "n"
    BY DEF Chars, White, Replacement
  <2>2. /\ u \in Texts /\ t \o Append(w, "?") = Append(u, "?")
        /\ t \o Append(w, "c") = Append(u, "c")
    BY <2>1, ConcatAppend DEF Texts
  <2> HIDE DEF u
  <2>3. Full(Append(u, "?")) = Full(u)
    BY <2>1, <2>2, CountedEnd
  <2>4. /\ Append(u, "c") \in Texts /\ Full(Append(u, "c")) = Full(u)
        /\ ~Blank(Append(u, "c"))
    BY <2>1, <2>2, CountedEnd
  <2> QED
    BY <1>4, <2>2, <2>3, <2>4
<1> QED
  BY <1>3, <1>4, DecodedEnd

\* However the bytes before it were cut, one more counts the same.
LEMMA AlikeEnd ==
  ASSUME NEW t \in Texts, NEW b \in Seq(Bytes), NEW u \in Texts, NEW d \in Seq(Bytes),
         Alike(t \o Decoded(b), u \o Decoded(d)), NEW c \in Bytes
  PROVE  Alike(t \o Decoded(Append(b, c)), u \o Decoded(Append(d, c)))
<1>1. CASE c \notin White
  <2>1. /\ Full(t \o Decoded(Append(b, c))) = Full(t \o Decoded(b))
        /\ ~Blank(t \o Decoded(Append(b, c)))
    BY <1>1, SolidByte
  <2>2. /\ Full(u \o Decoded(Append(d, c))) = Full(u \o Decoded(d))
        /\ ~Blank(u \o Decoded(Append(d, c)))
    BY <1>1, SolidByte
  <2> QED
    BY <2>1, <2>2 DEF Alike
<1>2. CASE c \in White
  <2>1. Seen(c) = c /\ c # "t" /\ c \in Chars
    BY <1>2 DEF Seen, White, Chars
  <2>2. /\ Decoded(b) \in Texts /\ Decoded(Append(b, c)) = Append(Decoded(b), c)
        /\ Decoded(d) \in Texts /\ Decoded(Append(d, c)) = Append(Decoded(d), c)
    BY <2>1, DecodedEnd
  <2> DEFINE v == t \o Decoded(b)
             w == u \o Decoded(d)
  <2>3. /\ v \in Texts /\ t \o Append(Decoded(b), c) = Append(v, c)
        /\ w \in Texts /\ u \o Append(Decoded(d), c) = Append(w, c)
    <3>1. v \in Texts /\ t \o Append(Decoded(b), c) = Append(v, c)
      BY <2>1, <2>2, ConcatAppend DEF Texts
    <3>2. w \in Texts /\ u \o Append(Decoded(d), c) = Append(w, c)
      BY <2>1, <2>2, ConcatAppend DEF Texts
    <3> QED
      BY <3>1, <3>2
  <2>4. Alike(v, w)
    OBVIOUS
  <2> HIDE DEF v, w
  <2>5. Alike(Append(v, c), Append(w, c))
    <3>1. CASE c = "n"
      <4>1. Full(Append(v, c)) = Full(v) + (IF Blank(v) THEN 0 ELSE 1) /\ Blank(Append(v, c))
        BY <2>1, <2>3, <3>1, CountedEnd
      <4>2. Full(Append(w, c)) = Full(w) + (IF Blank(w) THEN 0 ELSE 1) /\ Blank(Append(w, c))
        BY <2>1, <2>3, <3>1, CountedEnd
      <4> QED
        BY <2>4, <4>1, <4>2 DEF Alike
    <3>2. CASE c # "n"
      <4>1. Full(Append(v, c)) = Full(v) /\ (Blank(Append(v, c)) <=> Blank(v))
        BY <1>2, <2>1, <2>3, <3>2, CountedEnd
      <4>2. Full(Append(w, c)) = Full(w) /\ (Blank(Append(w, c)) <=> Blank(w))
        BY <1>2, <2>1, <2>3, <3>2, CountedEnd
      <4> QED
        BY <2>4, <4>1, <4>2 DEF Alike
    <3> QED
      BY <3>1, <3>2
  <2> QED
    BY <2>2, <2>3, <2>5
<1> QED
  BY <1>1, <1>2

\* So a chunk counts the same whether what came before was cut or not.
LEMMA AlikeOn ==
  ASSUME NEW t \in Texts, NEW a \in Seq(Bytes), Alike(t, Decoded(a)), NEW b \in Seq(Bytes)
  PROVE  Alike(t \o Decoded(b), Decoded(a \o b))
<1> DEFINE S == {d \in Seq(Bytes) : Alike(t \o Decoded(d), Decoded(a \o d))}
<1>1. <<>> \in Texts /\ <<>> \in Seq(Bytes) /\ Decoded(<<>>) = <<>>
  <2>1. Decoded(<<>>) = Shown(Joined(<<>>))
    BY DEF Decoded, Shown, Seen, Joined
  <2> QED
    BY <2>1, EmptySeq, JoinedReads, ShownReads DEF Texts
<1>2. \A d \in Seq(Bytes) : Decoded(d) \in Texts /\ <<>> \o Decoded(d) = Decoded(d)
  <2> SUFFICES ASSUME NEW d \in Seq(Bytes)
               PROVE  Decoded(d) \in Texts /\ <<>> \o Decoded(d) = Decoded(d)
    OBVIOUS
  <2>1. "x" \in Bytes
    BY DEF Bytes
  <2>2. Decoded(d) \in Texts
    BY <2>1, DecodedEnd
  <2> QED
    BY <2>2, ConcatEmptySeq DEF Texts
<1>3. <<>> \in S
  <2>1. t \o <<>> = t /\ a \o <<>> = a
    BY ConcatEmptySeq DEF Texts
  <2> QED
    BY <1>1, <2>1
<1>4. ASSUME NEW d \in Seq(Bytes), NEW c \in Bytes, d \in S  PROVE Append(d, c) \in S
  <2>1. /\ Append(d, c) \in Seq(Bytes) /\ a \o d \in Seq(Bytes)
        /\ a \o Append(d, c) = Append(a \o d, c)
    BY AppendProperties, ConcatAppend
  <2>2. Alike(t \o Decoded(d), <<>> \o Decoded(a \o d))
    BY <1>2, <1>4, <2>1
  <2>3. Alike(t \o Decoded(Append(d, c)), <<>> \o Decoded(Append(a \o d, c)))
    BY <1>1, <2>1, <2>2, AlikeEnd
  <2>4. Append(a \o d, c) \in Seq(Bytes)
    BY <2>1, AppendProperties
  <2> QED
    BY <1>2, <2>1, <2>3, <2>4
<1> HIDE DEF S
<1>5. Seq(Bytes) \subseteq S
  BY <1>3, <1>4, SequenceInduction
<1> QED
  BY <1>5 DEF S

-----------------------------------------------------------------------------
(* The invariant of a follower.                                            *)

Beginning == {bytes \in Seq(Bytes) : \E rest \in Seq(Bytes) : bytes = <<"x">> \o rest}
Followers ==
  [output : Beginning, read : Nat, buffered : Texts, sent : Seq(Texts), cut : BOOLEAN,
   closed : BOOLEAN]

\* What has been read of the output.
SoFar(f) == SubSeq(f.output, 1, f.read)

\* t is what the chunks so far were decoded to.
ReadAs(f, t) ==
  /\ f.buffered = Last(Split(t))
  /\ f.sent = IF f.closed THEN Lines(Split(t)) ELSE Lines(Front(Split(t)))
  /\ Alike(t, Decoded(SoFar(f)))
  /\ ~f.cut => t = Decoded(SoFar(f)) /\ (SoFar(f) = <<>> \/ Last(SoFar(f)) # "h")

FollowerInv(f) ==
  /\ f \in Followers /\ f.read \in 0 .. Len(f.output)
  /\ f.closed => f.read = Len(f.output)
  /\ \E t \in Texts : ReadAs(f, t)

\* The fields of a follower.
LEMMA FollowerFields ==
  ASSUME NEW f \in Followers
  PROVE  /\ f.output \in Beginning /\ f.output \in Seq(Bytes) /\ Len(f.output) \in Nat
         /\ f.read \in Nat /\ f.buffered \in Texts /\ f.sent \in Seq(Texts)
         /\ f.cut \in BOOLEAN /\ f.closed \in BOOLEAN
<1>1. f.output \in Beginning
  BY DEF Followers
<1>2. f.output \in Seq(Bytes)
  BY <1>1 DEF Beginning
<1> QED
  BY <1>1, <1>2, LenProperties DEF Followers

\* What the buffer gives with one more chunk is what the text gives with it.
LEMMA FlushedAlike ==
  ASSUME NEW t \in Texts, NEW d \in Texts
  PROVE  LET flushed == FlushBufferedLogLines(Last(Split(t)) \o d)
         IN /\ t \o d \in Texts /\ flushed.rest = Last(Split(t \o d))
            /\ flushed.rest \in Texts /\ flushed.lines \in Seq(Texts)
            /\ Lines(Front(Split(t))) \o flushed.lines = Lines(Front(Split(t \o d)))
<1> DEFINE b == Last(Split(t)) \o d
           flushed == FlushBufferedLogLines(b)
<1>1. /\ t \o d \in Texts /\ b \in Texts /\ Last(Split(t \o d)) = Last(Split(b))
      /\ Lines(Front(Split(t \o d))) = Lines(Front(Split(t))) \o Lines(Front(Split(b)))
  BY SplitOn
<1> HIDE DEF b
<1>2. NewlinesOnly(b) \in Texts /\ SameLines(NewlinesOnly(b), b)
  BY <1>1, NewlinesAlike
<1>3. Split(NewlinesOnly(b)) \in Pieces
  BY <1>2, SplitReads DEF Texts
<1>4. /\ flushed.lines = Lines(Front(Split(NewlinesOnly(b))))
      /\ flushed.rest = Last(Split(NewlinesOnly(b)))
  BY DEF FlushBufferedLogLines
<1>5. flushed.lines \in Seq(Texts) /\ flushed.rest \in Texts
  BY <1>3, <1>4, PiecesEnd
<1>6. flushed.lines = Lines(Front(Split(b))) /\ flushed.rest = Last(Split(b))
  BY <1>2, <1>4 DEF SameLines
<1> HIDE DEF flushed
<1> QED
  BY <1>1, <1>5, <1>6 DEF flushed, b

LEMMA LineInitInv == ASSUME LineInit PROVE FollowerInv(follower)
<1>1. PICK bytes \in Outputs :
        follower = [output |-> bytes, read |-> 0, buffered |-> <<>>, sent |-> <<>>,
                    cut |-> FALSE, closed |-> FALSE]
  BY DEF LineInit
<1>2. PICK rest \in Seq(Bytes) : bytes = <<"x">> \o rest
  BY OutputsBegin
<1>3. bytes \in Beginning /\ Len(bytes) \in Nat
  <2>1. bytes \in Seq(Bytes)
    BY <1>2, DecodedBegins
  <2> QED
    BY <1>2, <2>1, LenProperties DEF Beginning
<1>4. <<>> \in Texts /\ <<>> \in Seq(Texts) /\ <<>> \in Seq(Bytes)
  BY EmptySeq DEF Texts
<1>5. /\ follower \in Followers /\ follower.output = bytes /\ follower.read = 0
      /\ follower.buffered = <<>> /\ follower.sent = <<>> /\ ~follower.cut /\ ~follower.closed
  BY <1>1, <1>3, <1>4 DEF Followers
<1>6. SoFar(follower) = <<>>
  BY <1>5, SubSeqEmpty DEF SoFar
<1>7. Decoded(<<>>) = <<>>
  <2>1. Decoded(<<>>) = Shown(Joined(<<>>))
    BY DEF Decoded, Shown, Seen, Joined
  <2> QED
    BY <2>1, JoinedReads, ShownReads
<1>8. Last(Split(<<>>)) = <<>> /\ Lines(Front(Split(<<>>))) = <<>>
  <2>1. Split(<<>>) = Append(<<>>, <<>>)
    BY SplitReads
  <2>2. Front(Append(<<>>, <<>>)) = <<>> /\ Last(Append(<<>>, <<>>)) = <<>>
    BY <1>4, LastAppended
  <2> QED
    BY <2>1, <2>2, LinesReads
<1>9. ReadAs(follower, <<>>)
  BY <1>5, <1>6, <1>7, <1>8 DEF ReadAs, Alike
<1> QED
  BY <1>3, <1>4, <1>5, <1>9 DEF FollowerInv

LEMMA DataInv ==
  ASSUME FollowerInv(follower), NEW end \in 1 .. Len(follower.output), Data(end)
  PROVE  FollowerInv(follower')
<1> DEFINE output == follower.output
           read == follower.read
           chunk == SubSeq(output, read + 1, end)
           d == Decoded(chunk)
           flushed == FlushBufferedLogLines(follower.buffered \o d)
<1>1. /\ follower \in Followers /\ output \in Seq(Bytes) /\ Len(output) \in Nat
      /\ read \in 0 .. Len(output)
  BY FollowerFields DEF FollowerInv
<1>2. /\ end \in read + 1 .. Len(output)
      /\ follower' = [follower EXCEPT !.read = end, !.buffered = flushed.rest,
                                      !.sent = follower.sent \o flushed.lines,
                                      !.cut = follower.cut \/ Last(chunk) = "h"]
  BY DEF Data
<1>3. PICK t \in Texts : ReadAs(follower, t)
  BY DEF FollowerInv
<1>4. ~follower.closed
  BY <1>1, <1>2 DEF FollowerInv
<1>5. /\ chunk \in Seq(Bytes) /\ chunk # <<>> /\ SoFar(follower) \in Seq(Bytes)
      /\ SubSeq(output, 1, end) = SoFar(follower) \o chunk
  <2>1. /\ 1 \in Int /\ read \in Int /\ read + 1 \in Int /\ end \in Int
        /\ \A i \in 1 .. read : output[i] \in Bytes
        /\ \A i \in read + 1 .. end : output[i] \in Bytes
    BY <1>1, <1>2, ElementOfSeq
  <2>2. SoFar(follower) \in Seq(Bytes)
    BY <2>1, SubSeqProperties DEF SoFar
  <2>3. /\ chunk \in Seq(Bytes)
        /\ Len(chunk) = IF read + 1 <= end THEN end - (read + 1) + 1 ELSE 0
    BY <2>1, SubSeqProperties
  <2>4. chunk # <<>>
    <3>1. Len(chunk) # 0 /\ Len(<<>>) = 0
      BY <1>1, <1>2, <2>3
    <3> HIDE DEF chunk
    <3> QED
      BY <3>1
  <2>5. /\ 1 \in 1 .. Len(output) + 1 /\ read \in 1 - 1 .. Len(output)
        /\ end \in read .. Len(output)
    BY <1>1, <1>2
  <2>6. SubSeq(output, 1, read) \o SubSeq(output, read + 1, end) = SubSeq(output, 1, end)
    BY <1>1, <2>5, ConcatAdjacentSubSeq
  <2> QED
    BY <2>2, <2>3, <2>4, <2>6 DEF SoFar
<1>6. d \in Texts
  BY <1>5, DecodedOn, EmptySeq
<1> HIDE DEF chunk, d
<1>7. /\ follower.buffered = Last(Split(t)) /\ follower.sent = Lines(Front(Split(t)))
      /\ Alike(t, Decoded(SoFar(follower)))
      /\ ~follower.cut => /\ t = Decoded(SoFar(follower))
                          /\ SoFar(follower) = <<>> \/ Last(SoFar(follower)) # "h"
  BY <1>3, <1>4 DEF ReadAs
<1>8. /\ t \o d \in Texts /\ flushed.rest = Last(Split(t \o d))
      /\ flushed.rest \in Texts /\ flushed.lines \in Seq(Texts)
      /\ follower.sent \o flushed.lines = Lines(Front(Split(t \o d)))
  BY <1>6, <1>7, FlushedAlike
<1> HIDE DEF flushed
<1> DEFINE w == follower'
           s == follower.sent \o flushed.lines
           c == follower.cut \/ Last(chunk) = "h"
<1>9. s \in Seq(Texts) /\ c \in BOOLEAN
  <2>1. follower.sent \in Seq(Texts) /\ follower.cut \in BOOLEAN
    BY <1>1, FollowerFields
  <2> QED
    BY <1>8, <2>1, ConcatProperties
<1>10. /\ w \in Followers /\ w.output = output /\ w.read = end /\ w.buffered = flushed.rest
       /\ w.sent = s /\ w.cut = c /\ ~w.closed
  <2>1. end \in Nat /\ w = [follower EXCEPT !.read = end, !.buffered = flushed.rest,
                                            !.sent = s, !.cut = c]
    BY <1>2
  <2> HIDE DEF w, s, c
  <2> QED
    BY <1>1, <1>4, <1>8, <1>9, <2>1 DEF Followers
<1>11. SoFar(w) = SoFar(follower) \o chunk /\ w.read \in 0 .. Len(w.output)
  <2>1. w.read \in 0 .. Len(w.output)
    BY <1>1, <1>2, <1>10
  <2>2. SoFar(w) = SubSeq(output, 1, end)
    <3> HIDE DEF w, output
    <3> QED
      BY <1>10 DEF SoFar
  <2> QED
    BY <1>5, <2>1, <2>2
<1>12. w.sent = Lines(Front(Split(t \o d))) /\ w.cut = c
  BY <1>8, <1>10
<1> HIDE DEF w, s
<1>13. Alike(t \o d, Decoded(SoFar(w)))
  BY <1>5, <1>7, <1>11, AlikeOn DEF d
<1>14. ASSUME ~w.cut
       PROVE  t \o d = Decoded(SoFar(w)) /\ Last(SoFar(w)) # "h"
  <2>1. ~follower.cut /\ Last(chunk) # "h"
    BY <1>12, <1>14
  <2>2. Decoded(SoFar(follower) \o chunk) = Decoded(SoFar(follower)) \o Decoded(chunk)
    BY <1>5, <1>7, <2>1, DecodedOn
  <2>3. Last(SoFar(follower) \o chunk) = Last(chunk)
    BY <1>5, ConcatEnd
  <2> QED
    BY <1>7, <1>11, <2>1, <2>2, <2>3 DEF d
<1>15. ReadAs(w, t \o d)
  BY <1>8, <1>10, <1>12, <1>13, <1>14 DEF ReadAs
<1>16. FollowerInv(w)
  BY <1>8, <1>10, <1>11, <1>15 DEF FollowerInv
<1> QED
  BY <1>16 DEF w

LEMMA CloseInv == ASSUME FollowerInv(follower), Close PROVE FollowerInv(follower')
<1> DEFINE s == follower.sent \o Lines(<<follower.buffered>>)
           w == follower'
<1>1. /\ follower \in Followers /\ ~follower.closed /\ follower.read = Len(follower.output)
      /\ w = [follower EXCEPT !.closed = TRUE, !.sent = s]
  BY DEF FollowerInv, Close
<1>2. PICK t \in Texts : ReadAs(follower, t)
  BY DEF FollowerInv
<1>3. s = Lines(Split(t)) /\ s \in Seq(Texts)
  <2> DEFINE p == Split(t)
  <2>1. p \in Pieces
    BY SplitReads DEF Texts
  <2> HIDE DEF p
  <2>2. /\ Front(p) \in Seq(Texts) /\ Last(p) \in Texts /\ Lines(p) \in Seq(Texts)
        /\ p = Append(Front(p), Last(p))
    BY <2>1, PiecesEnd
  <2>3. <<Last(p)>> \in Seq(Texts) /\ p = Front(p) \o <<Last(p)>>
    BY <2>2, AppendIsConcat
  <2>4. Lines(Front(p) \o <<Last(p)>>) = Lines(Front(p)) \o Lines(<<Last(p)>>)
    BY <2>2, <2>3, LinesOn
  <2>5. follower.buffered = Last(p) /\ follower.sent = Lines(Front(p))
    BY <1>1, <1>2 DEF ReadAs, p
  <2> QED
    BY <2>2, <2>3, <2>4, <2>5 DEF p
<1> HIDE DEF s, w
<1>4. /\ w \in Followers /\ w.output = follower.output /\ w.read = follower.read
      /\ w.buffered = follower.buffered /\ w.sent = s /\ w.cut = follower.cut /\ w.closed
  BY <1>1, <1>3 DEF Followers
<1>5. SoFar(w) = SoFar(follower)
  BY <1>4 DEF SoFar
<1>6. ReadAs(w, t)
  BY <1>2, <1>3, <1>4, <1>5 DEF ReadAs
<1>7. w.read \in 0 .. Len(w.output)
  BY <1>4 DEF FollowerInv
<1> QED
  BY <1>1, <1>4, <1>6, <1>7 DEF FollowerInv, w

\* What was sent, and what the reader of the last lines makes of all of the output.
LEMMA FollowerInvAsTailed == ASSUME FollowerInv(follower) PROVE LinesAsTailed
<1> DEFINE output == follower.output
           u == Decoded(output)
           all == Lines(Split(u))
<1>1. /\ follower \in Followers /\ output \in Beginning /\ output \in Seq(Bytes)
      /\ Len(output) \in Nat /\ follower.read \in 0 .. Len(output)
  BY FollowerFields DEF FollowerInv
<1>2. PICK t \in Texts : ReadAs(follower, t)
  BY DEF FollowerInv
<1>3. u \in Texts /\ ParseLogLines(u) = all
  <2>1. PICK rest \in Seq(Bytes) : output = <<"x">> \o rest
    BY <1>1 DEF Beginning
  <2>2. u \in Texts /\ u # <<>> /\ u[1] \notin White
    BY <2>1, DecodedBegins
  <2> HIDE DEF u
  <2> QED
    BY <2>2, ParsedAsSplit
<1>4. Split(t) \in Pieces /\ Split(u) \in Pieces /\ all \in Seq(Texts)
      /\ Lines(Front(Split(t))) \in Seq(Texts)
  <2>1. Split(t) \in Pieces /\ Split(u) \in Pieces
    BY <1>3, SplitReads DEF Texts
  <2> QED
    BY <2>1, PiecesEnd
<1>5. ASSUME follower.closed
      PROVE  /\ follower.sent = Lines(Split(t)) /\ Len(follower.sent) = Len(all)
             /\ ~follower.cut => follower.sent = all
  <2>1. SoFar(follower) = output
    BY <1>1, <1>5, SubSeqFull DEF FollowerInv, SoFar
  <2>2. follower.sent = Lines(Split(t)) /\ Alike(t, u) /\ (~follower.cut => t = u)
    BY <1>2, <1>5, <2>1 DEF ReadAs
  <2>3. "x" \in Chars
    BY DEF Chars
  <2>4. /\ Len(Lines(Split(t))) = Full(t) + (IF Blank(t) THEN 0 ELSE 1)
        /\ Len(Lines(Split(u))) = Full(u) + (IF Blank(u) THEN 0 ELSE 1)
    BY <1>3, <2>3, CountedEnd
  <2>5. Len(Lines(Split(t))) = Len(Lines(Split(u)))
    BY <2>2, <2>4 DEF Alike
  <2> QED
    BY <2>2, <2>5
<1>6. ASSUME ~follower.cut  PROVE IsPrefix(follower.sent, all)
  <2>1. CASE follower.closed
    <3>1. Len(all) \in Nat
      BY <1>4, LenProperties
    <3> QED
      BY <1>5, <1>6, <2>1, <3>1 DEF IsPrefix
  <2>2. CASE ~follower.closed
    <3> DEFINE a == SoFar(follower)
               b == SubSeq(output, follower.read + 1, Len(output))
               d == Decoded(b)
    <3>1. a \in Seq(Bytes) /\ b \in Seq(Bytes) /\ output = a \o b
      <4>1. /\ 1 \in Int /\ follower.read \in Int /\ follower.read + 1 \in Int
            /\ Len(output) \in Int
            /\ \A i \in 1 .. follower.read : output[i] \in Bytes
            /\ \A i \in follower.read + 1 .. Len(output) : output[i] \in Bytes
        BY <1>1, ElementOfSeq
      <4>2. a \in Seq(Bytes) /\ b \in Seq(Bytes)
        BY <4>1, SubSeqProperties DEF SoFar
      <4>3. /\ 1 \in 1 .. Len(output) + 1 /\ follower.read \in 1 - 1 .. Len(output)
            /\ Len(output) \in follower.read .. Len(output)
        BY <1>1
      <4>4. a \o b = SubSeq(output, 1, Len(output))
        BY <1>1, <4>3, ConcatAdjacentSubSeq DEF SoFar
      <4> QED
        BY <1>1, <4>2, <4>4, SubSeqFull
    <3>2. /\ t = Decoded(a) /\ (a = <<>> \/ Last(a) # "h")
          /\ follower.sent = Lines(Front(Split(t)))
      BY <1>2, <1>6, <2>2 DEF ReadAs
    <3> HIDE DEF a, b
    <3>3. u = t \o d /\ d \in Texts
      BY <3>1, <3>2, DecodedOn
    <3> HIDE DEF d, u
    <3> DEFINE sent == follower.sent
               more == Lines(Front(Split(Last(Split(t)) \o d)))
               end == Lines(<<Last(Split(u))>>)
    <3>4. /\ Last(Split(t)) \o d \in Texts /\ Split(Last(Split(t)) \o d) \in Pieces
          /\ Lines(Front(Split(u))) = sent \o more
      <4>1. Last(Split(t)) \o d \in Texts /\ Lines(Front(Split(u))) = sent \o more
        <5>1. /\ Last(Split(t)) \o d \in Texts
              /\ Lines(Front(Split(t \o d))) =
                   Lines(Front(Split(t))) \o Lines(Front(Split(Last(Split(t)) \o d)))
          BY <3>3, SplitOn
        <5> QED
          BY <3>2, <3>3, <5>1
      <4> QED
        BY <4>1, SplitReads DEF Texts
    <3>5. more \in Seq(Texts) /\ sent \in Seq(Texts)
      BY <1>4, <3>2, <3>4, PiecesEnd
    <3>6. all = Lines(Front(Split(u))) \o end /\ end \in Seq(Texts)
      <4>1. /\ Front(Split(u)) \in Seq(Texts) /\ Last(Split(u)) \in Texts
            /\ Split(u) = Append(Front(Split(u)), Last(Split(u)))
        BY <1>4, PiecesEnd
      <4>2. /\ <<Last(Split(u))>> \in Seq(Texts)
            /\ Split(u) = Front(Split(u)) \o <<Last(Split(u))>>
        BY <4>1, AppendIsConcat
      <4>3. Lines(Front(Split(u)) \o <<Last(Split(u))>>) = Lines(Front(Split(u))) \o end
            /\ end \in Seq(Texts)
        BY <4>1, <4>2, LinesOn
      <4> QED
        BY <4>2, <4>3
    <3> HIDE DEF sent, more, end, all
    <3>7. all = sent \o (more \o end) /\ more \o end \in Seq(Texts)
      BY <3>4, <3>5, <3>6, ConcatAssociative, ConcatProperties
    <3> QED
      BY <3>5, <3>7, PrefixOf DEF sent
  <2> QED
    BY <2>1, <2>2
<1> HIDE DEF u, all
<1>7. ParseLogLines(Decoded(follower.output)) = all
  BY <1>3 DEF u
<1> QED
  BY <1>5, <1>6, <1>7 DEF LinesAsTailed

-----------------------------------------------------------------------------
(* The theorems.                                                           *)

\* An archive is read, or an output is.
IInv ==
  \/ follower = Nothing /\ ArchiveInv(zip)
  \/ zip = Nothing /\ FollowerInv(follower)

\* A follower is not what stands for none.
LEMMA FollowerIsNotNothing == ASSUME FollowerInv(follower) PROVE follower # Nothing
<1>1. "output" \in DOMAIN follower
  BY DEF FollowerInv, Followers
<1>2. "output" \notin DOMAIN Nothing
  BY DEF Nothing
<1> QED
  BY <1>1, <1>2

\* The invariant holds of every state of the readers.
THEOREM Inductive == Spec => []IInv
<1>1. Init => IInv
  BY LineInitInv, ZipInitInv DEF Init, IInv
<1>2. IInv /\ [Next]_vars => IInv'
  <2> SUFFICES ASSUME IInv, [Next]_vars PROVE IInv'
    OBVIOUS
  <2>1. ASSUME zip = Nothing, LineNext, UNCHANGED zipVars  PROVE IInv'
    <3>1. FollowerInv(follower)
      BY <2>1, ArchiveIsNotNothing DEF IInv, ArchiveInv
    <3>2. FollowerInv(follower')
      BY <2>1, <3>1, DataInv, CloseInv DEF LineNext
    <3> QED
      BY <2>1, <3>2 DEF IInv, zipVars
  <2>2. ASSUME follower = Nothing, ZipNext, UNCHANGED lineVars  PROVE IInv'
    <3>1. ArchiveInv(zip)
      BY <2>2, FollowerIsNotNothing DEF IInv
    <3>2. ArchiveInv(zip')
      BY <2>2, <3>1, EntryInv, EndInv DEF ZipNext
    <3> QED
      BY <2>2, <3>2 DEF IInv, lineVars
  <2>3. CASE UNCHANGED vars
    BY <2>3 DEF vars, lineVars, zipVars, IInv
  <2> QED
    BY <2>1, <2>2, <2>3 DEF Next
<1> QED
  BY <1>1, <1>2, PTL DEF Spec

\* No entry of an archive that is followed climbs out of the staged directory or is a
\* link, no file stands for that directory or over another one, not more than the
\* limit is written, and what was extracted is in place: for archives of any number of
\* entries, paths of any number of segments, and any limit.
THEOREM ArchiveAlwaysInPlace == Spec => []ArchiveInPlace
<1>1. IInv => ArchiveInPlace
  BY ArchiveInvInPlace, FollowerIsNotNothing DEF IInv, ArchiveInPlace
<1> QED
  BY <1>1, Inductive, PTL

\* However the output of docker is cut into chunks, the follower sends the lines that the
\* reader of the last lines makes of it, in order, and all of them when it closes; and as
\* many of them where a character was cut in two: for outputs of any length.
THEOREM LinesAlwaysAsRead == Spec => []LinesAsRead
<1>1. IInv => LinesAsRead
  BY FollowerInvAsTailed, ArchiveIsNotNothing DEF IInv, ArchiveInv, LinesAsRead
<1> QED
  BY <1>1, Inductive, PTL
=============================================================================

--------------------------- MODULE WebPages_proofs ---------------------------
(***************************************************************************)
(* Proofs about the pages of the web application, for any number of        *)
(* tokens, failures, and things done by the reader.                        *)
(*                                                                         *)
(* What a page shows is related to the requests it has in flight.  The     *)
(* pages share WebClient and nothing else, and each leaves the variables   *)
(* of the others alone, so each has an invariant of its own, which speaks  *)
(* of the requests only while its page is mounted.                         *)
(***************************************************************************)
EXTENDS WebPages, SequenceTheorems, FiniteSetTheorems, TLAPS

-----------------------------------------------------------------------------
(* The requests in flight.                                                 *)

\* Where the j-th request was before the i-th was taken out.
Old(i, j) == IF j < i THEN j ELSE j + 1

\* What a request keeps when it becomes late.
SameCall(c, d) ==
  c.op = d.op /\ c.arg = d.arg /\ c.res = d.res /\ c.token = d.token

\* A set of requests that holds them when they are late, too.
LateOf(c) == [c EXCEPT !.late = TRUE]
HoldsLate(S) ==
  \A c \in S : LateOf(c) \in S /\ SameCall(LateOf(c), c) /\ LateOf(c).late

\* The i-th request is gone.  The others stay in their order, and change in nothing
\* but late.
IsWithout(S, i, cs) ==
  /\ cs \in Seq(S) /\ Len(cs) = Len(calls) - 1
  /\ \A j \in 1 .. Len(calls) - 1 :
       /\ Old(i, j) \in DOMAIN calls \ {i}
       /\ cs[j] = IF j < i /\ calls[j].op = calls[i].op
                  THEN LateOf(calls[j]) ELSE calls[Old(i, j)]

\* What Without does.
LEMMA WithoutProperties ==
  ASSUME NEW S, calls \in Seq(S), NEW i \in DOMAIN calls,
         HoldsLate(S)
  PROVE  IsWithout(S, i, Without(i))
<1> DEFINE n == Len(calls)
           s == [j \in DOMAIN calls |->
                   IF j < i /\ calls[j].op = calls[i].op
                   THEN LateOf(calls[j]) ELSE calls[j]]
           a == SubSeq(s, 1, i - 1)
           b == SubSeq(s, i + 1, n)
<1>1. n \in Nat /\ DOMAIN calls = 1 .. n /\ \A j \in 1 .. n : calls[j] \in S
  BY LenProperties, ElementOfSeq
<1>2. i \in Nat /\ 1 <= i /\ i <= n
  BY <1>1
<1>3. s \in Seq(S) /\ Len(s) = n
  <2>1. s \in [1 .. n -> S]
    BY <1>1 DEF HoldsLate
  <2> HIDE DEF s
  <2> QED
    BY <2>1, <1>1, SeqDef
<1>4. Without(i) = a \o b
  BY <1>3 DEF Without, RemoveAt, LateOf
<1>5. \A j \in 1 .. n : s[j] \in S
  BY <1>3, ElementOfSeq
<1> HIDE DEF s
<1>6. /\ a \in Seq(S) /\ Len(a) = i - 1
      /\ \A j \in 1 .. i - 1 : a[j] = s[j]
  <2> DEFINE hi == i - 1
  <2>1. 1 \in Int /\ hi \in Int /\ \A j \in 1 .. hi : s[j] \in S
    BY <1>1, <1>2, <1>5
  <2>2. hi - 1 + 1 = hi /\ (hi < 1 => hi = 0) /\ \A j \in 1 .. hi : 1 + j - 1 = j
    BY <1>2
  <2> HIDE DEF hi
  <2>3. /\ SubSeq(s, 1, hi) \in Seq(S)
        /\ Len(SubSeq(s, 1, hi)) = IF 1 <= hi THEN hi - 1 + 1 ELSE 0
        /\ \A j \in 1 .. hi - 1 + 1 : SubSeq(s, 1, hi)[j] = s[1 + j - 1]
    BY <2>1, SubSeqProperties
  <2> QED
    BY <2>1, <2>2, <2>3 DEF hi
<1>7. /\ b \in Seq(S) /\ Len(b) = n - i
      /\ \A j \in 1 .. n - i : b[j] = s[i + j]
  <2> DEFINE lo == i + 1
  <2>1. lo \in Int /\ n \in Int /\ \A j \in lo .. n : s[j] \in S
    BY <1>1, <1>2, <1>5
  <2>2. /\ n - lo + 1 = n - i /\ (~(lo <= n) => n - i = 0)
        /\ \A j \in 1 .. n - i : lo + j - 1 = i + j
    BY <1>1, <1>2
  <2> HIDE DEF lo
  <2>3. /\ SubSeq(s, lo, n) \in Seq(S)
        /\ Len(SubSeq(s, lo, n)) = IF lo <= n THEN n - lo + 1 ELSE 0
        /\ \A j \in 1 .. n - lo + 1 : SubSeq(s, lo, n)[j] = s[lo + j - 1]
    BY <2>1, SubSeqProperties
  <2> QED
    BY <2>2, <2>3 DEF lo
<1> HIDE DEF a, b
<1>8. /\ a \o b \in Seq(S) /\ Len(a \o b) = n - 1
      /\ \A j \in 1 .. n - 1 : (a \o b)[j] = IF j <= i - 1 THEN a[j]
                                             ELSE b[j - (i - 1)]
  <2>1. /\ a \o b \in Seq(S) /\ Len(a \o b) = Len(a) + Len(b)
        /\ \A j \in 1 .. Len(a) + Len(b) :
             (a \o b)[j] = IF j <= Len(a) THEN a[j] ELSE b[j - Len(a)]
    BY <1>6, <1>7, ConcatProperties
  <2>2. Len(a) + Len(b) = n - 1
    BY <1>1, <1>2, <1>6, <1>7
  <2> QED
    BY <2>1, <2>2, <1>6
<1>9. ASSUME NEW j \in 1 .. n - 1
      PROVE  /\ Old(i, j) \in DOMAIN calls \ {i}
             /\ (a \o b)[j] = IF j < i /\ calls[j].op = calls[i].op
                              THEN LateOf(calls[j])
                              ELSE calls[Old(i, j)]
  <2>1. CASE j < i
    <3>1. j \in 1 .. i - 1 /\ j \in DOMAIN calls /\ j <= i - 1 /\ Old(i, j) = j
      BY <2>1, <1>1, <1>2 DEF Old
    <3>2. (a \o b)[j] = s[j]
      BY <3>1, <1>6, <1>8
    <3> QED
      BY <2>1, <3>1, <3>2 DEF s
  <2>2. CASE ~(j < i)
    <3>1. /\ ~(j <= i - 1) /\ j - (i - 1) \in 1 .. n - i
          /\ i + (j - (i - 1)) = j + 1 /\ j + 1 \in 1 .. n /\ ~(j + 1 < i)
          /\ j + 1 # i /\ Old(i, j) = j + 1
      BY <2>2, <1>1, <1>2 DEF Old
    <3>2. (a \o b)[j] = s[j + 1]
      BY <3>1, <1>7, <1>8
    <3>3. s[j + 1] = calls[j + 1]
      BY <3>1, <1>1 DEF s
    <3> QED
      BY <2>2, <3>1, <3>2, <3>3, <1>1
  <2> QED
    BY <2>1, <2>2
<1> QED
  BY <1>4, <1>8, <1>9 DEF IsWithout

\* The order of the others, and that no two come from one.
LEMMA OldOrdered ==
  ASSUME NEW i \in Nat, NEW j \in Nat, NEW k \in Nat
  PROVE  /\ Old(i, j) = Old(i, k) => j = k
         /\ j < k <=> Old(i, j) < Old(i, k)
BY DEF Old

\* The same, from the requests' point of view: cs holds all but the i-th.
AllBut(i, cs) ==
  /\ Len(calls) \in Nat /\ i \in Nat /\ DOMAIN calls = 1 .. Len(calls)
  /\ DOMAIN cs = 1 .. Len(calls) - 1
  /\ \A j \in DOMAIN cs :
       /\ j \in Nat /\ Old(i, j) \in Nat /\ Old(i, j) \in DOMAIN calls /\ Old(i, j) # i
       /\ SameCall(cs[j], calls[Old(i, j)])
       /\ cs[j].late <=> \/ calls[Old(i, j)].late
                        \/ /\ Old(i, j) < i
                           /\ calls[Old(i, j)].op = calls[i].op
  /\ \A j \in DOMAIN calls : j # i => \E k \in DOMAIN cs : Old(i, k) = j

\* Taking a request out leaves the others, in their order, some of them late.
LEMMA WithoutAllBut ==
  ASSUME NEW S, calls \in Seq(S), NEW i \in DOMAIN calls, HoldsLate(S)
  PROVE  Without(i) \in Seq(S) /\ AllBut(i, Without(i))
<1> DEFINE cs == Without(i)
<1>1. IsWithout(S, i, cs)
  BY WithoutProperties
<1> HIDE DEF cs
<1>2. /\ Len(calls) \in Nat /\ DOMAIN calls = 1 .. Len(calls) /\ i \in Nat
      /\ cs \in Seq(S) /\ DOMAIN cs = 1 .. Len(calls) - 1
  BY <1>1, LenProperties DEF IsWithout
<1>3. ASSUME NEW j \in DOMAIN cs
      PROVE  /\ j \in Nat /\ Old(i, j) \in Nat
             /\ Old(i, j) \in DOMAIN calls /\ Old(i, j) # i
             /\ SameCall(cs[j], calls[Old(i, j)])
             /\ cs[j].late <=> \/ calls[Old(i, j)].late
                              \/ /\ Old(i, j) < i
                                 /\ calls[Old(i, j)].op = calls[i].op
  <2>1. /\ j \in Nat /\ Old(i, j) \in Nat
        /\ Old(i, j) \in DOMAIN calls /\ Old(i, j) # i
        /\ cs[j] = IF j < i /\ calls[j].op = calls[i].op
                   THEN LateOf(calls[j]) ELSE calls[Old(i, j)]
    BY <1>1, <1>2 DEF IsWithout
  <2>2. CASE j < i /\ calls[j].op = calls[i].op
    <3>1. Old(i, j) = j /\ cs[j] = LateOf(calls[j])
      BY <2>1, <2>2 DEF Old
    <3>2. calls[j] \in S
      BY <1>2, <2>1, <3>1, ElementOfSeq
    <3>3. SameCall(cs[j], calls[j]) /\ cs[j].late
      BY <3>1, <3>2 DEF HoldsLate
    <3> QED
      BY <2>1, <2>2, <3>1, <3>3
  <2>3. CASE ~(j < i /\ calls[j].op = calls[i].op)
    <3>1. cs[j] = calls[Old(i, j)]
      BY <2>1, <2>3
    <3>2. ~(Old(i, j) < i /\ calls[Old(i, j)].op = calls[i].op)
      BY <1>2, <2>1, <2>3 DEF Old
    <3> QED
      BY <2>1, <3>1, <3>2 DEF SameCall
  <2> QED
    BY <2>2, <2>3
<1>4. ASSUME NEW j \in DOMAIN calls, j # i
      PROVE  \E k \in DOMAIN cs : Old(i, k) = j
  <2>1. CASE j < i
    BY <1>2, <2>1 DEF Old
  <2>2. CASE i < j
    <3>1. j - 1 \in DOMAIN cs /\ Old(i, j - 1) = j
      BY <1>2, <2>2 DEF Old
    <3> QED
      BY <3>1
  <2> QED
    BY <1>2, <1>4, <2>1, <2>2
<1>5. AllBut(i, cs)
  <2>1. \A j \in DOMAIN calls : j # i => \E k \in DOMAIN cs : Old(i, k) = j
    BY <1>4
  <2>2. \A j \in DOMAIN cs :
          /\ j \in Nat /\ Old(i, j) \in Nat /\ Old(i, j) \in DOMAIN calls /\ Old(i, j) # i
          /\ SameCall(cs[j], calls[Old(i, j)])
          /\ cs[j].late <=> \/ calls[Old(i, j)].late
                           \/ /\ Old(i, j) < i
                              /\ calls[Old(i, j)].op = calls[i].op
    BY <1>3
  <2> QED
    BY <1>2, <2>1, <2>2 DEF AllBut
<1> QED
  BY <1>2, <1>5 DEF cs

\* A request that is changed in its place.
LEMMA CallSet ==
  ASSUME NEW S, calls \in Seq(S), NEW i \in DOMAIN calls, NEW c \in S
  PROVE  /\ [calls EXCEPT ![i] = c] \in Seq(S)
         /\ Len([calls EXCEPT ![i] = c]) = Len(calls)
         /\ DOMAIN [calls EXCEPT ![i] = c] = DOMAIN calls
         /\ \A j \in DOMAIN calls :
              [calls EXCEPT ![i] = c][j] = IF j = i THEN c ELSE calls[j]
<1>1. i \in 1 .. Len(calls)
  BY LenProperties
<1> QED
  BY <1>1, ExceptSeq, LenProperties

\* A request that is added.
LEMMA CallAdded ==
  ASSUME NEW S, NEW cs \in Seq(S), NEW c \in S
  PROVE  /\ Append(cs, c) \in Seq(S)
         /\ Len(cs) \in Nat /\ Len(Append(cs, c)) = Len(cs) + 1
         /\ DOMAIN cs = 1 .. Len(cs) /\ DOMAIN Append(cs, c) = 1 .. Len(cs) + 1
         /\ \A j \in DOMAIN cs : j \in DOMAIN Append(cs, c)
                                 /\ Append(cs, c)[j] = cs[j] /\ j < Len(cs) + 1
         /\ Len(cs) + 1 \in DOMAIN Append(cs, c)
         /\ Append(cs, c)[Len(cs) + 1] = c
         /\ \A j \in DOMAIN Append(cs, c) : j \in DOMAIN cs \/ j = Len(cs) + 1
<1> DEFINE d == Append(cs, c)
<1>1. /\ d \in Seq(S) /\ Len(cs) \in Nat /\ Len(d) = Len(cs) + 1
      /\ DOMAIN cs = 1 .. Len(cs)
      /\ \A j \in 1 .. Len(cs) : d[j] = cs[j]
      /\ d[Len(cs) + 1] = c
  BY AppendProperties, LenProperties
<1> HIDE DEF d
<1>2. DOMAIN d = 1 .. Len(cs) + 1
  BY <1>1, LenProperties
<1>3. \A j \in DOMAIN cs : j \in DOMAIN d /\ d[j] = cs[j] /\ j < Len(cs) + 1
  BY <1>1, <1>2
<1>4. \A j \in DOMAIN d : j \in DOMAIN cs \/ j = Len(cs) + 1
  BY <1>1, <1>2
<1> QED
  BY <1>1, <1>2, <1>3, <1>4 DEF d

-----------------------------------------------------------------------------
(* Lists.  A page may ask for a list again before the last one has come, and *)
(* shows each as it comes; one that comes after a later one is late.         *)

Listing(cs, op) == \E i \in DOMAIN cs : cs[i].op = op

\* The lists are late in the order they were asked for.
LateFirst(cs, op) ==
  \A i, j \in DOMAIN cs :
    i < j /\ cs[i].op = op /\ cs[j].op = op /\ cs[j].late => cs[i].late

\* The last list asked for, unless it was taken.
IsNewest(cs, op, i) ==
  /\ i \in DOMAIN cs /\ cs[i].op = op /\ ~cs[i].late
  /\ \A j \in DOMAIN cs : i < j => cs[j].op # op
AllLate(cs, op) == \A i \in DOMAIN cs : cs[i].op = op => cs[i].late

\* What its request has come to is one of results.
Fresh(cs, op, results) ==
  \A i \in DOMAIN cs : IsNewest(cs, op, i) => cs[i].res \in results

\* A request that is added is the newest of its kind.
LEMMA ListAdded ==
  ASSUME NEW S, NEW cs \in Seq(S), NEW c \in S, ~c.late, NEW op
  PROVE  /\ Listing(cs, op) \/ c.op = op => Listing(Append(cs, c), op)
         /\ LateFirst(cs, op) => LateFirst(Append(cs, c), op)
         /\ AllLate(Append(cs, c), op) <=> AllLate(cs, op) /\ c.op # op
         /\ c.op = op =>
              \A results : c.res \in results => Fresh(Append(cs, c), op, results)
         /\ c.op # op =>
              \A results : Fresh(cs, op, results) => Fresh(Append(cs, c), op, results)
<1> DEFINE d == Append(cs, c)
           n == Len(cs) + 1
<1>1. /\ Len(cs) \in Nat /\ DOMAIN cs = 1 .. Len(cs)
      /\ \A j \in DOMAIN cs : j \in DOMAIN d /\ d[j] = cs[j] /\ j < n
      /\ n \in DOMAIN d /\ d[n] = c
      /\ \A j \in DOMAIN d : j \in DOMAIN cs \/ j = n
  BY CallAdded
<1>2. n \in Nat /\ \A j \in DOMAIN cs : j \in Nat
  BY <1>1
<1> HIDE DEF d, n
<1>3. Listing(cs, op) \/ c.op = op => Listing(d, op)
  BY <1>1 DEF Listing
<1>4. LateFirst(cs, op) => LateFirst(d, op)
  BY <1>1, <1>2 DEF LateFirst
<1>5. AllLate(d, op) <=> AllLate(cs, op) /\ c.op # op
  BY <1>1 DEF AllLate
<1>6. ASSUME c.op = op, NEW results, c.res \in results
      PROVE  Fresh(d, op, results)
  BY <1>1, <1>2, <1>6 DEF Fresh, IsNewest
<1>7. ASSUME c.op # op, NEW results, Fresh(cs, op, results)
      PROVE  Fresh(d, op, results)
  <2>1. ASSUME NEW j \in DOMAIN d, IsNewest(d, op, j)
        PROVE  j \in DOMAIN cs /\ IsNewest(cs, op, j) /\ d[j] = cs[j]
    BY <1>1, <1>2, <1>7, <2>1 DEF IsNewest
  <2> QED
    BY <1>7, <2>1 DEF Fresh
<1> QED
  BY <1>3, <1>4, <1>5, <1>6, <1>7 DEF d

\* The newest request that is left was the newest before.
LEMMA NewestKept ==
  ASSUME NEW S, calls \in Seq(S), HoldsLate(S), NEW i \in DOMAIN calls, NEW op
  PROVE  \A j : IsNewest(Without(i), op, j) =>
           /\ IsNewest(calls, op, Old(i, j))
           /\ SameCall(Without(i)[j], calls[Old(i, j)])
<1> DEFINE w == Without(i)
<1>1. AllBut(i, w)
  BY WithoutAllBut
<1> HIDE DEF w
<1>2. /\ i \in Nat
      /\ \A j \in DOMAIN w :
           /\ j \in Nat /\ Old(i, j) \in Nat /\ Old(i, j) \in DOMAIN calls
           /\ Old(i, j) # i /\ w[j].op = calls[Old(i, j)].op
           /\ w[j].late <=> \/ calls[Old(i, j)].late
                            \/ /\ Old(i, j) < i
                               /\ calls[Old(i, j)].op = calls[i].op
      /\ \A j \in DOMAIN calls :
           j \in Nat /\ (j # i => \E k \in DOMAIN w : Old(i, k) = j)
  BY <1>1 DEF AllBut, SameCall
<1>3. ASSUME NEW j, IsNewest(w, op, j)
      PROVE  IsNewest(calls, op, Old(i, j)) /\ SameCall(w[j], calls[Old(i, j)])
  <2>1. j \in DOMAIN w
    BY <1>3 DEF IsNewest
  <2>2. /\ calls[Old(i, j)].op = op /\ ~calls[Old(i, j)].late
        /\ calls[i].op = op => ~(Old(i, j) < i)
    BY <1>2, <1>3, <2>1 DEF IsNewest
  <2>3. ASSUME NEW l \in DOMAIN calls, Old(i, j) < l, calls[l].op = op
        PROVE  FALSE
    <3>1. l # i
      BY <1>2, <2>1, <2>2, <2>3
    <3>2. PICK k \in DOMAIN w : Old(i, k) = l
      BY <1>2, <3>1
    <3>3. j < k /\ w[k].op = op
      BY <1>2, <2>1, <2>3, <3>2, OldOrdered
    <3> QED
      BY <1>3, <3>3 DEF IsNewest
  <2>4. SameCall(w[j], calls[Old(i, j)])
    BY <1>1, <2>1 DEF AllBut
  <2> QED
    BY <1>2, <2>1, <2>2, <2>3, <2>4 DEF IsNewest
<1> QED
  BY <1>3 DEF w

\* A request whose answer is taken: those before it are late.
LEMMA ListRemoved ==
  ASSUME NEW S, calls \in Seq(S), HoldsLate(S), NEW i \in DOMAIN calls, NEW op
  PROVE  /\ Listing(calls, op) /\ calls[i].op # op => Listing(Without(i), op)
         /\ LateFirst(calls, op) => LateFirst(Without(i), op)
         /\ \A results :
              Fresh(calls, op, results) => Fresh(Without(i), op, results)
         /\ AllLate(Without(i), op) /\ calls[i].op # op => AllLate(calls, op)
         /\ AllLate(Without(i), op) /\ LateFirst(calls, op) /\ calls[i].op = op =>
              calls[i].late \/ IsNewest(calls, op, i)
<1> DEFINE w == Without(i)
<1>1. AllBut(i, w)
  BY WithoutAllBut
<1> HIDE DEF w
<1>2. /\ i \in Nat
      /\ \A j \in DOMAIN w :
           /\ j \in Nat /\ Old(i, j) \in Nat /\ Old(i, j) \in DOMAIN calls
           /\ Old(i, j) # i /\ w[j].op = calls[Old(i, j)].op
           /\ w[j].res = calls[Old(i, j)].res
           /\ w[j].late <=> \/ calls[Old(i, j)].late
                            \/ /\ Old(i, j) < i
                               /\ calls[Old(i, j)].op = calls[i].op
      /\ \A j \in DOMAIN calls :
           j \in Nat /\ (j # i => \E k \in DOMAIN w : Old(i, k) = j)
  BY <1>1 DEF AllBut, SameCall
<1>3. ASSUME Listing(calls, op), calls[i].op # op  PROVE Listing(w, op)
  BY <1>2, <1>3 DEF Listing
<1>4. ASSUME LateFirst(calls, op)  PROVE LateFirst(w, op)
  <2> SUFFICES ASSUME NEW j \in DOMAIN w, NEW k \in DOMAIN w, j < k,
                      w[j].op = op, w[k].op = op, w[k].late
               PROVE  w[j].late
    BY DEF LateFirst
  <2>1. Old(i, j) < Old(i, k)
    BY <1>2, OldOrdered
  <2>2. CASE calls[Old(i, k)].late
    BY <1>2, <1>4, <2>1, <2>2 DEF LateFirst
  <2>3. CASE Old(i, k) < i /\ calls[Old(i, k)].op = calls[i].op
    BY <1>2, <2>1, <2>3
  <2> QED
    BY <1>2, <2>2, <2>3
<1>5. ASSUME NEW results, Fresh(calls, op, results)  PROVE Fresh(w, op, results)
  <2>1. \A j : IsNewest(w, op, j) => IsNewest(calls, op, Old(i, j))
    BY NewestKept DEF w
  <2> QED
    BY <1>2, <1>5, <2>1 DEF Fresh
<1>6. ASSUME AllLate(w, op), calls[i].op # op  PROVE AllLate(calls, op)
  BY <1>2, <1>6 DEF AllLate
<1>7. ASSUME AllLate(w, op), LateFirst(calls, op), calls[i].op = op, ~calls[i].late
      PROVE  IsNewest(calls, op, i)
  <2>1. ASSUME NEW j \in DOMAIN calls, i < j, calls[j].op = op
        PROVE  FALSE
    <3>1. PICK k \in DOMAIN w : Old(i, k) = j
      BY <1>2, <2>1
    <3>2. w[k].late /\ ~(j < i)
      BY <1>2, <1>7, <2>1, <3>1 DEF AllLate
    <3>3. calls[j].late
      BY <1>2, <3>1, <3>2
    <3> QED
      BY <1>7, <2>1, <3>3 DEF LateFirst
  <2> QED
    BY <1>7, <2>1 DEF IsNewest
<1> QED
  BY <1>3, <1>4, <1>5, <1>6, <1>7 DEF w

\* A request that is changed in its place: served, sent again, or left.
LEMMA ListServed ==
  ASSUME NEW S, calls \in Seq(S), NEW i \in DOMAIN calls, NEW c \in S, NEW op,
         c.op = op <=> calls[i].op = op, c.late = calls[i].late
  PROVE  /\ Listing(calls, op) => Listing([calls EXCEPT ![i] = c], op)
         /\ LateFirst(calls, op) => LateFirst([calls EXCEPT ![i] = c], op)
         /\ AllLate([calls EXCEPT ![i] = c], op) <=> AllLate(calls, op)
         /\ \A results :
              /\ Fresh(calls, op, results)
              /\ calls[i].op = op => c.res = calls[i].res \/ c.res \in results
              => Fresh([calls EXCEPT ![i] = c], op, results)
<1> DEFINE d == [calls EXCEPT ![i] = c]
<1>1. /\ DOMAIN d = DOMAIN calls
      /\ \A j \in DOMAIN calls : d[j] = IF j = i THEN c ELSE calls[j]
  BY CallSet
<1> HIDE DEF d
<1>2. \A j \in DOMAIN calls : /\ d[j].op = op <=> calls[j].op = op
                              /\ d[j].late = calls[j].late
  BY <1>1
<1>3. Listing(calls, op) => Listing(d, op)
  BY <1>1, <1>2 DEF Listing
<1>4. LateFirst(calls, op) => LateFirst(d, op)
  BY <1>1, <1>2 DEF LateFirst
<1>5. AllLate(d, op) <=> AllLate(calls, op)
  BY <1>1, <1>2 DEF AllLate
<1>6. ASSUME NEW results, Fresh(calls, op, results),
             calls[i].op = op => c.res = calls[i].res \/ c.res \in results
      PROVE  Fresh(d, op, results)
  <2>1. ASSUME NEW j \in DOMAIN d, IsNewest(d, op, j)  PROVE IsNewest(calls, op, j)
    BY <1>1, <1>2, <2>1 DEF IsNewest
  <2> QED
    BY <1>1, <1>2, <1>6, <2>1 DEF Fresh, IsNewest
<1> QED
  BY <1>3, <1>4, <1>5, <1>6 DEF d

-----------------------------------------------------------------------------
(* The dashboard.                                                          *)

\* The tokens and the failures, for every page.
ClientOK ==
  /\ token \in 0 .. MaxToken /\ good \in token .. MaxToken
  /\ failures \in 0 .. MaxFailures

Dashes ==
  [project : Typed, metrics : Known \cup {NoMetrics}, error : BOOLEAN,
   loading : BOOLEAN, made : [project : Typed, token : -1 .. MaxToken],
   keys : 0 .. Keystrokes]
Controllers == [project : Typed, inFlight : BOOLEAN, stopped : BOOLEAN]
PollCalls ==
  [op : {"poll"}, arg : [k : Nat, project : Typed], token : 0 .. MaxToken,
   res : {Waiting}, late : BOOLEAN]

DashOK == dash \in Dashes /\ poller \in Seq(Controllers)

\* Only the newest controller runs, for the project of the last render.
OneRuns ==
  /\ \A k \in DOMAIN poller : ~poller[k].stopped => k = Current
  /\ Polling => poller[Current].project = dash.made.project

\* A request is that of its controller, which waits for it and for no other.
PollsOwned ==
  /\ calls \in Seq(PollCalls)
  /\ \A i \in DOMAIN calls :
       /\ calls[i].arg.k \in DOMAIN poller
       /\ poller[calls[i].arg.k].inFlight
       /\ calls[i].arg.project = poller[calls[i].arg.k].project
  /\ \A i, j \in DOMAIN calls : calls[i].arg.k = calls[j].arg.k => i = j

\* What is shown belongs to the last render; without a render due that is the
\* current one.
DashShows ==
  /\ dash.loading <=> Polling /\ poller[Current].inFlight
  /\ dash.metrics \in {NoMetrics, dash.made.project}
  /\ ~dirty => dash.made = Deps

DashLive == OneRuns /\ PollsOwned /\ DashShows

DashInv == route = "dashboard" => ClientOK /\ DashOK /\ DashLive

\* A rendered dashboard shows what is its own.
LEMMA DashLiveOwn == ASSUME DashInv PROVE MetricsAreOwn
<1> SUFFICES ASSUME route = "dashboard", ~dirty
             PROVE  /\ dash.metrics \in {NoMetrics, dash.project}
                    /\ dash.loading <=> (Polling /\ poller[Current].inFlight)
                    /\ \A k \in DOMAIN poller : ~poller[k].stopped =>
                         /\ k = Current /\ poller[k].project = dash.project
                         /\ \A i, j \in DOMAIN calls :
                              calls[i].arg.k = k /\ calls[j].arg.k = k => i = j
  BY DEF MetricsAreOwn
<1>1. DashLive /\ DashOK
  BY DEF DashInv
<1>2. dash.made.project = dash.project
  BY <1>1 DEF DashLive, DashShows, Deps
<1>3. ASSUME NEW k \in DOMAIN poller, ~poller[k].stopped
      PROVE  /\ k = Current /\ poller[k].project = dash.project
             /\ \A i, j \in DOMAIN calls :
                  calls[i].arg.k = k /\ calls[j].arg.k = k => i = j
  <2>1. k = Current
    BY <1>1, <1>3 DEF DashLive, OneRuns
  <2>2. Current > 0
    BY <1>1, <2>1, LenProperties DEF DashOK, Current
  <2>3. Polling
    BY <1>3, <2>1, <2>2 DEF Polling
  <2> QED
    BY <1>1, <1>2, <2>1, <2>3 DEF DashLive, OneRuns, PollsOwned
<1> QED
  BY <1>1, <1>2, <1>3 DEF DashLive, DashShows

\* The types of the dashboard's state, in the form the steps use them.
LEMMA DashFacts ==
  ASSUME DashOK
  PROVE  /\ Current \in Nat /\ DOMAIN poller = 1 .. Current
         /\ \A k \in DOMAIN poller : poller[k] \in Controllers
         /\ Polling => Current \in DOMAIN poller
<1>1. Current \in Nat /\ DOMAIN poller = 1 .. Current
      /\ \A k \in 1 .. Current : poller[k] \in Controllers
  BY LenProperties, ElementOfSeq DEF DashOK, Current
<1> QED
  BY <1>1 DEF Polling

\* A field of one controller is changed.
LEMMA ControllerSet ==
  ASSUME DashOK, NEW k \in DOMAIN poller, NEW c \in Controllers
  PROVE  /\ [poller EXCEPT ![k] = c] \in Seq(Controllers)
         /\ Len([poller EXCEPT ![k] = c]) = Current
         /\ DOMAIN [poller EXCEPT ![k] = c] = DOMAIN poller
         /\ \A l \in DOMAIN poller :
              [poller EXCEPT ![k] = c][l] = IF l = k THEN c ELSE poller[l]
<1>1. k \in 1 .. Len(poller) /\ poller \in Seq(Controllers)
  BY DashFacts DEF DashOK, Current
<1> QED
  BY <1>1, ExceptSeq, LenProperties DEF Current

\* Stop leaves no controller running, and changes nothing else of any.
LEMMA StopProperties ==
  ASSUME DashOK, OneRuns
  PROVE  /\ Stop(poller) \in Seq(Controllers) /\ Len(Stop(poller)) = Current
         /\ DOMAIN Stop(poller) = DOMAIN poller
         /\ \A k \in DOMAIN poller :
              /\ Stop(poller)[k].stopped
              /\ Stop(poller)[k].inFlight = poller[k].inFlight
              /\ Stop(poller)[k].project = poller[k].project
<1>1. Current \in Nat /\ DOMAIN poller = 1 .. Current
      /\ \A k \in DOMAIN poller : poller[k] \in Controllers
  BY DashFacts
<1>2. CASE Polling
  <2> DEFINE c == [poller[Current] EXCEPT !.stopped = TRUE]
  <2>1. Current \in DOMAIN poller
    BY <1>2, DashFacts
  <2>2. /\ c \in Controllers /\ c.stopped
        /\ c.inFlight = poller[Current].inFlight
        /\ c.project = poller[Current].project
    BY <1>1, <2>1 DEF Controllers
  <2>3. Stop(poller) = [poller EXCEPT ![Current] = c]
    BY <1>2 DEF Stop
  <2> HIDE DEF c
  <2>4. /\ Stop(poller) \in Seq(Controllers) /\ Len(Stop(poller)) = Current
        /\ DOMAIN Stop(poller) = DOMAIN poller
        /\ \A k \in DOMAIN poller :
             Stop(poller)[k] = IF k = Current THEN c ELSE poller[k]
    BY <2>1, <2>2, <2>3, ControllerSet
  <2> QED
    BY <2>2, <2>4 DEF OneRuns
<1>3. CASE ~Polling
  <2>1. Stop(poller) = poller
    BY <1>3 DEF Stop
  <2>2. \A k \in DOMAIN poller : poller[k].stopped
    BY <1>1, <1>3 DEF OneRuns, Polling
  <2> QED
    BY <2>1, <2>2 DEF DashOK, Current
<1> QED
  BY <1>2, <1>3

\* A request is made for a controller that had none.
LEMMA PollAdded ==
  ASSUME ClientOK, DashOK, PollsOwned, NEW k \in DOMAIN poller', NEW p \in Typed,
         calls' = Append(calls, Poll(k, p)),
         DOMAIN poller \subseteq DOMAIN poller', DOMAIN poller' \subseteq Nat,
         poller'[k].inFlight, poller'[k].project = p,
         k \in DOMAIN poller => ~poller[k].inFlight,
         \A l \in DOMAIN poller : /\ poller[l].inFlight => poller'[l].inFlight
                                  /\ poller'[l].project = poller[l].project
  PROVE  PollsOwned'
<1> DEFINE c == Poll(k, p)
<1>1. calls \in Seq(PollCalls) /\ Len(calls) \in Nat /\ DOMAIN calls = 1 .. Len(calls)
  BY LenProperties DEF PollsOwned
<1>2. c \in PollCalls /\ c.arg.k = k /\ c.arg.project = p
  BY DEF ClientOK, PollCalls, Poll, Call, Waiting
<1> HIDE DEF c
<1>3. /\ calls' \in Seq(PollCalls) /\ Len(calls') = Len(calls) + 1
      /\ \A i \in 1 .. Len(calls) : calls'[i] = calls[i]
      /\ calls'[Len(calls) + 1] = c
  BY <1>1, <1>2, AppendProperties DEF c
<1>4. DOMAIN calls' = 1 .. Len(calls) + 1
  BY <1>3, LenProperties
<1>5. \A i \in DOMAIN calls' : \/ i \in DOMAIN calls /\ calls'[i] = calls[i]
                               \/ i = Len(calls) + 1 /\ calls'[i] = c
  <2>1. ASSUME NEW i \in DOMAIN calls'
        PROVE  i \in 1 .. Len(calls) \/ i = Len(calls) + 1
    BY <1>1, <1>4
  <2> QED
    BY <2>1, <1>1, <1>3
<1>6. ASSUME NEW i \in DOMAIN calls  PROVE calls[i].arg.k # k
  BY DEF PollsOwned
<1>7. ASSUME NEW i \in DOMAIN calls'
      PROVE  /\ calls'[i].arg.k \in DOMAIN poller'
             /\ poller'[calls'[i].arg.k].inFlight
             /\ calls'[i].arg.project = poller'[calls'[i].arg.k].project
  <2>1. CASE i \in DOMAIN calls /\ calls'[i] = calls[i]
    <3>1. /\ calls[i].arg.k \in DOMAIN poller
          /\ poller[calls[i].arg.k].inFlight
          /\ calls[i].arg.project = poller[calls[i].arg.k].project
      BY <2>1 DEF PollsOwned
    <3> QED
      BY <2>1, <3>1
  <2>2. CASE calls'[i] = c
    BY <1>2, <2>2
  <2> QED
    BY <1>5, <2>1, <2>2
<1>8. ASSUME NEW i \in DOMAIN calls', NEW j \in DOMAIN calls',
             calls'[i].arg.k = calls'[j].arg.k
      PROVE  i = j
  BY <1>2, <1>5, <1>6, <1>8 DEF PollsOwned
<1> QED
  BY <1>3, <1>7, <1>8 DEF PollsOwned

\* A render stops the controller of the last one and starts one of its own.
LEMMA DashRenderInv ==
  ASSUME DashInv, route = "dashboard", DashRender
  PROVE  DashInv'
<1> DEFINE cleared == [dash EXCEPT !.made = Deps, !.metrics = NoMetrics,
                                   !.error = FALSE, !.loading = FALSE]
<1>1. ClientOK /\ DashOK /\ OneRuns /\ PollsOwned /\ DashShows
  BY DEF DashInv, DashLive
<1>2. UNCHANGED <<route, token, good, failures>>
  BY DEF DashRender
<1>3. ClientOK'
  BY <1>1, <1>2 DEF ClientOK
<1>4. CASE dash.made = Deps
  <2>1. UNCHANGED <<dash, poller, calls>>
    BY <1>4 DEF DashRender, dashVars
  <2> QED
    BY <1>1, <1>2, <1>3, <1>4, <2>1
       DEF DashInv, DashLive, DashOK, OneRuns, PollsOwned, DashShows, Polling,
           Current, Deps
<1>5. CASE dash.made # Deps
  <2>1. /\ IF hasMetricsSession
           THEN /\ dash' = Polls(cleared)
                /\ poller' = Started(Stop(poller), dash.project)
                /\ calls' = Append(calls, Poll(Len(poller'), dash.project))
           ELSE /\ dash' = cleared /\ poller' = Stop(poller)
                /\ UNCHANGED calls
        /\ dirty' = TRUE
    BY <1>5 DEF DashRender
  <2>2. /\ Stop(poller) \in Seq(Controllers) /\ Len(Stop(poller)) = Current
        /\ DOMAIN Stop(poller) = DOMAIN poller
        /\ \A k \in DOMAIN poller :
             /\ Stop(poller)[k].stopped
             /\ Stop(poller)[k].inFlight = poller[k].inFlight
             /\ Stop(poller)[k].project = poller[k].project
    BY <1>1, StopProperties
  <2>3. dash \in Dashes /\ dash.project \in Typed /\ Current \in Nat
        /\ DOMAIN poller = 1 .. Current
    BY <1>1, DashFacts DEF DashOK, Dashes
  <2>4. Deps \in [project : Typed, token : -1 .. MaxToken]
        /\ Deps.project = dash.project
    BY <1>1, <2>3, ClientAssumption DEF Deps, ClientOK
  <2>5. /\ cleared \in Dashes /\ cleared.made = Deps /\ ~cleared.loading
        /\ cleared.metrics = NoMetrics
    BY <2>3, <2>4 DEF Dashes
  <2> HIDE DEF cleared
  <2>6. CASE hasMetricsSession
    <3> DEFINE new == [project |-> dash.project, inFlight |-> TRUE, stopped |-> FALSE]
    <3>1. /\ dash' \in Dashes /\ dash'.made = Deps /\ dash'.loading
          /\ dash'.metrics = NoMetrics
      BY <2>1, <2>5, <2>6 DEF Polls, Dashes
    <3>2. /\ new \in Controllers /\ new.project = dash.project
          /\ new.inFlight /\ ~new.stopped
      BY <2>3 DEF Controllers
    <3>3. poller' = Append(Stop(poller), new)
      BY <2>1, <2>6 DEF Started
    <3> HIDE DEF new
    <3>4. /\ poller' \in Seq(Controllers) /\ Len(poller') = Current + 1
          /\ \A k \in 1 .. Current : poller'[k] = Stop(poller)[k]
          /\ poller'[Current + 1] = new
      BY <2>2, <3>2, <3>3, AppendProperties
    <3>5. DOMAIN poller' = 1 .. Current + 1 /\ Current' = Current + 1
      BY <3>4, LenProperties DEF Current
    <3>6. \A k \in DOMAIN poller' : k \in DOMAIN poller \/ k = Current + 1
      BY <2>3, <3>5
    <3>7. DashOK'
      BY <3>1, <3>4 DEF DashOK
    <3>8. Polling' /\ poller'[Current'].inFlight
          /\ poller'[Current'].project = dash.project
      BY <2>3, <3>2, <3>4, <3>5 DEF Polling
    <3>9. OneRuns'
      BY <2>2, <2>3, <2>4, <3>1, <3>4, <3>5, <3>6, <3>8 DEF OneRuns
    <3>10. PollsOwned'
      <4> DEFINE k == Current + 1
      <4>1. k \in DOMAIN poller' /\ k \notin DOMAIN poller
            /\ calls' = Append(calls, Poll(k, dash.project))
        BY <2>1, <2>3, <2>6, <3>4, <3>5
      <4>2. DOMAIN poller \subseteq DOMAIN poller' /\ DOMAIN poller' \subseteq Nat
        BY <2>3, <3>5
      <4>3. poller'[k].inFlight /\ poller'[k].project = dash.project
        BY <3>2, <3>4
      <4>4. \A l \in DOMAIN poller : /\ poller[l].inFlight => poller'[l].inFlight
                                     /\ poller'[l].project = poller[l].project
        BY <2>2, <2>3, <3>4
      <4> HIDE DEF k
      <4> QED
        BY <1>1, <2>3, <4>1, <4>2, <4>3, <4>4, PollAdded
    <3>11. DashShows'
      BY <2>1, <3>1, <3>8 DEF DashShows
    <3> QED
      BY <1>3, <3>7, <3>9, <3>10, <3>11 DEF DashInv, DashLive
  <2>7. CASE ~hasMetricsSession
    <3>1. dash' = cleared /\ poller' = Stop(poller) /\ calls' = calls
      BY <2>1, <2>7
    <3>2. Current' = Current /\ DOMAIN poller' = DOMAIN poller
      BY <2>2, <3>1 DEF Current
    <3>3. DashOK'
      BY <2>2, <2>5, <3>1 DEF DashOK
    <3>4. ~Polling'
      BY <2>2, <2>3, <3>1, <3>2 DEF Polling
    <3>5. OneRuns'
      BY <2>2, <3>1, <3>2, <3>4 DEF OneRuns
    <3>6. PollsOwned'
      BY <1>1, <2>2, <3>1, <3>2 DEF PollsOwned
    <3>7. DashShows'
      BY <2>1, <2>5, <3>1, <3>4 DEF DashShows
    <3> QED
      BY <1>3, <3>3, <3>5, <3>6, <3>7 DEF DashInv, DashLive
  <2> QED
    BY <2>6, <2>7
<1> QED
  BY <1>4, <1>5

\* The answer to a controller, or the end of its wait.
LEMMA PollEndsInv ==
  ASSUME DashInv, route = "dashboard", NEW i \in DOMAIN calls,
         NEW d \in Dashes, d.made = dash.made,
         d.metrics \in {NoMetrics, dash.made.project, calls[i].arg.project},
         PollEnds(i, d), ClientOK'
  PROVE  DashInv'
<1> DEFINE k == calls[i].arg.k
           c == [poller[k] EXCEPT !.inFlight = FALSE]
<1>1. ClientOK /\ DashOK /\ OneRuns /\ PollsOwned /\ DashShows
  BY DEF DashInv, DashLive
<1>2. /\ dash' = IF poller[k].stopped THEN dash ELSE [d EXCEPT !.loading = FALSE]
      /\ poller' = [poller EXCEPT ![k] = c]
      /\ dirty' = TRUE /\ calls' = Without(i) /\ route' = route
  BY DEF PollEnds
<1>3. k \in DOMAIN poller /\ calls[i].arg.project = poller[k].project
  BY <1>1 DEF PollsOwned
<1>4. Current \in Nat /\ DOMAIN poller = 1 .. Current
      /\ \A l \in DOMAIN poller : poller[l] \in Controllers
  BY <1>1, DashFacts
<1>5. /\ c \in Controllers /\ ~c.inFlight /\ c.stopped = poller[k].stopped
      /\ c.project = poller[k].project
  BY <1>3, <1>4 DEF Controllers
<1> HIDE DEF c
<1>6. /\ poller' \in Seq(Controllers) /\ Len(poller') = Current
      /\ DOMAIN poller' = DOMAIN poller
      /\ \A l \in DOMAIN poller : poller'[l] = IF l = k THEN c ELSE poller[l]
  BY <1>1, <1>2, <1>3, <1>5, ControllerSet
<1>7. Current' = Current
  BY <1>6 DEF Current
<1>8. \A l \in DOMAIN poller : /\ poller'[l].stopped = poller[l].stopped
                               /\ poller'[l].project = poller[l].project
                               /\ l # k => poller'[l].inFlight = poller[l].inFlight
                               /\ l = k => ~poller'[l].inFlight
  BY <1>5, <1>6
<1>9. /\ dash' \in Dashes /\ dash'.made = dash.made
      /\ poller[k].stopped => dash' = dash
      /\ ~poller[k].stopped => ~dash'.loading /\ dash'.metrics = d.metrics
  <2>1. dash \in Dashes
    BY <1>1 DEF DashOK
  <2>2. CASE poller[k].stopped
    BY <2>1, <2>2, <1>2
  <2>3. CASE ~poller[k].stopped
    BY <2>3, <1>2 DEF Dashes
  <2> QED
    BY <2>2, <2>3
<1>10. DashOK'
  BY <1>6, <1>9 DEF DashOK
<1>11. Polling' <=> Polling
  BY <1>4, <1>6, <1>7, <1>8 DEF Polling
<1>12. OneRuns'
  BY <1>1, <1>4, <1>6, <1>7, <1>8, <1>9, <1>11, DashFacts DEF OneRuns
<1>13. PollsOwned'
  <2>1. /\ calls \in Seq(PollCalls) /\ Len(calls) \in Nat
        /\ DOMAIN calls = 1 .. Len(calls) /\ i \in Nat
    BY <1>1, LenProperties DEF PollsOwned
  <2>2. HoldsLate(PollCalls)
    BY DEF HoldsLate, LateOf, SameCall, PollCalls
  <2>3. /\ calls' \in Seq(PollCalls) /\ Len(calls') = Len(calls) - 1
        /\ \A j \in 1 .. Len(calls) - 1 :
             /\ Old(i, j) \in DOMAIN calls \ {i}
             /\ calls'[j] = IF j < i /\ calls[j].op = calls[i].op
                            THEN LateOf(calls[j]) ELSE calls[Old(i, j)]
    <3>1. IsWithout(PollCalls, i, Without(i))
      BY <2>1, <2>2, WithoutProperties, Zenon
    <3> QED
      BY <1>2, <3>1 DEF IsWithout
  <2>4. DOMAIN calls' = 1 .. Len(calls) - 1
    BY <2>3, LenProperties
  <2>5. ASSUME NEW j \in DOMAIN calls'
        PROVE  /\ Old(i, j) \in DOMAIN calls \ {i}
               /\ calls'[j].arg = calls[Old(i, j)].arg
    <3>1. Old(i, j) \in DOMAIN calls \ {i}
      BY <2>3, <2>4
    <3>2. CASE j < i /\ calls[j].op = calls[i].op
      <4>1. calls'[j] = [calls[j] EXCEPT !.late = TRUE] /\ Old(i, j) = j
        BY <2>3, <2>4, <3>2 DEF Old, LateOf
      <4>2. calls[j] \in PollCalls
        BY <2>1, <3>1, <4>1, ElementOfSeq
      <4>3. calls'[j].arg = calls[j].arg
        BY <4>1, <4>2 DEF PollCalls
      <4> QED
        BY <3>1, <4>1, <4>3
    <3>3. CASE ~(j < i /\ calls[j].op = calls[i].op)
      BY <2>3, <2>4, <3>1, <3>3
    <3> QED
      BY <3>2, <3>3
  <2>6. ASSUME NEW j \in DOMAIN calls'
        PROVE  /\ calls'[j].arg.k \in DOMAIN poller'
               /\ poller'[calls'[j].arg.k].inFlight
               /\ calls'[j].arg.project = poller'[calls'[j].arg.k].project
    <3> DEFINE o == Old(i, j)
    <3>1. o \in DOMAIN calls \ {i} /\ calls'[j].arg = calls[o].arg
      BY <2>5
    <3> HIDE DEF o
    <3>2. /\ calls[o].arg.k \in DOMAIN poller
          /\ poller[calls[o].arg.k].inFlight
          /\ calls[o].arg.project = poller[calls[o].arg.k].project
          /\ calls[o].arg.k # calls[i].arg.k
      BY <1>1, <3>1 DEF PollsOwned
    <3> QED
      BY <1>6, <1>8, <3>1, <3>2
  <2>7. ASSUME NEW j \in DOMAIN calls', NEW l \in DOMAIN calls',
               calls'[j].arg.k = calls'[l].arg.k
        PROVE  j = l
    <3>1. Old(i, j) = Old(i, l)
      BY <1>1, <2>5, <2>7 DEF PollsOwned
    <3>2. j \in Nat /\ l \in Nat
      BY <2>1, <2>4
    <3> QED
      BY <3>1, <3>2, <2>1, OldOrdered
  <2> QED
    BY <2>3, <2>6, <2>7 DEF PollsOwned
<1>14. DashShows'
  <2>1. CASE poller[k].stopped
    <3>1. dash' = dash /\ (Polling => k # Current)
      BY <2>1, <1>9 DEF Polling
    <3>2. Polling => poller'[Current].inFlight = poller[Current].inFlight
      BY <3>1, <1>1, <1>8, DashFacts
    <3> QED
      BY <3>1, <3>2, <1>1, <1>2, <1>7, <1>11 DEF DashShows
  <2>2. CASE ~poller[k].stopped
    <3>1. k = Current /\ Polling
      BY <2>2, <1>1, <1>3, <1>4 DEF OneRuns, Polling
    <3>2. ~poller'[Current'].inFlight /\ ~dash'.loading
      BY <2>2, <3>1, <1>3, <1>7, <1>8, <1>9
    <3>3. calls[i].arg.project = dash.made.project
      BY <3>1, <1>1, <1>3 DEF OneRuns
    <3> QED
      BY <2>2, <3>2, <3>3, <1>2, <1>9 DEF DashShows
  <2> QED
    BY <2>1, <2>2
<1> QED
  BY <1>10, <1>12, <1>13, <1>14 DEF DashInv, DashLive

\* What happens on the dashboard.
LEMMA DashNextInv ==
  ASSUME DashInv, DashNext
  PROVE  DashInv'
<1>1. /\ ClientOK /\ DashOK /\ OneRuns /\ PollsOwned /\ DashShows
      /\ route = "dashboard"
  BY DEF DashInv, DashLive, DashNext
<1>2. dash \in Dashes /\ Current \in Nat /\ DOMAIN poller = 1 .. Current
      /\ \A l \in DOMAIN poller : poller[l] \in Controllers
  BY <1>1, DashFacts DEF DashOK
<1>3. CASE DashRender
  BY <1>1, <1>3, DashRenderInv
<1>4. CASE Interval
  <2> DEFINE c == [poller[Current] EXCEPT !.inFlight = TRUE]
  <2>1. /\ Polling /\ ~poller[Current].inFlight /\ dash' = Polls(dash)
        /\ poller' = [poller EXCEPT ![Current] = c]
        /\ calls' = Append(calls, Poll(Current, poller[Current].project))
        /\ dirty' = TRUE /\ UNCHANGED <<route, token, good, failures>>
    BY <1>4 DEF Interval
  <2>2. Current \in DOMAIN poller /\ poller[Current] \in Controllers
    BY <1>1, <1>2, <2>1, DashFacts
  <2>3. /\ c \in Controllers /\ c.inFlight
        /\ c.stopped = poller[Current].stopped
        /\ c.project = poller[Current].project /\ c.project \in Typed
    BY <2>2 DEF Controllers
  <2> HIDE DEF c
  <2>4. /\ poller' \in Seq(Controllers) /\ Len(poller') = Current
        /\ DOMAIN poller' = DOMAIN poller
        /\ \A l \in DOMAIN poller :
             poller'[l] = IF l = Current THEN c ELSE poller[l]
    BY <1>1, <2>1, <2>2, <2>3, ControllerSet
  <2>5. Current' = Current
    BY <2>4 DEF Current
  <2>6. /\ dash' \in Dashes /\ dash'.made = dash.made /\ dash'.loading
        /\ dash'.metrics = dash.metrics
    BY <1>2, <2>1 DEF Polls, Dashes
  <2>7. DashOK' /\ ClientOK'
    BY <1>1, <2>1, <2>4, <2>6 DEF DashOK, ClientOK
  <2>8. Polling' /\ poller'[Current'].inFlight
    BY <2>1, <2>2, <2>3, <2>4, <2>5 DEF Polling
  <2>9. \A l \in DOMAIN poller : /\ poller[l].inFlight => poller'[l].inFlight
                                 /\ poller'[l].project = poller[l].project
                                 /\ poller'[l].stopped = poller[l].stopped
    BY <2>3, <2>4
  <2>10. OneRuns'
    BY <1>1, <2>1, <2>2, <2>4, <2>5, <2>6, <2>9 DEF OneRuns
  <2>11. PollsOwned'
    <3>1. Current \in DOMAIN poller' /\ DOMAIN poller' \subseteq Nat
      BY <1>2, <2>2, <2>4
    <3>2. /\ poller'[Current].inFlight
          /\ poller'[Current].project = poller[Current].project
          /\ poller[Current].project \in Typed
      BY <2>2, <2>3, <2>4
    <3> QED
      BY <1>1, <2>1, <2>4, <2>9, <3>1, <3>2, PollAdded
  <2>12. DashShows'
    BY <1>1, <2>1, <2>6, <2>8 DEF DashShows
  <2> QED
    BY <2>7, <2>10, <2>11, <2>12 DEF DashInv, DashLive
<1>5. CASE \E p \in Typed : TypeProject(p)
  <2>1. PICK p \in Typed : TypeProject(p)
    BY <1>5
  <2>2. /\ dash' = [dash EXCEPT !.project = p, !.keys = @ + 1]
        /\ dash.keys < Keystrokes /\ dirty' = TRUE
        /\ UNCHANGED <<route, token, good, failures, calls, poller>>
    BY <2>1 DEF TypeProject
  <2>3. /\ dash' \in Dashes /\ dash'.made = dash.made
        /\ dash'.loading = dash.loading /\ dash'.metrics = dash.metrics
    <3>1. dash.keys + 1 \in 0 .. Keystrokes
      BY <1>2, <2>2, KeystrokesAssumption DEF Dashes
    <3> QED
      BY <1>2, <2>2, <3>1 DEF Dashes
  <2> QED
    BY <1>1, <2>2, <2>3 DEF DashInv, DashLive, ClientOK, DashOK, OneRuns, PollsOwned,
                            DashShows, Polling, Current
<1>6. CASE \E i \in DOMAIN calls : TakeMetrics(i) \/ PollFails(i) \/ PollAborts(i)
  <2>1. PICK i \in DOMAIN calls : TakeMetrics(i) \/ PollFails(i) \/ PollAborts(i)
    BY <1>6
  <2> DEFINE p == calls[i].arg.project
  <2>2. p \in Typed
    <3>1. calls \in Seq(PollCalls) /\ DOMAIN calls = 1 .. Len(calls)
      BY <1>1, LenProperties DEF PollsOwned
    <3>2. calls[i] \in PollCalls
      BY <3>1, ElementOfSeq
    <3> QED
      BY <3>2 DEF PollCalls
  <2>3. CASE TakeMetrics(i)
    <3> DEFINE d == ListProjectMetrics(p)
    <3>1. PollEnds(i, d) /\ UNCHANGED failures
      BY <2>3 DEF TakeMetrics, Read
    <3>2. ClientOK'
      BY <1>1, <3>1 DEF PollEnds, ClientOK
    <3>3. d \in Dashes /\ d.made = dash.made /\ d.metrics \in {dash.metrics, p}
      <4>1. CASE p \in Known
        BY <4>1, <1>2 DEF ListProjectMetrics, Dashes
      <4>2. CASE p \notin Known
        BY <4>2, <1>2 DEF ListProjectMetrics, Dashes
      <4> QED
        BY <4>1, <4>2
    <3>4. d.metrics \in {NoMetrics, dash.made.project, calls[i].arg.project}
      BY <1>1, <3>3 DEF DashShows
    <3> HIDE DEF d
    <3> QED
      BY <1>1, <3>1, <3>2, <3>3, <3>4, PollEndsInv
  <2>4. CASE PollFails(i)
    <3> DEFINE d == [dash EXCEPT !.error = TRUE]
    <3>1. PollEnds(i, d) /\ failures < MaxFailures /\ failures' = failures + 1
      BY <2>4 DEF PollFails, Fails
    <3>2. ClientOK'
      BY <1>1, <3>1, ClientAssumption DEF PollEnds, ClientOK
    <3>3. d \in Dashes /\ d.made = dash.made /\ d.metrics = dash.metrics
      BY <1>2 DEF Dashes
    <3>4. d.metrics \in {NoMetrics, dash.made.project, calls[i].arg.project}
      BY <1>1, <3>3 DEF DashShows
    <3> HIDE DEF d
    <3> QED
      BY <1>1, <3>1, <3>2, <3>3, <3>4, PollEndsInv
  <2>5. CASE PollAborts(i)
    <3>1. PollEnds(i, dash) /\ UNCHANGED failures
      BY <2>5 DEF PollAborts
    <3>2. ClientOK'
      BY <1>1, <3>1 DEF PollEnds, ClientOK
    <3>3. dash.metrics \in {NoMetrics, dash.made.project, calls[i].arg.project}
      BY <1>1 DEF DashShows
    <3> QED
      BY <1>1, <1>2, <3>1, <3>2, <3>3, PollEndsInv
  <2> QED
    BY <2>1, <2>3, <2>4, <2>5
<1>7. CASE TokenExpires /\ UNCHANGED dashVars
  <2>1. /\ good < MaxToken /\ good' = good + 1
        /\ UNCHANGED <<route, calls, token, dirty, failures, dash, poller>>
    BY <1>7 DEF TokenExpires, dashVars
  <2>2. ClientOK'
    BY <1>1, <2>1, ClientAssumption DEF ClientOK
  <2> QED
    BY <1>1, <2>1, <2>2 DEF DashInv, DashLive, DashOK, OneRuns, PollsOwned, DashShows,
                            Polling, Current, Deps
<1>8. CASE Retries /\ UNCHANGED dashVars
  <2>1. PICK i \in DOMAIN calls : Retry(i)
    BY <1>8 DEF Retries
  <2> DEFINE c == [calls[i] EXCEPT !.token = good]
  <2>2. /\ token' = good /\ dirty' = TRUE /\ calls' = [calls EXCEPT ![i] = c]
        /\ UNCHANGED <<route, good, failures, dash, poller>>
    BY <1>8, <2>1 DEF Retry, dashVars
  <2>3. calls \in Seq(PollCalls) /\ DOMAIN calls = 1 .. Len(calls)
    BY <1>1, LenProperties DEF PollsOwned
  <2>4. calls[i] \in PollCalls /\ good \in 0 .. MaxToken /\ good \in good .. MaxToken
    BY <1>1, <2>3, ElementOfSeq, ClientAssumption DEF ClientOK
  <2>5. c \in PollCalls /\ c.arg = calls[i].arg
    BY <2>4 DEF PollCalls
  <2> HIDE DEF c
  <2>6. /\ calls' \in Seq(PollCalls) /\ DOMAIN calls' = DOMAIN calls
        /\ \A j \in DOMAIN calls : calls'[j].arg = calls[j].arg
    BY <2>2, <2>3, <2>5, ExceptSeq, LenProperties
  <2>7. ClientOK'
    BY <1>1, <2>2, <2>4 DEF ClientOK
  <2> QED
    BY <1>1, <2>2, <2>6, <2>7 DEF DashInv, DashLive, DashOK, OneRuns, PollsOwned,
                                  DashShows, Polling, Current
<1> QED
  BY <1>3, <1>4, <1>5, <1>6, <1>7, <1>8 DEF DashNext

-----------------------------------------------------------------------------
(* The services tab and the domains tab.                                   *)

TabStates ==
  [shown : [Rows -> States], listed : BOOLEAN, error : BOOLEAN, loading : BOOLEAN,
   active : Rows \cup {NoRow}, creating : BOOLEAN, services : BOOLEAN,
   seen : {-1} \cup 0 .. MaxToken, gap : BOOLEAN, acts : 0 .. TabActs]

\* What a list is loaded after.
Afters == {"none", "row", "form"}
RowsCalls ==
  [op : {"rows"}, arg : [after : Afters], token : 0 .. MaxToken,
   res : {Waiting} \cup { Ok(v) : v \in [Rows -> States] }, late : BOOLEAN]
FormCalls ==
  [op : {"form"}, arg : [after : Afters], token : 0 .. MaxToken, res : {Waiting},
   late : BOOLEAN]
ActCalls ==
  [op : {"act"}, arg : [by : {"row", "form"}, row : Rows, to : States],
   token : 0 .. MaxToken, res : {Waiting, [st |-> "read"], Ok(TRUE)}, late : BOOLEAN]
TabCalls == RowsCalls \cup FormCalls \cup ActCalls

TabOK == tab \in TabStates /\ table \in [Rows -> States] /\ calls \in Seq(TabCalls)

\* What the reader did is under way, or the list that is loaded after it.
BusyBy(c, by) == \/ c.op = "act" /\ c.arg.by = by
                 \/ c.op = "rows" /\ c.arg.after = by
Busy(cs, by) == \E i \in DOMAIN cs : BusyBy(cs[i], by)
NoAct(cs) == \A i \in DOMAIN cs : cs[i].op # "act"

\* What the last list asked for may have come to: its answer is the table.
Real == {Waiting, Ok(table)}

\* A busy row, a busy form and a list that loads each have a request.
TabBusy ==
  /\ tab.active # NoRow => Busy(calls, "row")
  /\ tab.creating => Busy(calls, "form")
  /\ tab.loading => Listing(calls, "rows")

\* While no action is under way and no error is shown, the rows are on their way.
TabShows ==
  /\ tab.seen = -1 => dirty
  /\ LateFirst(calls, "rows")
  /\ ~tab.error /\ tab.seen # -1 /\ NoAct(calls) =>
       /\ Fresh(calls, "rows", Real)
       /\ AllLate(calls, "rows") => tab.gap \/ tab.shown = table

TabInv ==
  route \in {"services", "domains"} => ClientOK /\ TabOK /\ TabBusy /\ TabShows

\* At rest there is no request, so that nothing is busy and the rows are shown.
LEMMA TabAtRestReal == ASSUME TabInv PROVE RowsAreReal
<1> SUFFICES ASSUME route \in {"services", "domains"}, calls = <<>>, ~dirty
             PROVE  /\ tab.active = NoRow /\ ~tab.creating /\ ~tab.loading
                    /\ ~tab.error /\ ~tab.gap => tab.shown = table
  BY DEF RowsAreReal, TabAtRest
<1>1. TabBusy /\ TabShows
  BY DEF TabInv
<1>2. DOMAIN calls = {}
  OBVIOUS
<1>3. ~Busy(calls, "row") /\ ~Busy(calls, "form") /\ ~Listing(calls, "rows")
  BY <1>2 DEF Busy, Listing
<1>4. NoAct(calls) /\ AllLate(calls, "rows")
  BY <1>2 DEF NoAct, AllLate
<1> QED
  BY <1>1, <1>3, <1>4 DEF TabBusy, TabShows

\* The requests of the tabs, by what they are.
LEMMA TabCallFacts ==
  ASSUME NEW c \in TabCalls
  PROVE  /\ c.op \in {"rows", "form", "act"} /\ c.late \in BOOLEAN
         /\ c.op = "rows" => c \in RowsCalls
         /\ c.op = "form" => c \in FormCalls
         /\ c.op = "act" => c \in ActCalls
BY DEF TabCalls, RowsCalls, FormCalls, ActCalls

\* A request of a runtime tab is one when it is late as well.
LEMMA TabHoldsLate == HoldsLate(TabCalls)
<1>1. ASSUME NEW c \in RowsCalls
      PROVE  LateOf(c) \in RowsCalls /\ SameCall(LateOf(c), c) /\ LateOf(c).late
  BY DEF RowsCalls, LateOf, SameCall
<1>2. ASSUME NEW c \in FormCalls
      PROVE  LateOf(c) \in FormCalls /\ SameCall(LateOf(c), c) /\ LateOf(c).late
  BY DEF FormCalls, LateOf, SameCall
<1>3. ASSUME NEW c \in ActCalls
      PROVE  LateOf(c) \in ActCalls /\ SameCall(LateOf(c), c) /\ LateOf(c).late
  BY DEF ActCalls, LateOf, SameCall
<1> QED
  BY <1>1, <1>2, <1>3 DEF TabCalls, HoldsLate

\* A request is made.
LEMMA TabAdded ==
  ASSUME NEW cs \in Seq(TabCalls), NEW c \in TabCalls
  PROVE  /\ Append(cs, c) \in Seq(TabCalls)
         /\ \A by : Busy(cs, by) => Busy(Append(cs, c), by)
         /\ \A by : BusyBy(c, by) => Busy(Append(cs, c), by)
         /\ NoAct(Append(cs, c)) <=> NoAct(cs) /\ c.op # "act"
<1> DEFINE d == Append(cs, c)
           n == Len(cs) + 1
<1>1. /\ d \in Seq(TabCalls)
      /\ \A j \in DOMAIN cs : j \in DOMAIN d /\ d[j] = cs[j]
      /\ n \in DOMAIN d /\ d[n] = c
      /\ \A j \in DOMAIN d : j \in DOMAIN cs \/ j = n
  BY CallAdded
<1> HIDE DEF d, n
<1> QED
  BY <1>1 DEF Busy, NoAct, d

\* A request is taken out: its answer was taken.
LEMMA TabRemoved ==
  ASSUME calls \in Seq(TabCalls), NEW i \in DOMAIN calls
  PROVE  /\ Without(i) \in Seq(TabCalls)
         /\ \A by : Busy(calls, by) /\ ~BusyBy(calls[i], by) => Busy(Without(i), by)
         /\ NoAct(Without(i)) /\ calls[i].op # "act" => NoAct(calls)
<1> DEFINE w == Without(i)
<1>1. w \in Seq(TabCalls) /\ AllBut(i, w)
  BY WithoutAllBut, TabHoldsLate
<1> HIDE DEF w
<1>2. /\ \A j \in DOMAIN w : /\ w[j].op = calls[Old(i, j)].op
                             /\ w[j].arg = calls[Old(i, j)].arg
      /\ \A j \in DOMAIN calls : j # i => \E k \in DOMAIN w : Old(i, k) = j
  BY <1>1 DEF AllBut, SameCall
<1>3. ASSUME NEW by, Busy(calls, by), ~BusyBy(calls[i], by)
      PROVE  Busy(w, by)
  <2>1. PICK j \in DOMAIN calls : j # i /\ BusyBy(calls[j], by)
    BY <1>3 DEF Busy
  <2>2. PICK k \in DOMAIN w : Old(i, k) = j
    BY <1>2, <2>1
  <2>3. w[k].op = calls[j].op /\ w[k].arg = calls[j].arg
    BY <1>2, <2>2
  <2> QED
    BY <2>1, <2>3 DEF Busy, BusyBy
<1>4. ASSUME NoAct(w), calls[i].op # "act"  PROVE NoAct(calls)
  BY <1>2, <1>4 DEF NoAct
<1> QED
  BY <1>1, <1>3, <1>4 DEF w

\* A request goes on at the API, or is sent again.
LEMMA TabServed ==
  ASSUME calls \in Seq(TabCalls), NEW i \in DOMAIN calls, NEW c \in TabCalls,
         c.op = calls[i].op, c.arg = calls[i].arg
  PROVE  /\ [calls EXCEPT ![i] = c] \in Seq(TabCalls)
         /\ \A by : Busy(calls, by) => Busy([calls EXCEPT ![i] = c], by)
         /\ NoAct([calls EXCEPT ![i] = c]) <=> NoAct(calls)
<1> DEFINE d == [calls EXCEPT ![i] = c]
<1>1. /\ d \in Seq(TabCalls) /\ DOMAIN d = DOMAIN calls
      /\ \A j \in DOMAIN calls : d[j] = IF j = i THEN c ELSE calls[j]
  BY CallSet
<1> HIDE DEF d
<1>2. \A j \in DOMAIN calls : d[j].op = calls[j].op /\ d[j].arg = calls[j].arg
  BY <1>1
<1> QED
  BY <1>1, <1>2 DEF Busy, BusyBy, NoAct, d

\* The page's own lists: what the effect asks for.
LEMMA ListCallProperties ==
  ASSUME ClientOK, route \in {"services", "domains"}, NEW after \in Afters
  PROVE  /\ ListCall(after) \in TabCalls /\ ListCall(after).op = "rows"
         /\ ListCall(after).res = Waiting /\ ~ListCall(after).late
         /\ BusyBy(ListCall(after), after)
         /\ route = "domains" =>
              /\ ListProjectServices(after) \in TabCalls
              /\ ListProjectServices(after).op = "form"
              /\ ~ListProjectServices(after).late
<1>1. ASSUME NEW op \in {"rows", "form"}
      PROVE  /\ Call(op, [after |-> after]) \in TabCalls
             /\ Call(op, [after |-> after]).op = op
             /\ Call(op, [after |-> after]).arg.after = after
             /\ Call(op, [after |-> after]).res = Waiting
             /\ ~Call(op, [after |-> after]).late
  <2> DEFINE c == Call(op, [after |-> after])
  <2>1. /\ c = [op |-> op, arg |-> [after |-> after], token |-> token,
                res |-> Waiting, late |-> FALSE]
        /\ token \in 0 .. MaxToken
    BY DEF Call, ClientOK
  <2> HIDE DEF c
  <2>2. [after |-> after] \in [after : Afters]
    OBVIOUS
  <2>3. CASE op = "rows"
    <3>1. c \in RowsCalls
      BY <2>1, <2>2, <2>3 DEF RowsCalls
    <3> QED
      BY <2>1, <3>1 DEF TabCalls, c
  <2>4. CASE op = "form"
    <3>1. c \in FormCalls
      BY <2>1, <2>2, <2>4 DEF FormCalls
    <3> QED
      BY <2>1, <3>1 DEF TabCalls, c
  <2> QED
    BY <2>3, <2>4
<1>2. ListCall(after) = Call("rows", [after |-> after])
  BY DEF ListCall, ListProjectServices, ListDomains
<1>3. route = "domains" => ListProjectServices(after) = Call("form", [after |-> after])
  BY DEF ListProjectServices
<1> QED
  BY <1>1, <1>2, <1>3 DEF BusyBy

\* A render asks for the lists when the session is not the one they are of.
LEMMA TabRenderInv ==
  ASSUME TabInv, route \in {"services", "domains"}, TabRender
  PROVE  TabInv'
<1>1. ClientOK /\ TabOK /\ TabBusy /\ TabShows
  BY DEF TabInv
<1>2. /\ tab \in TabStates /\ table \in [Rows -> States] /\ calls \in Seq(TabCalls)
      /\ UNCHANGED <<route, token, good, failures, table>>
  BY <1>1 DEF TabOK, TabRender
<1>3. ClientOK' /\ token \in 0 .. MaxToken
  BY <1>1, <1>2 DEF ClientOK
<1>4. CASE tab.seen = token
  <2>1. UNCHANGED <<tab, calls>>
    BY <1>4 DEF TabRender
  <2>2. tab.seen # -1
    BY <1>3, <1>4, ClientAssumption
  <2> QED
    BY <1>1, <1>2, <1>3, <2>1, <2>2 DEF TabInv, TabOK, TabBusy, TabShows, Real
<1>5. CASE tab.seen # token
  <2> DEFINE c == ListCall("none")
             d == ListProjectServices("none")
             one == Append(calls, c)
  <2>1. /\ tab' = [ListingRows(tab) EXCEPT !.seen = token]
        /\ calls' = calls \o <<c>> \o (IF route = "domains" THEN <<d>> ELSE <<>>)
        /\ dirty' = TRUE
    BY <1>5 DEF TabRender
  <2>2. /\ c \in TabCalls /\ c.op = "rows" /\ c.res = Waiting /\ ~c.late
        /\ route = "domains" => d \in TabCalls /\ d.op = "form" /\ ~d.late
    BY <1>1, ListCallProperties DEF Afters
  <2> HIDE DEF c, d
  <2>3. /\ one \in Seq(TabCalls) /\ one = calls \o <<c>>
        /\ \A by : Busy(calls, by) => Busy(one, by)
    BY <1>2, <2>2, TabAdded, AppendIsConcat
  <2>8. /\ Listing(one, "rows") /\ ~AllLate(one, "rows")
        /\ LateFirst(calls, "rows") => LateFirst(one, "rows")
        /\ Fresh(one, "rows", Real)
    BY <1>2, <2>2, ListAdded DEF Real
  <2> HIDE DEF one
  <2>4. /\ calls' \in Seq(TabCalls)
        /\ \A by : Busy(calls, by) => Busy(calls', by)
        /\ Listing(calls', "rows") /\ ~AllLate(calls', "rows")
        /\ LateFirst(calls, "rows") => LateFirst(calls', "rows")
        /\ Fresh(calls', "rows", Real)
    <3>1. CASE route = "domains"
      <4>1. calls' = Append(one, d) /\ d \in TabCalls /\ d.op = "form" /\ ~d.late
        BY <2>1, <2>2, <2>3, <3>1, AppendIsConcat
      <4> QED
        BY <2>3, <2>8, <4>1, TabAdded, ListAdded
    <3>2. CASE route # "domains"
      <4>1. calls' = one
        BY <2>1, <2>3, <3>2, ConcatEmptySeq
      <4> QED
        BY <2>3, <2>8, <4>1
    <3> QED
      BY <3>1, <3>2
  <2>5. /\ tab' \in TabStates /\ tab'.seen = token
        /\ tab'.active = tab.active /\ tab'.creating = tab.creating
    BY <1>2, <1>3, <2>1 DEF TabStates, ListingRows
  <2>6. TabBusy'
    BY <1>1, <2>4, <2>5 DEF TabBusy
  <2>7. TabShows'
    BY <1>1, <1>2, <2>1, <2>4 DEF TabShows, Real
  <2> QED
    BY <1>2, <1>3, <2>4, <2>5, <2>6, <2>7 DEF TabInv, TabOK
<1> QED
  BY <1>4, <1>5

\* What the reader starts is busy until it has ended.
LEMMA TabStartInv ==
  ASSUME TabInv, route \in {"services", "domains"},
         NEW by \in {"row", "form"}, NEW row \in Rows, NEW to \in States,
         Start(Call("act", [by |-> by, row |-> row, to |-> to]))
  PROVE  TabInv'
<1> DEFINE c == Call("act", [by |-> by, row |-> row, to |-> to])
<1>1. /\ ClientOK /\ TabOK /\ TabBusy /\ TabShows
      /\ tab \in TabStates /\ calls \in Seq(TabCalls)
  BY DEF TabInv, TabOK
<1>2. /\ c \in ActCalls /\ c.op = "act" /\ c.arg.by = by /\ c.arg.row = row /\ ~c.late
  <2>1. c = [op |-> "act", arg |-> [by |-> by, row |-> row, to |-> to],
             token |-> token, res |-> Waiting, late |-> FALSE]
        /\ token \in 0 .. MaxToken
    BY <1>1 DEF Call, ClientOK
  <2>2. [by |-> by, row |-> row, to |-> to]
          \in [by : {"row", "form"}, row : Rows, to : States]
    OBVIOUS
  <2> HIDE DEF c
  <2> QED
    BY <2>1, <2>2 DEF ActCalls
<1>3. /\ ~dirty /\ tab.acts < TabActs
      /\ tab' = [tab EXCEPT !.acts = @ + 1, !.error = FALSE,
                            !.active = IF c.arg.by = "row" THEN c.arg.row ELSE @,
                            !.creating = @ \/ c.arg.by = "form"]
      /\ calls' = Append(calls, c) /\ dirty' = TRUE
      /\ UNCHANGED <<route, token, good, failures, table>>
  BY DEF Start
<1> HIDE DEF c
<1>4. /\ calls' \in Seq(TabCalls)
      /\ \A b : Busy(calls, b) \/ BusyBy(c, b) => Busy(calls', b)
      /\ ~NoAct(calls')
  BY <1>1, <1>2, <1>3, TabAdded DEF TabCalls
<1>9. /\ Listing(calls, "rows") => Listing(calls', "rows")
      /\ LateFirst(calls, "rows") => LateFirst(calls', "rows")
  <2>1. c \in TabCalls
    BY <1>2 DEF TabCalls
  <2> QED
    BY <1>1, <1>2, <1>3, <2>1, ListAdded
<1>5. BusyBy(c, by)
  BY <1>2 DEF BusyBy
<1>6. /\ tab' \in TabStates /\ tab'.seen = tab.seen
      /\ tab'.loading = tab.loading
      /\ by = "form" => tab'.active = tab.active
      /\ by = "row" => tab'.creating = tab.creating
  <2>1. tab.acts + 1 \in 0 .. TabActs
    BY <1>1, <1>3, TabActsAssumption DEF TabStates
  <2>2. (tab.creating \/ c.arg.by = "form") \in BOOLEAN
    OBVIOUS
  <2>3. tab.creating \in BOOLEAN
    BY <1>1 DEF TabStates
  <2>4. by = "row" => (tab.creating \/ c.arg.by = "form") = tab.creating
    BY <1>2, <2>3
  <2> QED
    BY <1>1, <1>2, <1>3, <2>1, <2>2, <2>4, ZenonT(40) DEF TabStates
<1>7. TabBusy'
  BY <1>1, <1>4, <1>5, <1>6, <1>9 DEF TabBusy
<1>8. TabShows'
  BY <1>1, <1>3, <1>4, <1>6, <1>9 DEF TabShows
<1> QED
  BY <1>1, <1>3, <1>4, <1>6, <1>7, <1>8 DEF TabInv, TabOK, ClientOK

\* The API does its part: the tab is as it was.
LEMMA TabApiInv ==
  ASSUME TabInv, route \in {"services", "domains"}, NEW i \in DOMAIN calls,
         NEW c \in TabCalls, calls' = [calls EXCEPT ![i] = c],
         c.op = calls[i].op, c.arg = calls[i].arg, c.late = calls[i].late,
         UNCHANGED <<route, tab>>, ClientOK', tab.seen = -1 /\ dirty => dirty',
         table' \in [Rows -> States],
         table' = table \/ c.op = "act",
         c.res = calls[i].res \/ c.res = Ok(table) \/ c.op = "act"
  PROVE  TabInv'
<1>1. /\ ClientOK /\ TabOK /\ TabBusy /\ TabShows
      /\ tab \in TabStates /\ calls \in Seq(TabCalls)
  BY DEF TabInv, TabOK
<1>2. /\ calls' \in Seq(TabCalls)
      /\ \A by : Busy(calls, by) => Busy(calls', by)
      /\ NoAct(calls') <=> NoAct(calls)
  BY <1>1, TabServed
<1>6. /\ Listing(calls, "rows") => Listing(calls', "rows")
      /\ LateFirst(calls, "rows") => LateFirst(calls', "rows")
      /\ AllLate(calls', "rows") <=> AllLate(calls, "rows")
      /\ Fresh(calls, "rows", Real) /\ (c.res = calls[i].res \/ c.res = Ok(table)) =>
           Fresh(calls', "rows", Real)
  <2>1. c.res = Ok(table) => c.res \in Real
    BY DEF Real
  <2> QED
    BY <1>1, <2>1, ListServed
<1>3. NoAct(calls) => c.op # "act"
  BY DEF NoAct
<1>4. TabBusy'
  BY <1>1, <1>2, <1>6 DEF TabBusy
<1>5. TabShows'
  <2>1. NoAct(calls) => Real' = Real
    BY <1>3 DEF Real
  <2> QED
    BY <1>1, <1>2, <1>3, <1>6, <2>1 DEF TabShows
<1> QED
  BY <1>1, <1>2, <1>4, <1>5 DEF TabInv, TabOK

\* The answer to a request is taken, and a list is asked for after it or not.
LEMMA TabTakesInv ==
  ASSUME TabInv, route \in {"services", "domains"}, NEW i \in DOMAIN calls,
         NEW t \in TabStates, TabTakes(i, t), ClientOK',
         t.seen = tab.seen,
         t.active # NoRow => t.active = tab.active /\ ~BusyBy(calls[i], "row"),
         t.creating => tab.creating /\ ~BusyBy(calls[i], "form"),
         t.loading => tab.loading /\ calls[i].op # "rows",
         calls' = Without(i),
         calls[i].op = "act" => t.error,
         tab.error => t.error,
         calls[i].op = "rows" =>
           \/ t.error
           \/ /\ t.gap = calls[i].late
              /\ calls[i].res # Waiting /\ calls[i].res = Ok(t.shown),
         calls[i].op = "form" => t.gap = tab.gap /\ t.shown = tab.shown
  PROVE  TabInv'
<1>1. /\ ClientOK /\ TabOK /\ TabBusy /\ TabShows
      /\ tab \in TabStates /\ calls \in Seq(TabCalls)
  BY DEF TabInv, TabOK
<1>2. /\ tab' = t /\ dirty' = TRUE /\ UNCHANGED <<route, token, good, table>>
  BY DEF TabTakes
<1>3. /\ calls' \in Seq(TabCalls)
      /\ \A by : Busy(calls, by) /\ ~BusyBy(calls[i], by) => Busy(calls', by)
      /\ NoAct(calls') /\ calls[i].op # "act" => NoAct(calls)
  BY <1>1, TabRemoved
<1>6. /\ Listing(calls, "rows") /\ calls[i].op # "rows" => Listing(calls', "rows")
      /\ LateFirst(calls, "rows") => LateFirst(calls', "rows")
      /\ Fresh(calls, "rows", Real) => Fresh(calls', "rows", Real)
      /\ AllLate(calls', "rows") /\ calls[i].op # "rows" => AllLate(calls, "rows")
      /\ AllLate(calls', "rows") /\ LateFirst(calls, "rows") /\ calls[i].op = "rows" =>
           calls[i].late \/ IsNewest(calls, "rows", i)
  BY <1>1, TabHoldsLate, ListRemoved
<1>4. TabBusy'
  BY <1>1, <1>2, <1>3, <1>6 DEF TabBusy
<1>5. TabShows'
  <2> SUFFICES ASSUME ~t.error, t.seen # -1, NoAct(calls')
               PROVE  /\ Fresh(calls', "rows", Real)
                      /\ AllLate(calls', "rows") => t.gap \/ t.shown = table
    BY <1>1, <1>2, <1>6 DEF TabShows, Real
  <2>1. /\ calls[i].op \in {"rows", "form"} /\ NoAct(calls)
        /\ Fresh(calls, "rows", Real)
        /\ AllLate(calls, "rows") => tab.gap \/ tab.shown = table
    <3>1. calls[i] \in TabCalls
      BY <1>1, LenProperties, ElementOfSeq
    <3>2. calls[i].op \in {"rows", "form"}
      BY <3>1, TabCallFacts
    <3> QED
      BY <1>1, <1>3, <3>2 DEF TabShows
  <2>2. Fresh(calls', "rows", Real)
    BY <1>6, <2>1
  <2>3. ASSUME AllLate(calls', "rows"), calls[i].op = "rows", ~t.gap
        PROVE  t.shown = table
    <3>1. /\ calls[i].res # Waiting /\ calls[i].res = Ok(t.shown)
          /\ ~calls[i].late
      BY <2>3
    <3>2. IsNewest(calls, "rows", i)
      BY <1>1, <1>6, <2>3, <3>1 DEF TabShows
    <3>3. Ok(t.shown) = Ok(table)
      BY <2>1, <3>1, <3>2 DEF Fresh, Real
    <3> QED
      BY <3>3 DEF Ok
  <2> QED
    BY <1>6, <2>1, <2>2, <2>3
<1> QED
  BY <1>1, <1>2, <1>3, <1>4, <1>5 DEF TabInv, TabOK

\* An action has ended well: the rows are listed again.
LEMMA TabListsAgain ==
  ASSUME TabInv, route \in {"services", "domains"}, NEW i \in DOMAIN calls,
         calls[i].op = "act", TabTakes(i, ListingRows(tab)), ClientOK',
         calls' = Append(Without(i), ListCall(calls[i].arg.by))
  PROVE  TabInv'
<1> DEFINE c == ListCall(calls[i].arg.by)
           w == Without(i)
<1>1. /\ ClientOK /\ TabOK /\ TabBusy /\ TabShows
      /\ tab \in TabStates /\ calls \in Seq(TabCalls)
  BY DEF TabInv, TabOK
<1>2. /\ tab' = ListingRows(tab) /\ dirty' = TRUE
      /\ UNCHANGED <<route, token, good, table>>
  BY DEF TabTakes
<1>3. calls[i].arg.by \in Afters
  <2>1. calls[i] \in ActCalls
    BY <1>1, LenProperties, ElementOfSeq, TabCallFacts
  <2> QED
    BY <2>1 DEF ActCalls, Afters
<1>4. /\ c \in TabCalls /\ c.op = "rows" /\ c.res = Waiting /\ ~c.late
      /\ BusyBy(c, calls[i].arg.by)
  BY <1>1, <1>3, ListCallProperties
<1>5. /\ w \in Seq(TabCalls)
      /\ \A by : Busy(calls, by) /\ ~BusyBy(calls[i], by) => Busy(w, by)
      /\ LateFirst(calls, "rows") => LateFirst(w, "rows")
  BY <1>1, TabRemoved, TabHoldsLate, ListRemoved
<1>6. calls' = Append(w, c)
  OBVIOUS
<1> HIDE DEF c, w
<1>7. /\ calls' \in Seq(TabCalls)
      /\ \A by : Busy(w, by) => Busy(calls', by)
      /\ \A by : BusyBy(c, by) => Busy(calls', by)
  BY <1>4, <1>5, <1>6, TabAdded
<1>12. /\ Listing(calls', "rows") /\ ~AllLate(calls', "rows")
       /\ LateFirst(w, "rows") => LateFirst(calls', "rows")
       /\ Fresh(calls', "rows", Real)
  <2>1. c \in TabCalls /\ c.op = "rows" /\ ~c.late /\ c.res \in Real
    BY <1>4 DEF Real
  <2> QED
    BY <1>5, <1>6, <2>1, ListAdded
<1>8. \A by : Busy(calls, by) => Busy(calls', by)
  <2>1. \A by : BusyBy(calls[i], by) => by = calls[i].arg.by
    BY DEF BusyBy
  <2> QED
    BY <1>4, <1>5, <1>7, <2>1
<1>9. /\ tab' \in TabStates /\ tab'.seen = tab.seen
      /\ tab'.active = tab.active /\ tab'.creating = tab.creating
  BY <1>1, <1>2 DEF TabStates, ListingRows
<1>10. TabBusy'
  BY <1>1, <1>8, <1>9, <1>12 DEF TabBusy
<1>11. TabShows'
  BY <1>1, <1>2, <1>5, <1>9, <1>12 DEF TabShows, Real
<1> QED
  BY <1>1, <1>2, <1>7, <1>9, <1>10, <1>11 DEF TabInv, TabOK

\* What is done when a request ends, whoever waited for it.
LEMMA TabEndedProperties ==
  ASSUME tab \in TabStates, NEW by
  PROVE  /\ TabEnded(tab, by) \in TabStates
         /\ TabEnded(tab, by).seen = tab.seen
         /\ TabEnded(tab, by).error = tab.error
         /\ TabEnded(tab, by).loading = tab.loading
         /\ TabEnded(tab, by).active # NoRow =>
              TabEnded(tab, by).active = tab.active /\ by # "row"
         /\ TabEnded(tab, by).creating => tab.creating /\ by # "form"
<1>1. tab.creating \in BOOLEAN
  BY DEF TabStates
<1>2. (tab.creating /\ by # "form") \in BOOLEAN
  OBVIOUS
<1> DEFINE active == IF by = "row" THEN NoRow ELSE tab.active
           creating == tab.creating /\ by # "form"
<1>3. TabEnded(tab, by) = [tab EXCEPT !.active = active, !.creating = creating]
  BY DEF TabEnded
<1>4. /\ active \in Rows \cup {NoRow} /\ creating \in BOOLEAN
      /\ active # NoRow => active = tab.active /\ by # "row"
      /\ creating => tab.creating /\ by # "form"
  BY <1>2 DEF TabStates
<1> HIDE DEF active, creating
<1> QED
  BY <1>3, <1>4 DEF TabStates

\* The rows are taken, or their error.
LEMMA TakeRowsInv ==
  ASSUME TabInv, route \in {"services", "domains"}, NEW i \in DOMAIN calls, TakeRows(i)
  PROVE  TabInv'
<1> DEFINE by == calls[i].arg.after
           ended == [TabEnded(tab, by) EXCEPT !.loading = FALSE]
           read == [ended EXCEPT !.shown = calls[i].res.value, !.listed = TRUE,
                                 !.gap = calls[i].late]
           failed == [ended EXCEPT !.error = TRUE]
<1>1. /\ ClientOK /\ tab \in TabStates /\ calls \in Seq(TabCalls)
  BY DEF TabInv, TabOK
<1>2. calls[i].op = "rows" /\ calls' = Without(i)
  BY DEF TakeRows, Ready, Fails
<1>3. calls[i] \in RowsCalls
  BY <1>1, <1>2, LenProperties, ElementOfSeq, TabCallFacts
<1>4. ~BusyBy(calls[i], "row") <=> by # "row"
  BY <1>2 DEF BusyBy
<1>5. ~BusyBy(calls[i], "form") <=> by # "form"
  BY <1>2 DEF BusyBy
<1>6. /\ ended \in TabStates /\ ended.seen = tab.seen /\ ended.error = tab.error
      /\ ~ended.loading
      /\ ended.active # NoRow => ended.active = tab.active /\ by # "row"
      /\ ended.creating => tab.creating /\ by # "form"
  <2> DEFINE e == TabEnded(tab, by)
  <2>1. /\ e \in TabStates /\ e.seen = tab.seen /\ e.error = tab.error
        /\ e.active # NoRow => e.active = tab.active /\ by # "row"
        /\ e.creating => tab.creating /\ by # "form"
    BY <1>1, TabEndedProperties
  <2>2. ended = [e EXCEPT !.loading = FALSE]
    OBVIOUS
  <2> HIDE DEF e, ended
  <2> QED
    BY <2>1, <2>2 DEF TabStates
<1>7. /\ \/ Ready(i, "rows") /\ TabTakes(i, read)
         \/ Fails(i, "rows") /\ TabTakes(i, failed)
  BY DEF TakeRows
<1> HIDE DEF ended
<1>8. CASE Ready(i, "rows") /\ TabTakes(i, read)
  <2>1. /\ calls[i].res.st = "ok" /\ UNCHANGED <<failures, token, good>>
    BY <1>8 DEF Ready, TabTakes
  <2>2. /\ calls[i].res # Waiting /\ calls[i].res = Ok(calls[i].res.value)
        /\ calls[i].res.value \in [Rows -> States]
    BY <1>3, <2>1 DEF RowsCalls, Ok, Waiting
  <2>3. /\ read \in TabStates /\ read.seen = tab.seen /\ read.error = tab.error
        /\ ~read.loading /\ read.active = ended.active
        /\ read.creating = ended.creating
        /\ read.shown = calls[i].res.value /\ read.gap = calls[i].late
    BY <1>3, <1>6, <2>2 DEF TabStates, RowsCalls
  <2>4. ClientOK'
    BY <1>1, <2>1 DEF ClientOK
  <2> HIDE DEF read, by
  <2> QED
    BY <1>2, <1>4, <1>5, <1>6, <1>8, <2>2, <2>3, <2>4, TabTakesInv
<1>9. CASE Fails(i, "rows") /\ TabTakes(i, failed)
  <2>1. ClientOK'
    BY <1>1, <1>9, ClientAssumption DEF ClientOK, Fails, TabTakes
  <2>2. /\ failed \in TabStates /\ failed.seen = tab.seen /\ failed.error
        /\ ~failed.loading /\ failed.active = ended.active
        /\ failed.creating = ended.creating
    BY <1>6 DEF TabStates
  <2> HIDE DEF failed, by
  <2> QED
    BY <1>2, <1>4, <1>5, <1>6, <1>9, <2>1, <2>2, TabTakesInv
<1> QED
  BY <1>7, <1>8, <1>9

\* What the form chooses from is taken, or its error.
LEMMA TakeFormInv ==
  ASSUME TabInv, route \in {"services", "domains"}, NEW i \in DOMAIN calls, TakeForm(i)
  PROVE  TabInv'
<1>1. /\ ClientOK /\ tab \in TabStates /\ calls \in Seq(TabCalls)
  BY DEF TabInv, TabOK
<1>2. /\ calls[i].op = "form" /\ calls' = Without(i)
      /\ ~BusyBy(calls[i], "row") /\ ~BusyBy(calls[i], "form")
  BY DEF TakeForm, Read, Served, Fails, BusyBy
<1>3. PICK b \in BOOLEAN : TabTakes(i, [tab EXCEPT !.services = b])
  BY DEF TakeForm
<1>4. ClientOK'
  <2>1. \/ UNCHANGED failures
        \/ failures < MaxFailures /\ failures' = failures + 1
    BY DEF TakeForm, Read, Fails
  <2> QED
    BY <1>1, <1>3, <2>1, ClientAssumption DEF ClientOK, TabTakes
<1> DEFINE t == [tab EXCEPT !.services = b]
<1>5. /\ t \in TabStates /\ t.seen = tab.seen /\ t.error = tab.error
      /\ t.active = tab.active /\ t.creating = tab.creating /\ t.gap = tab.gap
      /\ t.loading = tab.loading /\ t.shown = tab.shown
  BY <1>1 DEF TabStates
<1>6. TabTakes(i, t)
  BY <1>3
<1> HIDE DEF t
<1> QED
  BY <1>2, <1>4, <1>5, <1>6, TabTakesInv

\* An action ends: well, or with an error.
LEMMA TakeActInv ==
  ASSUME TabInv, route \in {"services", "domains"}, NEW i \in DOMAIN calls, TakeAct(i)
  PROVE  TabInv'
<1>1. /\ ClientOK /\ tab \in TabStates /\ calls \in Seq(TabCalls)
  BY DEF TabInv, TabOK
<1>2. /\ calls[i].op = "act" /\ UNCHANGED <<token, good>>
      /\ \/ UNCHANGED failures
         \/ failures < MaxFailures /\ failures' = failures + 1
  BY DEF TakeAct, Ready, Fails, Refused, Read, Served, TabTakes
<1>3. ClientOK'
  BY <1>1, <1>2, ClientAssumption DEF ClientOK
<1>4. CASE /\ TabTakes(i, ListingRows(tab))
           /\ calls' = Append(Without(i), ListCall(calls[i].arg.by))
  BY <1>2, <1>3, <1>4, TabListsAgain
<1>5. CASE TabTakes(i, ActFailed(calls[i])) /\ calls' = Without(i)
  <2> DEFINE by == calls[i].arg.by
             e == TabEnded(tab, by)
             t == [e EXCEPT !.error = TRUE]
  <2>1. /\ e \in TabStates /\ e.seen = tab.seen /\ e.loading = tab.loading
        /\ e.active # NoRow => e.active = tab.active /\ by # "row"
        /\ e.creating => tab.creating /\ by # "form"
    BY <1>1, TabEndedProperties
  <2>2. ActFailed(calls[i]) = t
    BY DEF ActFailed
  <2> HIDE DEF e
  <2>3. /\ t \in TabStates /\ t.seen = tab.seen /\ t.error
        /\ t.loading = tab.loading /\ t.active = e.active
        /\ t.creating = e.creating
    BY <2>1 DEF TabStates
  <2> HIDE DEF t
  <2>4. /\ BusyBy(calls[i], "row") <=> by = "row"
        /\ BusyBy(calls[i], "form") <=> by = "form"
    BY <1>2 DEF BusyBy
  <2> HIDE DEF by
  <2> QED
    BY <1>2, <1>3, <1>5, <2>1, <2>2, <2>3, <2>4, TabTakesInv
<1> QED
  BY <1>4, <1>5 DEF TakeAct

\* What happens on the two tabs.
LEMMA TabNextInv ==
  ASSUME TabInv, TabNext
  PROVE  TabInv'
<1>1. /\ route \in {"services", "domains"} /\ ClientOK
      /\ tab \in TabStates /\ calls \in Seq(TabCalls) /\ table \in [Rows -> States]
  BY DEF TabInv, TabOK, TabNext
<1>2. CASE TabRender
  BY <1>1, <1>2, TabRenderInv
<1>3. CASE HandleServiceAction
  BY <1>1, <1>3, TabStartInv DEF HandleServiceAction, PerformServiceAction, States
<1>4. CASE HandleCreateDomain
  BY <1>1, <1>4, TabStartInv DEF HandleCreateDomain, CreateDomainCall, States
<1>5. CASE HandleDeleteDomain
  BY <1>1, <1>5, TabStartInv DEF HandleDeleteDomain, DeleteDomainCall, States
<1>6. CASE TabAnswer
  <2>1. PICK i \in DOMAIN calls :
          \/ ReadRows(i) \/ Change(i) \/ Confirm(i)
          \/ TakeRows(i) \/ TakeForm(i) \/ TakeAct(i)
    BY <1>6 DEF TabAnswer
  <2>2. calls[i] \in TabCalls
    BY <1>1, LenProperties, ElementOfSeq
  <2>3. CASE ReadRows(i)
    <3> DEFINE c == [calls[i] EXCEPT !.res = Ok(table)]
    <3>1. /\ calls[i].op = "rows" /\ calls' = [calls EXCEPT ![i] = c]
          /\ UNCHANGED <<route, token, good, dirty, failures, tab, table>>
      BY <2>3 DEF ReadRows, Served, Answered, ApiStep
    <3>2. calls[i] \in RowsCalls
      BY <2>2, <3>1, TabCallFacts
    <3>3. /\ c \in RowsCalls /\ c.op = calls[i].op /\ c.arg = calls[i].arg
          /\ c.late = calls[i].late /\ c.res = Ok(table)
      BY <1>1, <3>2 DEF RowsCalls
    <3>4. ClientOK' /\ c \in TabCalls
      BY <1>1, <3>1, <3>3 DEF ClientOK, TabCalls
    <3> HIDE DEF c
    <3> QED
      BY <1>1, <3>1, <3>3, <3>4, TabApiInv
  <2>4. CASE Change(i) \/ Confirm(i)
    <3>1. PICK r \in {[st |-> "read"], Ok(TRUE)} :
            /\ calls[i].op = "act" /\ calls' = [calls EXCEPT ![i].res = r]
            /\ UNCHANGED <<route, token, good, dirty, failures, tab>>
      BY <2>4 DEF Change, Confirm, Served, Answered, ApiStep
    <3>2. calls[i] \in ActCalls
      BY <2>2, <3>1, TabCallFacts
    <3> DEFINE c == [calls[i] EXCEPT !.res = r]
    <3>3. /\ c \in ActCalls /\ c.op = "act" /\ c.op = calls[i].op
          /\ c.arg = calls[i].arg /\ c.late = calls[i].late
          /\ calls' = [calls EXCEPT ![i] = c]
      BY <3>1, <3>2 DEF ActCalls
    <3>4. ClientOK' /\ c \in TabCalls
      BY <1>1, <3>1, <3>3 DEF ClientOK, TabCalls
    <3>5. table' \in [Rows -> States]
      <4>1. calls[i].arg.to \in States
        BY <3>2 DEF ActCalls
      <4> QED
        BY <1>1, <2>4, <4>1 DEF Change, Confirm
    <3> HIDE DEF c
    <3> QED
      BY <1>1, <3>1, <3>3, <3>4, <3>5, TabApiInv
  <2>5. CASE TakeRows(i)
    BY <1>1, <2>5, TakeRowsInv
  <2>6. CASE TakeForm(i)
    BY <1>1, <2>6, TakeFormInv
  <2>7. CASE TakeAct(i)
    BY <1>1, <2>7, TakeActInv
  <2> QED
    BY <2>1, <2>3, <2>4, <2>5, <2>6, <2>7
<1>7. CASE Retries /\ UNCHANGED tabVars
  <2>1. PICK i \in DOMAIN calls : Retry(i)
    BY <1>7 DEF Retries
  <2> DEFINE c == [calls[i] EXCEPT !.token = good]
  <2>2. /\ token' = good /\ dirty' = TRUE /\ calls' = [calls EXCEPT ![i] = c]
        /\ UNCHANGED <<route, good, failures, tab, table>>
    BY <1>7, <2>1 DEF Retry, tabVars
  <2>3. /\ calls[i] \in TabCalls /\ good \in 0 .. MaxToken
        /\ good \in good .. MaxToken
    BY <1>1, LenProperties, ElementOfSeq, ClientAssumption DEF ClientOK
  <2>4. /\ c \in TabCalls /\ c.op = calls[i].op /\ c.arg = calls[i].arg
        /\ c.late = calls[i].late /\ c.res = calls[i].res
    <3>1. CASE calls[i] \in RowsCalls
      BY <2>3, <3>1 DEF TabCalls, RowsCalls
    <3>2. CASE calls[i] \in FormCalls
      BY <2>3, <3>2 DEF TabCalls, FormCalls
    <3>3. CASE calls[i] \in ActCalls
      BY <2>3, <3>3 DEF TabCalls, ActCalls
    <3> QED
      BY <2>3, <3>1, <3>2, <3>3 DEF TabCalls
  <2> HIDE DEF c
  <2>5. ClientOK'
    BY <1>1, <2>2, <2>3 DEF ClientOK
  <2> QED
    BY <1>1, <2>2, <2>4, <2>5, TabApiInv
<1>8. CASE TokenExpires /\ UNCHANGED tabVars
  <2>1. /\ good < MaxToken /\ good' = good + 1
        /\ UNCHANGED <<route, calls, token, dirty, failures, tab, table>>
    BY <1>8 DEF TokenExpires, tabVars
  <2>2. ClientOK'
    BY <1>1, <2>1, ClientAssumption DEF ClientOK
  <2> QED
    BY <1>1, <2>1, <2>2 DEF TabInv, TabOK, TabBusy, TabShows, Real
<1> QED
  BY <1>2, <1>3, <1>4, <1>5, <1>6, <1>7, <1>8 DEF TabNext

-----------------------------------------------------------------------------
(* The list of projects and its form.                                      *)

FormStates ==
  [listed : SUBSET Ids, error : BOOLEAN, loading : BOOLEAN, open : BOOLEAN,
   notice : {"none", "created", "completed"}, failed : BOOLEAN, creating : BOOLEAN,
   pending : Ids \cup {NoProject}, chosen : BOOLEAN, seen : {-1} \cup 0 .. MaxToken,
   gap : BOOLEAN, done : Ids \cup {NoProject}, told : SUBSET Ids,
   number : 0 .. FormActs, acts : 0 .. FormActs]
TableRows == [slug : Nat, form : 1 .. FormActs, layout : BOOLEAN, source : BOOLEAN]

ListCalls ==
  [op : {"projects"}, arg : [after : {"none", "create", "upload"}, id : Ids \cup {NoProject}],
   token : 0 .. MaxToken, res : {Waiting} \cup { Ok(ids) : ids \in SUBSET Ids },
   late : BOOLEAN]
Working == [st : {"read"}, at : {"slug", "insert", "layout"}, n : Nat]
CreateCalls ==
  [op : {"create", "orphan"}, arg : [form : 1 .. FormActs], token : 0 .. MaxToken,
   res : {Waiting} \cup Working \cup { Ok(id) : id \in Ids \cup {NoProject} },
   late : BOOLEAN]
UploadCalls ==
  [op : {"upload"}, arg : [id : Ids], token : 0 .. MaxToken, res : {Waiting, Ok(TRUE)},
   late : BOOLEAN]
FormCallSet == ListCalls \cup CreateCalls \cup UploadCalls

FormOK ==
  /\ form \in FormStates /\ calls \in Seq(FormCallSet)
  /\ projects \in Seq(TableRows) /\ Len(projects) <= MaxProjects

\* What a request knows of the table, rows, is so; it is of one of the forms up to
\* number.
Knows(c, rows, number) ==
  /\ c.op \in {"create", "orphan"} =>
       /\ c.arg.form <= number
       /\ c.res.st = "read" /\ c.res.at = "layout" => c.res.n \in DOMAIN rows
       /\ c.res.st = "ok" /\ c.res.value # NoProject =>
            c.res.value \in DOMAIN rows /\ rows[c.res.value].layout
  /\ c.op = "upload" =>
       /\ c.arg.id \in DOMAIN rows /\ rows[c.arg.id].layout
       /\ c.res.st = "ok" => rows[c.arg.id].source
  /\ c.op = "projects" /\ c.arg.after = "upload" =>
       c.arg.id \in DOMAIN rows /\ rows[c.arg.id].source
AllKnow(cs, rows, number) == \A i \in DOMAIN cs : Knows(cs[i], rows, number)

\* What the page knows of the table is so.
FormKnows ==
  /\ form.pending # NoProject =>
       form.pending \in DOMAIN projects /\ projects[form.pending].layout
  /\ form.notice = "completed" =>
       form.done \in DOMAIN projects /\ projects[form.done].source
  /\ form.told \subseteq DOMAIN projects
  /\ \A id \in DOMAIN projects : projects[id].form <= form.number
  /\ form.open => form.number > 0
  /\ form.number <= form.acts

\* A submission is one request after the other, and the form is busy meanwhile.
Chain(c) == \/ c.op \in {"create", "upload"}
            \/ c.op = "projects" /\ c.arg.after # "none"
OneChain(cs) == \A i, j \in DOMAIN cs : Chain(cs[i]) /\ Chain(cs[j]) => i = j
HasChain(cs) == \E i \in DOMAIN cs : Chain(cs[i])
FormBusy ==
  /\ OneChain(calls) /\ (form.creating <=> HasChain(calls))
  /\ form.loading => Listing(calls, "projects")

\* The requests that may still insert a row for the form n.
InsertsFor(c, n) ==
  /\ c.op \in {"create", "orphan"} /\ c.arg.form = n
  /\ \/ c.res.st = "waiting"
     \/ c.res.st = "read" /\ c.res.at \in {"slug", "insert"}
Inserting(cs, n) == { i \in DOMAIN cs : InsertsFor(cs[i], n) }
RowsOf(rows, n) == { id \in DOMAIN rows : rows[id].form = n }

\* The request that sends the form n is under way, and was not refused.
Sends(c, n) == c.op = "create" /\ c.arg.form = n /\ c.res # Ok(NoProject)
Sending(cs, n) == \E i \in DOMAIN cs : Sends(cs[i], n)

\* A form has made, or may still make, one project more than there were failures,
\* and none more if it can be sent again.
Made(rows, cs, n) == Cardinality(RowsOf(rows, n)) + Cardinality(Inserting(cs, n))
CanBeSent == form.open /\ form.pending = NoProject /\ ~Sending(calls, form.number)
FormCounts ==
  /\ \A n \in 1 .. FormActs : Made(projects, calls, n) <= 1 + failures
  /\ CanBeSent => Made(projects, calls, form.number) <= failures
SlugsDiffer ==
  \A a, b \in DOMAIN projects : a # b => projects[a].slug # projects[b].slug

\* The list shown, or the last one asked for, has what the reader was told of.
Telling == {Waiting} \cup { Ok(ids) : ids \in { s \in SUBSET Ids : form.told \subseteq s } }
FormLists ==
  /\ LateFirst(calls, "projects")
  /\ ~form.error =>
       /\ Fresh(calls, "projects", Telling)
       /\ AllLate(calls, "projects") => form.gap \/ form.told \subseteq form.listed

FormLive ==
  /\ FormOK /\ AllKnow(calls, projects, form.number) /\ FormKnows /\ FormBusy
  /\ FormCounts /\ SlugsDiffer /\ FormLists

FormInv == route = "projects" => ClientOK /\ FormLive

\* Forms and slugs are counted as the property does.
LEMMA FormCountsProperty ==
  ASSUME FormOK, FormCounts, SlugsDiffer, failures \in Nat
  PROVE  OneProjectPerForm
<1>1. ASSUME NEW n \in 1 .. FormActs
      PROVE  Cardinality({ id \in DOMAIN projects : projects[id].form = n }) <= 1 + failures
  <2>1. IsFiniteSet(RowsOf(projects, n)) /\ IsFiniteSet(Inserting(calls, n))
    <3>1. /\ DOMAIN projects = 1 .. Len(projects) /\ Len(projects) \in Int
          /\ DOMAIN calls = 1 .. Len(calls) /\ Len(calls) \in Int
      BY LenProperties DEF FormOK
    <3>2. IsFiniteSet(DOMAIN projects) /\ IsFiniteSet(DOMAIN calls)
      BY <3>1, FS_Interval
    <3> QED
      BY <3>2, FS_Subset DEF RowsOf, Inserting
  <2>2. /\ Cardinality(RowsOf(projects, n)) \in Nat
        /\ Cardinality(Inserting(calls, n)) \in Nat
    BY <2>1, FS_CardinalityType
  <2>3. Made(projects, calls, n) <= 1 + failures
    BY DEF FormCounts
  <2>4. Cardinality(RowsOf(projects, n)) <= 1 + failures
    BY <2>2, <2>3 DEF Made
  <2> QED
    BY <2>4 DEF RowsOf
<1> QED
  BY <1>1 DEF OneProjectPerForm, SlugsDiffer

\* At rest nothing is busy, and the list has what the reader was told of.
LEMMA FormAtRestTrue == ASSUME FormInv PROVE NoticeIsTrue
<1> SUFFICES ASSUME route = "projects", calls = <<>>, ~dirty
             PROVE  /\ ~form.creating /\ ~form.loading
                    /\ form.notice = "completed" =>
                         form.done \in DOMAIN projects /\ projects[form.done].source
                    /\ form.pending # NoProject => projects[form.pending].layout
                    /\ ~form.error /\ ~form.gap => form.told \subseteq form.listed
  BY DEF NoticeIsTrue
<1>1. FormKnows /\ FormBusy /\ FormLists
  BY DEF FormInv, FormLive
<1>2. DOMAIN calls = {}
  OBVIOUS
<1>3. /\ ~HasChain(calls) /\ ~Listing(calls, "projects")
      /\ AllLate(calls, "projects")
  BY <1>2 DEF HasChain, Listing, AllLate
<1> QED
  BY <1>1, <1>3 DEF FormKnows, FormBusy, FormLists

\* The requests of the page, by what they are.
LEMMA FormCallFacts ==
  ASSUME NEW c \in FormCallSet
  PROVE  /\ c.op \in {"projects", "create", "orphan", "upload"} /\ c.late \in BOOLEAN
         /\ c.op = "projects" => c \in ListCalls
         /\ c.op \in {"create", "orphan"} => c \in CreateCalls
         /\ c.op = "upload" => c \in UploadCalls
BY DEF FormCallSet, ListCalls, CreateCalls, UploadCalls

\* A request of the projects page is one when it is late as well.
LEMMA FormHoldsLate == HoldsLate(FormCallSet)
<1>1. ASSUME NEW c \in ListCalls
      PROVE  LateOf(c) \in ListCalls /\ SameCall(LateOf(c), c) /\ LateOf(c).late
  BY DEF ListCalls, LateOf, SameCall
<1>2. ASSUME NEW c \in CreateCalls
      PROVE  LateOf(c) \in CreateCalls /\ SameCall(LateOf(c), c) /\ LateOf(c).late
  BY DEF CreateCalls, LateOf, SameCall
<1>3. ASSUME NEW c \in UploadCalls
      PROVE  LateOf(c) \in UploadCalls /\ SameCall(LateOf(c), c) /\ LateOf(c).late
  BY DEF UploadCalls, LateOf, SameCall
<1> QED
  BY <1>1, <1>2, <1>3 DEF FormCallSet, HoldsLate

\* The sets that are counted are finite.
LEMMA InsertingFinite ==
  ASSUME NEW S, NEW cs \in Seq(S), NEW n
  PROVE  IsFiniteSet(Inserting(cs, n)) /\ Cardinality(Inserting(cs, n)) \in Nat
<1>1. DOMAIN cs = 1 .. Len(cs) /\ Len(cs) \in Int
  BY LenProperties
<1>2. IsFiniteSet(DOMAIN cs)
  BY <1>1, FS_Interval
<1> QED
  BY <1>2, FS_Subset, FS_CardinalityType DEF Inserting

\* The projects that a form has made are finitely many.
LEMMA RowsFinite ==
  ASSUME NEW S, NEW rows \in Seq(S), NEW n
  PROVE  IsFiniteSet(RowsOf(rows, n)) /\ Cardinality(RowsOf(rows, n)) \in Nat
<1>1. DOMAIN rows = 1 .. Len(rows) /\ Len(rows) \in Int
  BY LenProperties
<1>2. IsFiniteSet(DOMAIN rows)
  BY <1>1, FS_Interval
<1> QED
  BY <1>2, FS_Subset, FS_CardinalityType DEF RowsOf

\* A request is made.
LEMMA FormAdded ==
  ASSUME NEW cs \in Seq(FormCallSet), NEW c \in FormCallSet
  PROVE  /\ Append(cs, c) \in Seq(FormCallSet)
         /\ OneChain(cs) /\ (Chain(c) => ~HasChain(cs)) => OneChain(Append(cs, c))
         /\ HasChain(Append(cs, c)) <=> HasChain(cs) \/ Chain(c)
         /\ \A rows, number : AllKnow(cs, rows, number) /\ Knows(c, rows, number) =>
              AllKnow(Append(cs, c), rows, number)
         /\ \A n : Sending(Append(cs, c), n) <=> Sending(cs, n) \/ Sends(c, n)
         /\ \A n : ~InsertsFor(c, n) =>
              Cardinality(Inserting(Append(cs, c), n)) = Cardinality(Inserting(cs, n))
         /\ \A n : Cardinality(Inserting(Append(cs, c), n))
                     <= Cardinality(Inserting(cs, n)) + 1
<1> DEFINE d == Append(cs, c)
           m == Len(cs) + 1
<1>1. /\ d \in Seq(FormCallSet) /\ Len(cs) \in Nat
      /\ \A j \in DOMAIN cs : j \in DOMAIN d /\ d[j] = cs[j] /\ j < m
      /\ m \in DOMAIN d /\ d[m] = c
      /\ \A j \in DOMAIN d : j \in DOMAIN cs \/ j = m
  BY CallAdded
<1>2. m \in Nat /\ m \notin DOMAIN cs
  BY <1>1
<1> HIDE DEF d, m
<1>3. OneChain(cs) /\ (Chain(c) => ~HasChain(cs)) => OneChain(d)
  BY <1>1 DEF OneChain, HasChain
<1>4. HasChain(d) <=> HasChain(cs) \/ Chain(c)
  BY <1>1 DEF HasChain
<1>5. ASSUME NEW rows, NEW number, AllKnow(cs, rows, number), Knows(c, rows, number)
      PROVE  AllKnow(d, rows, number)
  BY <1>1, <1>5 DEF AllKnow
<1>6. \A n : Sending(d, n) <=> Sending(cs, n) \/ Sends(c, n)
  BY <1>1 DEF Sending
<1>7. ASSUME NEW n
      PROVE  /\ ~InsertsFor(c, n) =>
                  Cardinality(Inserting(d, n)) = Cardinality(Inserting(cs, n))
             /\ Cardinality(Inserting(d, n)) <= Cardinality(Inserting(cs, n)) + 1
  <2>1. IsFiniteSet(Inserting(cs, n)) /\ Cardinality(Inserting(cs, n)) \in Nat
    BY InsertingFinite
  <2>2. CASE InsertsFor(c, n)
    <3>1. Inserting(d, n) = Inserting(cs, n) \cup {m}
      BY <1>1, <2>2 DEF Inserting
    <3>2. Cardinality(Inserting(cs, n) \cup {m}) \in
            {Cardinality(Inserting(cs, n)), Cardinality(Inserting(cs, n)) + 1}
      BY <2>1, FS_AddElement
    <3> QED
      BY <2>1, <2>2, <3>1, <3>2
  <2>3. CASE ~InsertsFor(c, n)
    <3>1. Inserting(d, n) = Inserting(cs, n)
      BY <1>1, <2>3 DEF Inserting
    <3> QED
      BY <2>1, <3>1
  <2> QED
    BY <2>2, <2>3
<1> QED
  BY <1>1, <1>3, <1>4, <1>5, <1>6, <1>7 DEF d

\* A request is taken out.
LEMMA FormRemoved ==
  ASSUME calls \in Seq(FormCallSet), NEW i \in DOMAIN calls
  PROVE  /\ Without(i) \in Seq(FormCallSet)
         /\ OneChain(calls) => OneChain(Without(i))
         /\ OneChain(calls) /\ Chain(calls[i]) => ~HasChain(Without(i))
         /\ ~Chain(calls[i]) => (HasChain(Without(i)) <=> HasChain(calls))
         /\ \A rows, number :
              AllKnow(calls, rows, number) => AllKnow(Without(i), rows, number)
         /\ \A n : Sending(calls, n) /\ ~Sends(calls[i], n) => Sending(Without(i), n)
         /\ \A n : Cardinality(Inserting(Without(i), n))
                     <= Cardinality(Inserting(calls, n))
<1> DEFINE w == Without(i)
<1>1. w \in Seq(FormCallSet) /\ AllBut(i, w)
  BY WithoutAllBut, FormHoldsLate
<1> HIDE DEF w
<1>2. /\ i \in Nat
      /\ \A j \in DOMAIN w :
           /\ j \in Nat /\ Old(i, j) \in DOMAIN calls /\ Old(i, j) # i
           /\ w[j].op = calls[Old(i, j)].op
           /\ w[j].arg = calls[Old(i, j)].arg /\ w[j].res = calls[Old(i, j)].res
      /\ \A j \in DOMAIN calls : j # i => \E k \in DOMAIN w : Old(i, k) = j
  BY <1>1 DEF AllBut, SameCall
<1>3. \A j \in DOMAIN w : Chain(w[j]) <=> Chain(calls[Old(i, j)])
  BY <1>2 DEF Chain
<1>4. \A j, k \in DOMAIN w : Old(i, j) = Old(i, k) => j = k
  BY <1>2, OldOrdered
<1>5. OneChain(calls) => OneChain(w)
  BY <1>2, <1>3, <1>4 DEF OneChain
<1>6. OneChain(calls) /\ Chain(calls[i]) => ~HasChain(w)
  BY <1>2, <1>3 DEF OneChain, HasChain
<1>7. ~Chain(calls[i]) => (HasChain(w) <=> HasChain(calls))
  BY <1>2, <1>3 DEF HasChain
<1>8. ASSUME NEW rows, NEW number, AllKnow(calls, rows, number)
      PROVE  AllKnow(w, rows, number)
  <2> SUFFICES ASSUME NEW j \in DOMAIN w  PROVE Knows(w[j], rows, number)
    BY DEF AllKnow
  <2>1. Knows(calls[Old(i, j)], rows, number)
    BY <1>2, <1>8 DEF AllKnow
  <2> QED
    BY <1>2, <2>1 DEF Knows
<1>9. ASSUME NEW n, Sending(calls, n), ~Sends(calls[i], n)
      PROVE  Sending(w, n)
  <2>1. PICK j \in DOMAIN calls : j # i /\ Sends(calls[j], n)
    BY <1>9 DEF Sending
  <2>2. PICK k \in DOMAIN w : Old(i, k) = j
    BY <1>2, <2>1
  <2>3. /\ w[k].op = calls[j].op /\ w[k].arg = calls[j].arg
        /\ w[k].res = calls[j].res
    BY <1>2, <2>2
  <2> QED
    BY <2>1, <2>3 DEF Sending, Sends
<1>10. ASSUME NEW n
       PROVE  Cardinality(Inserting(w, n)) <= Cardinality(Inserting(calls, n))
  <2> DEFINE f == [j \in Inserting(w, n) |-> Old(i, j)]
  <2>1. ASSUME NEW j \in Inserting(w, n)
        PROVE  j \in DOMAIN w /\ Old(i, j) \in Inserting(calls, n)
    <3>1. j \in DOMAIN w /\ InsertsFor(w[j], n)
      BY DEF Inserting
    <3>2. InsertsFor(calls[Old(i, j)], n)
      BY <1>2, <3>1 DEF InsertsFor
    <3> QED
      BY <1>2, <3>1, <3>2 DEF Inserting
  <2>2. f \in [Inserting(w, n) -> Inserting(calls, n)]
    BY <2>1
  <2>3. \A j, k \in Inserting(w, n) : f[j] = f[k] => j = k
    BY <1>4, <2>1
  <2> HIDE DEF f
  <2>4. f \in Injection(Inserting(w, n), Inserting(calls, n))
    BY <2>2, <2>3 DEF Injection, IsInjective
  <2>5. IsFiniteSet(Inserting(calls, n))
    BY InsertingFinite
  <2> QED
    BY <2>4, <2>5, FS_Injection
<1> QED
  BY <1>1, <1>5, <1>6, <1>7, <1>8, <1>9, <1>10 DEF w

\* A request goes on at the API, is sent again, or is left by the page.
LEMMA FormServed ==
  ASSUME calls \in Seq(FormCallSet), NEW i \in DOMAIN calls, NEW c \in FormCallSet,
         Chain(c) => Chain(calls[i])
  PROVE  /\ [calls EXCEPT ![i] = c] \in Seq(FormCallSet)
         /\ OneChain(calls) => OneChain([calls EXCEPT ![i] = c])
         /\ Chain(c) => HasChain([calls EXCEPT ![i] = c])
         /\ OneChain(calls) /\ Chain(calls[i]) /\ ~Chain(c) =>
              ~HasChain([calls EXCEPT ![i] = c])
         /\ ~Chain(calls[i]) => (HasChain([calls EXCEPT ![i] = c]) <=> HasChain(calls))
         /\ \A rows, number : AllKnow(calls, rows, number) /\ Knows(c, rows, number) =>
              AllKnow([calls EXCEPT ![i] = c], rows, number)
         /\ \A n : Sending(calls, n) /\ (Sends(calls[i], n) => Sends(c, n)) =>
              Sending([calls EXCEPT ![i] = c], n)
         /\ \A n : (InsertsFor(c, n) => InsertsFor(calls[i], n)) =>
              Cardinality(Inserting([calls EXCEPT ![i] = c], n))
                <= Cardinality(Inserting(calls, n))
         /\ \A n : InsertsFor(calls[i], n) /\ ~InsertsFor(c, n) =>
              Cardinality(Inserting([calls EXCEPT ![i] = c], n)) + 1
                = Cardinality(Inserting(calls, n))
<1> DEFINE d == [calls EXCEPT ![i] = c]
<1>1. /\ d \in Seq(FormCallSet) /\ DOMAIN d = DOMAIN calls
      /\ \A j \in DOMAIN calls : d[j] = IF j = i THEN c ELSE calls[j]
  BY CallSet
<1> HIDE DEF d
<1>2. OneChain(calls) => OneChain(d)
  BY <1>1 DEF OneChain
<1>3. Chain(c) => HasChain(d)
  BY <1>1 DEF HasChain
<1>4. OneChain(calls) /\ Chain(calls[i]) /\ ~Chain(c) => ~HasChain(d)
  BY <1>1 DEF OneChain, HasChain
<1>5. ~Chain(calls[i]) => (HasChain(d) <=> HasChain(calls))
  BY <1>1 DEF HasChain
<1>6. ASSUME NEW rows, NEW number, AllKnow(calls, rows, number), Knows(c, rows, number)
      PROVE  AllKnow(d, rows, number)
  BY <1>1, <1>6 DEF AllKnow
<1>7. ASSUME NEW n, Sending(calls, n), Sends(calls[i], n) => Sends(c, n)
      PROVE  Sending(d, n)
  BY <1>1, <1>7 DEF Sending
<1>8. ASSUME NEW n, InsertsFor(c, n) => InsertsFor(calls[i], n)
      PROVE  Cardinality(Inserting(d, n)) <= Cardinality(Inserting(calls, n))
  <2>1. Inserting(d, n) \in SUBSET Inserting(calls, n)
    BY <1>1, <1>8 DEF Inserting
  <2> QED
    BY <2>1, InsertingFinite, FS_Subset
<1>9. ASSUME NEW n, InsertsFor(calls[i], n), ~InsertsFor(c, n)
      PROVE  Cardinality(Inserting(d, n)) + 1 = Cardinality(Inserting(calls, n))
  <2>1. Inserting(d, n) = Inserting(calls, n) \ {i} /\ i \in Inserting(calls, n)
    BY <1>1, <1>9 DEF Inserting
  <2>2. IsFiniteSet(Inserting(calls, n)) /\ Cardinality(Inserting(calls, n)) \in Nat
    BY InsertingFinite
  <2>3. Cardinality(Inserting(calls, n) \ {i}) = Cardinality(Inserting(calls, n)) - 1
    BY <2>1, <2>2, FS_RemoveElement
  <2> QED
    BY <2>1, <2>2, <2>3
<1> QED
  BY <1>1, <1>2, <1>3, <1>4, <1>5, <1>6, <1>7, <1>8, <1>9 DEF d

\* The table grows: rows stay, with the directories and the source they have.
Grows(rows, more) ==
  /\ DOMAIN rows \subseteq DOMAIN more
  /\ \A id \in DOMAIN rows : /\ rows[id].layout => more[id].layout
                             /\ rows[id].source => more[id].source

\* What is known of the requests stays known when the table and the forms grow.
LEMMA KnowsMore ==
  ASSUME NEW cs \in Seq(FormCallSet), NEW rows, NEW more, Grows(rows, more),
         NEW number \in Nat, NEW later \in Nat, number <= later,
         AllKnow(cs, rows, number)
  PROVE  AllKnow(cs, more, later)
<1> SUFFICES ASSUME NEW i \in DOMAIN cs  PROVE Knows(cs[i], more, later)
  BY DEF AllKnow
<1> DEFINE c == cs[i]
<1>1. Knows(c, rows, number) /\ c \in FormCallSet
  BY LenProperties, ElementOfSeq DEF AllKnow
<1> HIDE DEF c
<1>2. ASSUME c.op \in {"create", "orphan"}
      PROVE  /\ c.arg.form <= later
             /\ c.res.st = "read" /\ c.res.at = "layout" => c.res.n \in DOMAIN more
             /\ c.res.st = "ok" /\ c.res.value # NoProject =>
                  c.res.value \in DOMAIN more /\ more[c.res.value].layout
  <2>1. c.arg.form \in Nat /\ c.arg.form <= number
    BY <1>1, <1>2, FormCallFacts DEF Knows, CreateCalls
  <2> QED
    BY <1>1, <1>2, <2>1 DEF Knows, Grows
<1>3. ASSUME c.op = "upload"
      PROVE  /\ c.arg.id \in DOMAIN more /\ more[c.arg.id].layout
             /\ c.res.st = "ok" => more[c.arg.id].source
  BY <1>1, <1>3 DEF Knows, Grows
<1>4. ASSUME c.op = "projects", c.arg.after = "upload"
      PROVE  c.arg.id \in DOMAIN more /\ more[c.arg.id].source
  BY <1>1, <1>4 DEF Knows, Grows
<1>5. Knows(c, more, later)
  BY <1>2, <1>3, <1>4 DEF Knows
<1> QED
  BY <1>5 DEF c

\* A table is as long as itself, and has its rows.
LEMMA GrowsNot == ASSUME NEW rows PROVE Grows(rows, rows)
BY DEF Grows

\* What the invariant says of the page.
LEMMA FormFacts ==
  ASSUME FormInv, route = "projects"
  PROVE  /\ ClientOK /\ FormLive /\ failures \in Nat
         /\ form \in FormStates /\ calls \in Seq(FormCallSet)
         /\ projects \in Seq(TableRows) /\ Len(projects) <= MaxProjects
         /\ form.number \in Nat /\ form.acts \in Nat /\ form.creating \in BOOLEAN
         /\ \A n : Made(projects, calls, n) \in Nat
<1>1. ClientOK /\ FormLive /\ FormOK
  BY DEF FormInv, FormLive
<1>2. \A n : Made(projects, calls, n) \in Nat
  BY <1>1, InsertingFinite, RowsFinite DEF FormOK, Made
<1> QED
  BY <1>1, <1>2, ClientAssumption DEF FormOK, FormStates, ClientOK

\* The form changes, and nothing else.
LEMMA FormChangesInv ==
  ASSUME FormInv, route = "projects", NEW f \in FormStates, form' = f,
         UNCHANGED <<route, projects, calls, failures>>, ClientOK',
         f.listed = form.listed, f.told = form.told, f.gap = form.gap,
         f.error = form.error, f.loading = form.loading, f.creating = form.creating,
         form.number <= f.number, f.number <= f.acts, f.open => f.number > 0,
         f.pending \in {form.pending, NoProject},
         f.notice = "completed" => form.notice = "completed" /\ f.done = form.done,
         f.open /\ f.pending = NoProject /\ ~Sending(calls, f.number) =>
           Made(projects, calls, f.number) <= failures
  PROVE  FormInv'
<1>1. /\ FormOK /\ AllKnow(calls, projects, form.number) /\ FormKnows /\ FormBusy
      /\ FormCounts /\ SlugsDiffer /\ FormLists
      /\ form.number \in Nat /\ f.number \in Nat
      /\ calls \in Seq(FormCallSet) /\ projects \in Seq(TableRows)
  BY FormFacts DEF FormLive, FormStates
<1>2. FormOK'
  BY <1>1 DEF FormOK
<1>3. AllKnow(calls, projects, f.number)
  BY <1>1, KnowsMore, GrowsNot
<1>4. FormKnows'
  <2>1. \A id \in DOMAIN projects : projects[id].form \in Nat
    <3>1. \A id \in DOMAIN projects : projects[id] \in TableRows
      BY <1>1, LenProperties, ElementOfSeq
    <3> QED
      BY <3>1 DEF TableRows
  <2> QED
    BY <1>1, <2>1 DEF FormKnows
<1>5. FormBusy'
  BY <1>1 DEF FormBusy
<1>6. FormCounts'
  BY <1>1 DEF FormCounts, CanBeSent
<1>7. SlugsDiffer'
  BY <1>1 DEF SlugsDiffer
<1>8. FormLists'
  BY <1>1 DEF FormLists, Telling
<1> QED
  BY <1>2, <1>3, <1>4, <1>5, <1>6, <1>7, <1>8 DEF FormInv, FormLive

\* A request is made: of the list, or of a form that is not busy.
LEMMA FormSendsInv ==
  ASSUME FormInv, route = "projects", NEW f \in FormStates, form' = f,
         NEW c \in FormCallSet, calls' = Append(calls, c), ~c.late, c.res = Waiting,
         UNCHANGED <<route, projects, failures>>, ClientOK',
         f.listed = form.listed, f.told = form.told, f.gap = form.gap,
         f.open = form.open, f.number = form.number, f.pending = form.pending,
         form.acts <= f.acts,
         f.notice = "completed" => form.notice = "completed" /\ f.done = form.done,
         Chain(c) => ~form.creating, f.creating <=> form.creating \/ Chain(c),
         f.loading => form.loading \/ c.op = "projects",
         ~f.error => ~form.error \/ c.op = "projects",
         Knows(c, projects, form.number), c.op # "orphan",
         c.op = "create" =>
           form.open /\ form.pending = NoProject /\ c.arg.form = form.number
  PROVE  FormInv'
<1>1. /\ FormOK /\ AllKnow(calls, projects, form.number) /\ FormKnows /\ FormBusy
      /\ FormCounts /\ SlugsDiffer /\ FormLists
      /\ calls \in Seq(FormCallSet) /\ failures \in Nat
      /\ form.acts \in Nat /\ form.number \in Nat /\ f.acts \in Nat
      /\ \A n : Made(projects, calls, n) \in Nat
  BY FormFacts DEF FormLive, FormStates
<1>2. /\ calls' \in Seq(FormCallSet)
      /\ OneChain(calls) /\ (Chain(c) => ~HasChain(calls)) => OneChain(calls')
      /\ HasChain(calls') <=> HasChain(calls) \/ Chain(c)
      /\ \A rows, number : AllKnow(calls, rows, number) /\ Knows(c, rows, number) =>
           AllKnow(calls', rows, number)
      /\ \A n : Sending(calls', n) <=> Sending(calls, n) \/ Sends(c, n)
      /\ \A n : ~InsertsFor(c, n) =>
           Cardinality(Inserting(calls', n)) = Cardinality(Inserting(calls, n))
      /\ \A n : Cardinality(Inserting(calls', n)) <= Cardinality(Inserting(calls, n)) + 1
  BY <1>1, FormAdded
<1>3. /\ Listing(calls, "projects") \/ c.op = "projects" => Listing(calls', "projects")
      /\ LateFirst(calls, "projects") => LateFirst(calls', "projects")
      /\ AllLate(calls', "projects") <=> AllLate(calls, "projects") /\ c.op # "projects"
      /\ c.op = "projects" => Fresh(calls', "projects", Telling)
      /\ c.op # "projects" /\ Fresh(calls, "projects", Telling) =>
           Fresh(calls', "projects", Telling)
  <2>1. c.res \in Telling
    BY DEF Telling
  <2> QED
    BY <1>1, <2>1, ListAdded
<1>4. FormOK' /\ SlugsDiffer'
  BY <1>1, <1>2 DEF FormOK, SlugsDiffer
<1>5. AllKnow(calls', projects', f.number)
  BY <1>1, <1>2
<1>6. FormKnows'
  BY <1>1 DEF FormKnows
<1>7. FormBusy'
  BY <1>1, <1>2, <1>3 DEF FormBusy
<1>8. FormLists'
  BY <1>1, <1>3 DEF FormLists, Telling
<1>9. FormCounts'
  <2>1. \A n : /\ Cardinality(RowsOf(projects, n)) \in Nat
               /\ Cardinality(Inserting(calls, n)) \in Nat
               /\ Cardinality(Inserting(calls', n)) \in Nat
    BY <1>1, <1>2, RowsFinite, InsertingFinite DEF FormOK
  <2>2. CASE c.op = "create"
    <3>1. ~Sending(calls, form.number)
      BY <1>1, <2>2 DEF FormBusy, HasChain, Sending, Sends, Chain
    <3>2. Made(projects, calls, form.number) <= failures
      BY <1>1, <2>2, <3>1 DEF FormCounts, CanBeSent
    <3>3. Sending(calls', form.number)
      <4>1. c.res # Ok(NoProject)
        BY DEF Waiting, Ok
      <4> QED
        BY <1>2, <2>2, <4>1 DEF Sends
    <3>4. ASSUME NEW n \in 1 .. FormActs
          PROVE  Made(projects, calls', n) <= 1 + failures
      <4>1. CASE n = form.number
        BY <1>1, <1>2, <2>1, <3>2, <4>1 DEF Made
      <4>2. CASE n # form.number
        <5>1. ~InsertsFor(c, n)
          BY <2>2, <4>2 DEF InsertsFor
        <5>2. Made(projects, calls', n) = Made(projects, calls, n)
          BY <1>2, <5>1 DEF Made
        <5> QED
          BY <1>1, <5>2 DEF FormCounts
      <4> QED
        BY <4>1, <4>2
    <3> QED
      BY <3>3, <3>4 DEF FormCounts, CanBeSent
  <2>3. CASE c.op # "create"
    <3>1. \A n : ~InsertsFor(c, n) /\ ~Sends(c, n)
      BY <2>3 DEF InsertsFor, Sends
    <3>2. \A n : Made(projects, calls', n) = Made(projects, calls, n)
      BY <1>2, <3>1 DEF Made
    <3> QED
      BY <1>1, <1>2, <3>1, <3>2 DEF FormCounts, CanBeSent
  <2> QED
    BY <2>2, <2>3
<1> QED
  BY <1>4, <1>5, <1>6, <1>7, <1>8, <1>9 DEF FormInv, FormLive

\* The API does a part of what a request asks for: the page is as it was.
LEMMA FormApiInv ==
  ASSUME FormInv, route = "projects", NEW i \in DOMAIN calls, NEW c \in FormCallSet,
         calls' = [calls EXCEPT ![i] = c],
         c.op = calls[i].op, c.arg = calls[i].arg, c.late = calls[i].late,
         UNCHANGED <<route, form>>, ClientOK', failures' \in Nat, failures <= failures',
         projects' \in Seq(TableRows), Len(projects') <= MaxProjects,
         Grows(projects, projects'), SlugsDiffer',
         \A id \in DOMAIN projects' : projects'[id].form <= form.number,
         Knows(c, projects', form.number),
         c.op = "projects" => c.res = calls[i].res \/ c.res = Ok(DOMAIN projects),
         \A n \in 1 .. FormActs : Made(projects', calls', n) <= Made(projects, calls, n),
         Sends(calls[i], form.number) =>
           Sends(c, form.number) \/ Made(projects', calls', form.number) <= failures'
  PROVE  FormInv'
<1>1. /\ FormOK /\ AllKnow(calls, projects, form.number) /\ FormKnows /\ FormBusy
      /\ FormCounts /\ SlugsDiffer /\ FormLists
      /\ calls \in Seq(FormCallSet) /\ failures \in Nat /\ form \in FormStates
      /\ form.number \in Nat /\ form.acts \in Nat
      /\ \A n : Made(projects, calls, n) \in Nat
  BY FormFacts DEF FormLive
<1>2. Chain(c) <=> Chain(calls[i])
  BY DEF Chain
<1>3. /\ calls' \in Seq(FormCallSet)
      /\ OneChain(calls) => OneChain(calls')
      /\ Chain(c) => HasChain(calls')
      /\ ~Chain(calls[i]) => (HasChain(calls') <=> HasChain(calls))
      /\ \A rows, number : AllKnow(calls, rows, number) /\ Knows(c, rows, number) =>
           AllKnow(calls', rows, number)
      /\ \A n : Sending(calls, n) /\ (Sends(calls[i], n) => Sends(c, n)) =>
           Sending(calls', n)
  BY <1>1, <1>2, FormServed
<1>4. /\ Listing(calls, "projects") => Listing(calls', "projects")
      /\ LateFirst(calls, "projects") => LateFirst(calls', "projects")
      /\ AllLate(calls', "projects") <=> AllLate(calls, "projects")
      /\ Fresh(calls, "projects", Telling) => Fresh(calls', "projects", Telling)
  <2>1. DOMAIN projects \in SUBSET Ids
    <3>1. DOMAIN projects = 1 .. Len(projects) /\ Len(projects) \in Nat
          /\ Len(projects) <= MaxProjects
      BY <1>1, LenProperties DEF FormOK
    <3> QED
      BY <3>1, ProjectsAssumption DEF Ids
  <2>2. Ok(DOMAIN projects) \in Telling
    BY <1>1, <2>1 DEF FormKnows, Telling
  <2> QED
    BY <1>1, <2>2, ListServed
<1>5. AllKnow(calls', projects', form.number)
  <2>1. AllKnow(calls, projects', form.number)
    BY <1>1, KnowsMore
  <2> QED
    BY <1>3, <2>1
<1>6. FormOK'
  BY <1>1, <1>3 DEF FormOK
<1>7. FormKnows'
  BY <1>1 DEF FormKnows, Grows
<1>8. FormBusy'
  <2>1. HasChain(calls') <=> HasChain(calls)
    BY <1>2, <1>3 DEF HasChain
  <2> QED
    BY <1>1, <1>3, <1>4, <2>1 DEF FormBusy
<1>9. FormLists'
  BY <1>1, <1>4 DEF FormLists, Telling
<1>10. FormCounts'
  <2>1. ASSUME NEW n  PROVE Made(projects', calls', n) \in Nat
    <3>1. Cardinality(Inserting(calls', n)) \in Nat
      BY <1>3, InsertingFinite
    <3>2. Cardinality(RowsOf(projects', n)) \in Nat
      BY RowsFinite
    <3> QED
      BY <3>1, <3>2 DEF Made
  <2>2. ASSUME NEW n \in 1 .. FormActs
        PROVE  Made(projects', calls', n) <= 1 + failures'
    <3>1. Made(projects, calls, n) <= 1 + failures
      BY <1>1 DEF FormCounts
    <3>2. /\ Made(projects', calls', n) <= Made(projects, calls, n)
          /\ Made(projects, calls, n) \in Nat
      BY <1>1
    <3> DEFINE a == Made(projects, calls, n)
               b == Made(projects', calls', n)
    <3>3. /\ a \in Nat /\ b \in Nat /\ b <= a /\ a <= 1 + failures
          /\ failures \in Nat
      BY <1>1, <2>1, <3>1, <3>2
    <3> HIDE DEF a, b
    <3>4. b <= 1 + failures'
      BY <3>3
    <3> QED
      BY <3>4 DEF b
  <2>3. ASSUME CanBeSent'  PROVE Made(projects', calls', form.number) <= failures'
    <3>1. /\ form.open /\ form.pending = NoProject
          /\ ~Sending(calls', form.number)
      BY <2>3 DEF CanBeSent
    <3>2. CASE Sending(calls, form.number)
      BY <1>3, <3>1, <3>2
    <3>3. CASE ~Sending(calls, form.number)
      <4>1. Made(projects, calls, form.number) <= failures
        BY <1>1, <3>1, <3>3 DEF FormCounts, CanBeSent
      <4>2. form.number \in 1 .. FormActs
        BY <1>1, <3>1 DEF FormKnows, FormStates
      <4>3. /\ Made(projects', calls', form.number) <= Made(projects, calls, form.number)
            /\ Made(projects, calls, form.number) \in Nat
            /\ Made(projects', calls', form.number) \in Nat
        BY <1>1, <2>1, <4>2
      <4> QED
        BY <1>1, <4>1, <4>3
    <3> QED
      BY <3>2, <3>3
  <2> QED
    BY <2>2, <2>3 DEF FormCounts
<1> QED
  BY <1>5, <1>6, <1>7, <1>8, <1>9, <1>10 DEF FormInv, FormLive

\* A request is out of the form's hands, and the form is told.
LEMMA FormTakesInv ==
  ASSUME FormInv, route = "projects", NEW i \in DOMAIN calls,
         NEW f \in FormStates, form' = f, calls' = Without(i),
         UNCHANGED <<route, projects>>, ClientOK', failures' \in Nat, failures <= failures',
         f.number = form.number, f.acts = form.acts, f.told = form.told,
         f.open => form.open,
         f.pending \in {form.pending, NoProject},
         f.open /\ f.pending = NoProject => form.pending = NoProject,
         f.notice = "completed" =>
           f.done \in DOMAIN projects /\ projects[f.done].source,
         f.creating <=> form.creating /\ ~Chain(calls[i]),
         f.loading => form.loading /\ calls[i].op # "projects",
         form.error => f.error,
         calls[i].op = "projects" =>
           \/ f.error
           \/ f.gap = calls[i].late /\ calls[i].res = Ok(f.listed),
         calls[i].op # "projects" => f.gap = form.gap /\ f.listed = form.listed,
         Sends(calls[i], form.number) => failures' = failures + 1
  PROVE  FormInv'
<1>1. /\ FormOK /\ AllKnow(calls, projects, form.number) /\ FormKnows /\ FormBusy
      /\ FormCounts /\ SlugsDiffer /\ FormLists
      /\ calls \in Seq(FormCallSet) /\ failures \in Nat /\ form \in FormStates
      /\ form.number \in Nat /\ projects \in Seq(TableRows)
      /\ \A n : Made(projects, calls, n) \in Nat
  BY FormFacts DEF FormLive
<1>2. /\ calls' \in Seq(FormCallSet)
      /\ OneChain(calls) => OneChain(calls')
      /\ OneChain(calls) /\ Chain(calls[i]) => ~HasChain(calls')
      /\ ~Chain(calls[i]) => (HasChain(calls') <=> HasChain(calls))
      /\ \A rows, number :
           AllKnow(calls, rows, number) => AllKnow(calls', rows, number)
      /\ \A n : Sending(calls, n) /\ ~Sends(calls[i], n) => Sending(calls', n)
      /\ \A n : Cardinality(Inserting(calls', n)) <= Cardinality(Inserting(calls, n))
  BY <1>1, FormRemoved
<1>3. /\ Listing(calls, "projects") /\ calls[i].op # "projects" =>
           Listing(calls', "projects")
      /\ LateFirst(calls, "projects") => LateFirst(calls', "projects")
      /\ Fresh(calls, "projects", Telling) => Fresh(calls', "projects", Telling)
      /\ AllLate(calls', "projects") /\ calls[i].op # "projects" =>
           AllLate(calls, "projects")
      /\ AllLate(calls', "projects") /\ LateFirst(calls, "projects")
           /\ calls[i].op = "projects" =>
           calls[i].late \/ IsNewest(calls, "projects", i)
  BY <1>1, FormHoldsLate, ListRemoved
<1>4. FormOK' /\ SlugsDiffer'
  BY <1>1, <1>2 DEF FormOK, SlugsDiffer
<1>5. AllKnow(calls', projects, f.number)
  BY <1>1, <1>2
<1>6. FormKnows'
  BY <1>1 DEF FormKnows
<1>7. FormBusy'
  BY <1>1, <1>2, <1>3 DEF FormBusy
<1>8. FormLists'
  <2> SUFFICES ASSUME ~f.error
               PROVE  /\ Fresh(calls', "projects", Telling)
                      /\ AllLate(calls', "projects") => f.gap \/ f.told \subseteq f.listed
    BY <1>1, <1>3 DEF FormLists, Telling
  <2>1. /\ Fresh(calls, "projects", Telling)
        /\ AllLate(calls, "projects") => form.gap \/ form.told \subseteq form.listed
    BY <1>1 DEF FormLists
  <2>2. ASSUME AllLate(calls', "projects"), calls[i].op = "projects", ~f.gap
        PROVE  f.told \subseteq f.listed
    <3>1. calls[i].res = Ok(f.listed) /\ ~calls[i].late
      BY <2>2
    <3>2. IsNewest(calls, "projects", i)
      BY <1>1, <1>3, <2>2, <3>1 DEF FormLists
    <3>3. Ok(f.listed) \in Telling
      BY <2>1, <3>1, <3>2 DEF Fresh
    <3> QED
      BY <3>3 DEF Telling, Ok, Waiting
  <2> QED
    BY <1>3, <2>1, <2>2
<1>9. FormCounts'
  <2>1. ASSUME NEW n
        PROVE  /\ Made(projects, calls', n) \in Nat
               /\ Made(projects, calls', n) <= Made(projects, calls, n)
    <3>1. /\ Cardinality(Inserting(calls', n)) \in Nat
          /\ Cardinality(Inserting(calls, n)) \in Nat
          /\ Cardinality(Inserting(calls', n)) <= Cardinality(Inserting(calls, n))
      BY <1>1, <1>2, InsertingFinite
    <3>2. Cardinality(RowsOf(projects, n)) \in Nat
      BY <1>1, RowsFinite
    <3> QED
      BY <3>1, <3>2 DEF Made
  <2>2. ASSUME NEW n, NEW m \in Nat, Made(projects, calls, n) <= m
        PROVE  Made(projects, calls', n) <= m
    <3> DEFINE a == Made(projects, calls, n)
               b == Made(projects, calls', n)
    <3>1. a \in Nat /\ b \in Nat /\ b <= a /\ a <= m
      BY <1>1, <2>1, <2>2
    <3> HIDE DEF a, b
    <3>2. b <= m
      BY <3>1
    <3> QED
      BY <3>2 DEF b
  <2>3. ASSUME NEW n, NEW m \in Nat, Made(projects, calls, n) <= m,
               NEW l \in Nat, m <= l
        PROVE  Made(projects, calls', n) <= l
    <3>1. Made(projects, calls', n) <= m
      BY <2>2, <2>3
    <3> QED
      BY <2>1, <2>3, <3>1
  <2>4. ASSUME NEW n \in 1 .. FormActs
        PROVE  Made(projects, calls', n) <= 1 + failures'
    <3>1. Made(projects, calls, n) <= 1 + failures
      BY <1>1 DEF FormCounts
    <3> DEFINE a == failures
               b == failures'
    <3>3. a \in Nat /\ b \in Nat /\ a <= b
      BY <1>1
    <3> HIDE DEF a, b
    <3>4. 1 + a \in Nat /\ 1 + b \in Nat /\ 1 + a <= 1 + b
      BY <3>3
    <3>2. 1 + failures \in Nat /\ 1 + failures' \in Nat /\ 1 + failures <= 1 + failures'
      BY <3>4 DEF a, b
    <3> QED
      BY <2>3, <3>1, <3>2
  <2>5. ASSUME f.open, f.pending = NoProject, ~Sending(calls', f.number)
        PROVE  Made(projects, calls', f.number) <= failures'
    <3>1. form.open /\ form.pending = NoProject
      BY <2>5
    <3>2. CASE Sends(calls[i], form.number)
      <4>1. form.number \in 1 .. FormActs
        BY <1>1, <3>1 DEF FormKnows, FormStates
      <4>2. Made(projects, calls, form.number) <= 1 + failures
        BY <1>1, <4>1 DEF FormCounts
      <4>3. 1 + failures \in Nat /\ 1 + failures = failures'
        BY <1>1, <3>2
      <4> QED
        BY <2>2, <4>2, <4>3
    <3>3. CASE ~Sends(calls[i], form.number)
      <4>1. ~Sending(calls, form.number)
        BY <1>2, <2>5, <3>3
      <4>2. Made(projects, calls, form.number) <= failures
        BY <1>1, <3>1, <4>1 DEF FormCounts, CanBeSent
      <4> QED
        BY <1>1, <2>3, <4>2
    <3> QED
      BY <3>2, <3>3
  <2> QED
    BY <2>4, <2>5 DEF FormCounts, CanBeSent
<1> QED
  BY <1>4, <1>5, <1>6, <1>7, <1>8, <1>9 DEF FormInv, FormLive

\* A request of a submission has ended well: the list is loaded again.
LEMMA FormListsAgain ==
  ASSUME FormInv, route = "projects", NEW i \in DOMAIN calls, Chain(calls[i]),
         NEW f \in FormStates, form' = f,
         NEW after \in {"create", "upload"}, NEW id \in Ids,
         calls' = Append(Without(i), ListProjects(after, id)),
         UNCHANGED <<route, projects, failures>>, ClientOK',
         f.number = form.number, f.acts = form.acts, f.open = form.open,
         f.creating = form.creating,
         f.told \subseteq DOMAIN projects,
         f.notice = "completed" => form.notice = "completed" /\ f.done = form.done,
         f.pending # NoProject =>
           f.pending \in DOMAIN projects /\ projects[f.pending].layout,
         f.pending = NoProject =>
           form.pending = NoProject /\ ~Sends(calls[i], form.number),
         after = "upload" => id \in DOMAIN projects /\ projects[id].source
  PROVE  FormInv'
<1> DEFINE c == ListProjects(after, id)
           w == Without(i)
<1>1. /\ FormOK /\ AllKnow(calls, projects, form.number) /\ FormKnows /\ FormBusy
      /\ FormCounts /\ SlugsDiffer /\ FormLists /\ ClientOK
      /\ calls \in Seq(FormCallSet) /\ failures \in Nat /\ form \in FormStates
      /\ form.number \in Nat /\ projects \in Seq(TableRows)
      /\ \A n : Made(projects, calls, n) \in Nat
  BY FormFacts DEF FormLive
<1>2. /\ c \in FormCallSet /\ c.op = "projects" /\ c.res = Waiting /\ ~c.late
      /\ c.arg.after = after /\ c.arg.id = id
  <2>1. /\ c = [op |-> "projects", arg |-> [after |-> after, id |-> id],
                token |-> token, res |-> Waiting, late |-> FALSE]
        /\ token \in 0 .. MaxToken
    BY <1>1 DEF ListProjects, Call, ClientOK
  <2>2. [after |-> after, id |-> id] \in
          [after : {"none", "create", "upload"}, id : Ids \cup {NoProject}]
    OBVIOUS
  <2> HIDE DEF c
  <2>3. c \in ListCalls
    BY <2>1, <2>2 DEF ListCalls
  <2> QED
    BY <2>1, <2>3 DEF FormCallSet
<1>3. /\ w \in Seq(FormCallSet)
      /\ OneChain(w) /\ ~HasChain(w)
      /\ AllKnow(w, projects, form.number)
      /\ \A n : Sending(calls, n) /\ ~Sends(calls[i], n) => Sending(w, n)
      /\ \A n : Cardinality(Inserting(w, n)) <= Cardinality(Inserting(calls, n))
      /\ LateFirst(w, "projects")
  BY <1>1, FormRemoved, FormHoldsLate, ListRemoved DEF FormBusy, FormLists
<1>4. calls' = Append(w, c)
  OBVIOUS
<1> HIDE DEF c, w
<1>5. Chain(c) /\ Knows(c, projects, form.number)
  BY <1>2 DEF Chain, Knows
<1>6. /\ calls' \in Seq(FormCallSet) /\ OneChain(calls') /\ HasChain(calls')
      /\ AllKnow(calls', projects, form.number)
      /\ \A n : Sending(calls', n) <=> Sending(w, n) \/ Sends(c, n)
      /\ \A n : ~InsertsFor(c, n) =>
           Cardinality(Inserting(calls', n)) = Cardinality(Inserting(w, n))
  BY <1>2, <1>3, <1>4, <1>5, FormAdded
<1>7. /\ Listing(calls', "projects") /\ LateFirst(calls', "projects")
      /\ ~AllLate(calls', "projects")
      /\ \A results : Waiting \in results => Fresh(calls', "projects", results)
  BY <1>2, <1>3, <1>4, ListAdded
<1>8. FormOK' /\ SlugsDiffer'
  BY <1>1, <1>6 DEF FormOK, SlugsDiffer
<1>9. FormKnows'
  BY <1>1 DEF FormKnows
<1>10. FormBusy'
  <2>1. HasChain(calls)
    BY DEF HasChain
  <2> QED
    BY <1>1, <1>6, <1>7, <2>1 DEF FormBusy
<1>11. FormLists'
  <2>1. Waiting \in Telling'
    BY DEF Telling
  <2> QED
    BY <1>7, <2>1 DEF FormLists
<1>12. FormCounts'
  <2>1. ASSUME NEW n, NEW m \in Nat, Made(projects, calls, n) <= m
        PROVE  Made(projects, calls', n) <= m
    <3>1. ~InsertsFor(c, n)
      BY <1>2 DEF InsertsFor
    <3>2. /\ Cardinality(Inserting(w, n)) \in Nat
          /\ Cardinality(Inserting(calls, n)) \in Nat
          /\ Cardinality(Inserting(w, n)) <= Cardinality(Inserting(calls, n))
          /\ Cardinality(Inserting(calls', n)) = Cardinality(Inserting(w, n))
      BY <1>1, <1>3, <1>6, <3>1, InsertingFinite
    <3>3. Cardinality(RowsOf(projects, n)) \in Nat
      BY <1>1, RowsFinite
    <3> QED
      BY <2>1, <3>2, <3>3 DEF Made
  <2>2. \A n \in 1 .. FormActs : Made(projects, calls', n) <= 1 + failures
    BY <1>1, <2>1 DEF FormCounts
  <2>3. ASSUME f.open, f.pending = NoProject, ~Sending(calls', f.number)
        PROVE  Made(projects, calls', f.number) <= failures
    <3>1. form.open /\ form.pending = NoProject /\ ~Sending(calls, form.number)
      BY <1>3, <1>6, <2>3
    <3>2. Made(projects, calls, form.number) <= failures
      BY <1>1, <3>1 DEF FormCounts, CanBeSent
    <3> QED
      BY <1>1, <2>1, <3>2
  <2> QED
    BY <2>2, <2>3 DEF FormCounts, CanBeSent
<1> QED
  BY <1>6, <1>8, <1>9, <1>10, <1>11, <1>12 DEF FormInv, FormLive

\* A form that was not opened has made nothing.
LEMMA UnopenedForm ==
  ASSUME FormInv, route = "projects", NEW n \in Nat, n > form.number
  PROVE  Made(projects, calls, n) = 0
<1>1. /\ AllKnow(calls, projects, form.number) /\ FormKnows
      /\ form.number \in Nat /\ projects \in Seq(TableRows)
  BY FormFacts DEF FormLive
<1>2. RowsOf(projects, n) = {}
  <2>1. \A id \in DOMAIN projects : projects[id].form <= form.number
    BY <1>1 DEF FormKnows
  <2>2. ASSUME NEW id \in DOMAIN projects  PROVE projects[id].form # n
    BY <1>1, <2>1
  <2> QED
    BY <2>2 DEF RowsOf
<1>3. Inserting(calls, n) = {}
  <2>1. ASSUME NEW j \in DOMAIN calls, InsertsFor(calls[j], n)  PROVE FALSE
    <3>1. calls[j].arg.form <= form.number /\ calls[j].arg.form = n
      BY <1>1, <2>1 DEF AllKnow, Knows, InsertsFor
    <3> QED
      BY <1>1, <3>1
  <2> QED
    BY <2>1 DEF Inserting
<1> QED
  BY <1>2, <1>3, FS_EmptySet DEF Made

\* A render asks for the list when the session is not the one it is of.
LEMMA ProjectsRenderInv ==
  ASSUME FormInv, route = "projects", ProjectsRender
  PROVE  FormInv'
<1>1. /\ ClientOK /\ FormLive /\ form \in FormStates /\ calls \in Seq(FormCallSet)
      /\ form.number \in Nat /\ form.acts \in Nat /\ form.creating \in BOOLEAN
  BY FormFacts
<1>2. UNCHANGED <<route, token, good, failures, projects>>
  BY DEF ProjectsRender
<1>3. ClientOK' /\ token \in 0 .. MaxToken
  BY <1>1, <1>2 DEF ClientOK
<1>4. CASE form.seen = token
  <2>1. UNCHANGED <<form, calls>>
    BY <1>4 DEF ProjectsRender
  <2> QED
    BY <1>1, <1>2, <1>3, <2>1
       DEF FormInv, FormLive, FormOK, FormKnows, FormBusy, FormCounts, CanBeSent,
           SlugsDiffer, FormLists, Telling
<1>5. CASE form.seen # token
  <2> DEFINE c == ListProjects("none", NoProject)
             f == [ListingProjects(form) EXCEPT !.seen = token]
  <2>1. form' = f /\ calls' = Append(calls, c)
    BY <1>5 DEF ProjectsRender
  <2>2. /\ c \in FormCallSet /\ c.op = "projects" /\ c.res = Waiting /\ ~c.late
        /\ c.arg.after = "none"
    <3>1. c = [op |-> "projects", arg |-> [after |-> "none", id |-> NoProject],
               token |-> token, res |-> Waiting, late |-> FALSE]
      BY DEF ListProjects, Call
    <3>2. [after |-> "none", id |-> NoProject] \in
            [after : {"none", "create", "upload"}, id : Ids \cup {NoProject}]
      OBVIOUS
    <3> HIDE DEF c
    <3>3. c \in ListCalls
      BY <1>3, <3>1, <3>2 DEF ListCalls
    <3> QED
      BY <3>1, <3>3 DEF FormCallSet
  <2>3. /\ f \in FormStates /\ f.listed = form.listed /\ f.told = form.told
        /\ f.gap = form.gap /\ f.open = form.open /\ f.number = form.number
        /\ f.pending = form.pending /\ f.acts = form.acts
        /\ f.notice = form.notice /\ f.done = form.done
        /\ f.creating = form.creating
    BY <1>1, <1>3 DEF FormStates, ListingProjects
  <2>4. ~Chain(c) /\ Knows(c, projects, form.number)
    BY <2>2 DEF Chain, Knows
  <2> HIDE DEF c, f
  <2> QED
    BY <1>1, <1>2, <1>3, <2>1, <2>2, <2>3, <2>4, FormSendsInv
<1> QED
  BY <1>4, <1>5

\* The reader opens, closes and fills in the form, or sends it.
LEMMA ProjectsReaderInv ==
  ASSUME FormInv, route = "projects", ProjectsReader
  PROVE  FormInv'
<1>1. /\ ClientOK /\ FormLive /\ form \in FormStates /\ calls \in Seq(FormCallSet)
      /\ form.number \in Nat /\ form.acts \in Nat /\ form.creating \in BOOLEAN
      /\ FormKnows /\ FormCounts /\ failures \in Nat
  BY FormFacts DEF FormLive
<1>2. /\ UNCHANGED <<route, token, good, failures, projects>>
      /\ form.acts < FormActs
  BY DEF ProjectsReader, HandleOpenCreatePanel, HandleCloseCreatePanel, ChooseSource,
         SubmitProject, SubmitSource, SubmitNothing, Does
<1>3. ClientOK'
  BY <1>1, <1>2 DEF ClientOK
<1>4. /\ form.acts + 1 \in 0 .. FormActs /\ form.number <= form.acts
      /\ form.number + 1 \in 0 .. FormActs /\ form.number + 1 > form.number
      /\ form.number <= form.acts + 1
  <2>1. form.number <= form.acts
    BY <1>1 DEF FormKnows
  <2> QED
    BY <1>1, <1>2, <2>1, ProjectsAssumption
<1>5. CASE HandleOpenCreatePanel
  <2> DEFINE f == [[Reset(form) EXCEPT !.notice = "none", !.open = TRUE, !.number = @ + 1]
                     EXCEPT !.acts = @ + 1]
  <2>1. form' = f /\ calls' = calls
    BY <1>5 DEF HandleOpenCreatePanel, Does
  <2>2. /\ f \in FormStates /\ f.listed = form.listed /\ f.told = form.told
        /\ f.gap = form.gap /\ f.error = form.error /\ f.loading = form.loading
        /\ f.creating = form.creating /\ f.number = form.number + 1
        /\ f.acts = form.acts + 1 /\ f.pending = NoProject /\ f.notice = "none"
    BY <1>1, <1>4 DEF FormStates, Reset
  <2>3. /\ f.number \in Nat /\ form.number <= f.number /\ f.number <= f.acts
        /\ f.number > 0 /\ f.number > form.number
    BY <1>1, <1>4, <2>2
  <2>4. Made(projects, calls, f.number) <= failures
    <3>1. Made(projects, calls, f.number) = 0
      BY <2>3, UnopenedForm
    <3> QED
      BY <1>1, <3>1
  <2> HIDE DEF f
  <2> QED
    BY <1>2, <1>3, <2>1, <2>2, <2>3, <2>4, FormChangesInv
<1>6. CASE HandleCloseCreatePanel
  <2> DEFINE f == [[Reset(form) EXCEPT !.open = FALSE] EXCEPT !.acts = @ + 1]
  <2>1. form' = f /\ calls' = calls
    BY <1>6 DEF HandleCloseCreatePanel, Does
  <2>2. /\ f \in FormStates /\ f.listed = form.listed /\ f.told = form.told
        /\ f.gap = form.gap /\ f.error = form.error /\ f.loading = form.loading
        /\ f.creating = form.creating /\ f.number = form.number
        /\ f.acts = form.acts + 1 /\ f.pending = NoProject /\ f.notice = form.notice
        /\ f.done = form.done /\ ~f.open
    BY <1>1, <1>4 DEF FormStates, Reset
  <2> HIDE DEF f
  <2>3. form.number <= f.number /\ f.number <= f.acts
    BY <1>1, <1>4, <2>2
  <2> QED
    BY <1>2, <1>3, <2>1, <2>2, <2>3, FormChangesInv
<1>7. CASE ChooseSource \/ SubmitNothing
  <2> DEFINE f == IF ChooseSource THEN [[form EXCEPT !.chosen = TRUE] EXCEPT !.acts = @ + 1]
                  ELSE [[form EXCEPT !.failed = TRUE, !.notice = "none"] EXCEPT !.acts = @ + 1]
  <2>1. form' = f /\ calls' = calls /\ form.pending # NoProject
    BY <1>7 DEF ChooseSource, SubmitNothing, Does
  <2>2. /\ f \in FormStates /\ f.listed = form.listed /\ f.told = form.told
        /\ f.gap = form.gap /\ f.error = form.error /\ f.loading = form.loading
        /\ f.creating = form.creating /\ f.number = form.number
        /\ f.acts = form.acts + 1 /\ f.pending = form.pending
        /\ f.notice \in {form.notice, "none"}
        /\ f.done = form.done /\ f.open = form.open
    <3>1. CASE ChooseSource
      BY <1>1, <1>4, <3>1 DEF FormStates
    <3>2. CASE ~ChooseSource
      BY <1>1, <1>4, <3>2 DEF FormStates
    <3> QED
      BY <3>1, <3>2
  <2> HIDE DEF f
  <2>3. /\ form.number <= f.number /\ f.number <= f.acts
        /\ f.open => f.number > 0
    BY <1>1, <1>4, <2>2 DEF FormKnows
  <2> QED
    BY <1>2, <1>3, <2>1, <2>2, <2>3, FormChangesInv
<1>8. CASE SubmitProject \/ SubmitSource
  <2> DEFINE f == [Submitted EXCEPT !.acts = @ + 1]
             c == IF SubmitProject THEN CreateCall ELSE UploadCall
  <2>1. /\ form' = f /\ calls' = Append(calls, c) /\ form.open /\ ~form.creating
        /\ IF SubmitProject THEN form.pending = NoProject ELSE form.pending # NoProject
    BY <1>8 DEF SubmitProject, SubmitSource, Submits, Does
  <2>2. /\ f \in FormStates /\ f.listed = form.listed /\ f.told = form.told
        /\ f.gap = form.gap /\ f.error = form.error /\ f.loading = form.loading
        /\ f.creating /\ f.number = form.number
        /\ f.acts = form.acts + 1 /\ f.pending = form.pending
        /\ f.notice = "none" /\ f.open = form.open
    BY <1>1, <1>4 DEF FormStates, Submitted
  <2>3. /\ c \in FormCallSet /\ Chain(c) /\ c.res = Waiting /\ ~c.late
        /\ c.op \in {"create", "upload"} /\ Knows(c, projects, form.number)
        /\ c.op = "create" => form.pending = NoProject /\ c.arg.form = form.number
    <3>1. CASE SubmitProject
      <4>1. /\ c = [op |-> "create", arg |-> [form |-> form.number], token |-> token,
                    res |-> Waiting, late |-> FALSE]
            /\ token \in 0 .. MaxToken
        BY <1>1, <3>1 DEF CreateCall, Call, ClientOK
      <4>2. [form |-> form.number] \in [form : 1 .. FormActs]
        <5>1. form.number \in 1 .. FormActs
          BY <1>1, <2>1 DEF FormKnows, FormStates
        <5> QED
          BY <5>1
      <4>3. form.pending = NoProject
        BY <2>1, <3>1
      <4> HIDE DEF c
      <4>4. c \in CreateCalls
        BY <4>1, <4>2 DEF CreateCalls
      <4> QED
        BY <1>1, <4>1, <4>3, <4>4 DEF FormCallSet, Chain, Knows, Waiting
    <3>2. CASE ~SubmitProject
      <4>1. /\ c = [op |-> "upload", arg |-> [id |-> form.pending], token |-> token,
                    res |-> Waiting, late |-> FALSE]
            /\ token \in 0 .. MaxToken
        BY <1>1, <3>2 DEF UploadCall, Call, ClientOK
      <4>2. [id |-> form.pending] \in [id : Ids]
        <5>1. form.pending \in Ids
          BY <1>1, <2>1, <3>2 DEF FormStates
        <5> QED
          BY <5>1
      <4>3. form.pending \in DOMAIN projects /\ projects[form.pending].layout
        BY <1>1, <2>1, <3>2 DEF FormKnows
      <4> HIDE DEF c
      <4>4. c \in UploadCalls
        BY <4>1, <4>2 DEF UploadCalls
      <4> QED
        BY <4>1, <4>3, <4>4 DEF FormCallSet, Chain, Knows, Waiting
    <3> QED
      BY <3>1, <3>2
  <2> HIDE DEF f, c
  <2>4. form.acts <= f.acts
    BY <1>1, <2>2
  <2> QED
    BY <1>1, <1>2, <1>3, <2>1, <2>2, <2>3, <2>4, FormSendsInv
<1> QED
  BY <1>5, <1>6, <1>7, <1>8 DEF ProjectsReader

\* The API does a part of what a request asks for, and leaves the table alone.
LEMMA FormServesInv ==
  ASSUME FormInv, route = "projects", NEW i \in DOMAIN calls, NEW c \in FormCallSet,
         calls' = [calls EXCEPT ![i] = c],
         c.op = calls[i].op, c.arg = calls[i].arg, c.late = calls[i].late,
         UNCHANGED <<route, form, projects>>, ClientOK',
         failures' \in Nat, failures <= failures',
         Knows(c, projects, form.number),
         c.op = "projects" => c.res = calls[i].res \/ c.res = Ok(DOMAIN projects),
         \A n : InsertsFor(c, n) => InsertsFor(calls[i], n),
         \/ \A n : Sends(calls[i], n) => Sends(c, n)
         \/ \A n : Sends(calls[i], n) => InsertsFor(calls[i], n) /\ ~InsertsFor(c, n)
         \/ failures' = failures + 1
  PROVE  FormInv'
<1>1. /\ FormOK /\ FormKnows /\ FormCounts /\ SlugsDiffer
      /\ calls \in Seq(FormCallSet) /\ failures \in Nat
      /\ form.number \in Nat /\ projects \in Seq(TableRows)
      /\ Len(projects) <= MaxProjects
      /\ \A n : Made(projects, calls, n) \in Nat
  BY FormFacts DEF FormLive
<1>2. Chain(c) => Chain(calls[i])
  BY DEF Chain
<1>3. /\ calls' \in Seq(FormCallSet)
      /\ \A n : Cardinality(Inserting(calls', n)) <= Cardinality(Inserting(calls, n))
      /\ \A n : InsertsFor(calls[i], n) /\ ~InsertsFor(c, n) =>
           Cardinality(Inserting(calls', n)) + 1 = Cardinality(Inserting(calls, n))
  <2> DEFINE d == [calls EXCEPT ![i] = c]
  <2>1. /\ d \in Seq(FormCallSet)
        /\ \A n : (InsertsFor(c, n) => InsertsFor(calls[i], n)) =>
             Cardinality(Inserting(d, n)) <= Cardinality(Inserting(calls, n))
        /\ \A n : InsertsFor(calls[i], n) /\ ~InsertsFor(c, n) =>
             Cardinality(Inserting(d, n)) + 1 = Cardinality(Inserting(calls, n))
    BY <1>1, <1>2, FormServed, Zenon
  <2>2. calls' = d
    OBVIOUS
  <2> HIDE DEF d
  <2> QED
    BY <2>1, <2>2
<1>4. ASSUME NEW n
      PROVE  /\ Made(projects, calls', n) \in Nat
             /\ Made(projects, calls', n) <= Made(projects, calls, n)
             /\ InsertsFor(calls[i], n) /\ ~InsertsFor(c, n) =>
                  Made(projects, calls', n) + 1 = Made(projects, calls, n)
  <2>1. /\ Cardinality(Inserting(calls', n)) \in Nat
        /\ Cardinality(Inserting(calls, n)) \in Nat
        /\ Cardinality(Inserting(calls', n)) <= Cardinality(Inserting(calls, n))
        /\ InsertsFor(calls[i], n) /\ ~InsertsFor(c, n) =>
             Cardinality(Inserting(calls', n)) + 1 = Cardinality(Inserting(calls, n))
    BY <1>1, <1>3, InsertingFinite
  <2>2. Cardinality(RowsOf(projects, n)) \in Nat
    BY <1>1, RowsFinite
  <2> QED
    BY <2>1, <2>2 DEF Made
<1>5. ASSUME Sends(calls[i], form.number)
      PROVE  Sends(c, form.number) \/ Made(projects, calls', form.number) <= failures'
  <2> DEFINE a == Made(projects, calls, form.number)
             b == Made(projects, calls', form.number)
             g == failures
             h == failures'
  <2>1. calls[i].arg.form = form.number /\ calls[i] \in CreateCalls
    <3>1. calls[i] \in FormCallSet
      BY <1>1, LenProperties, ElementOfSeq
    <3> QED
      BY <1>5, <3>1, FormCallFacts DEF Sends
  <2>2. form.number \in 1 .. FormActs
    BY <2>1 DEF CreateCalls
  <2>3. a <= 1 + g
    BY <1>1, <2>2 DEF FormCounts
  <2>4. a \in Nat /\ b \in Nat /\ b <= a /\ g \in Nat /\ h \in Nat /\ g <= h
    BY <1>1, <1>4
  <2>5. CASE \A n : Sends(calls[i], n) => Sends(c, n)
    BY <1>5, <2>5
  <2>6. CASE \A n : Sends(calls[i], n) => InsertsFor(calls[i], n) /\ ~InsertsFor(c, n)
    <3>1. b + 1 = a
      BY <1>4, <1>5, <2>6
    <3> HIDE DEF a, b, g, h
    <3>2. b <= h
      BY <2>3, <2>4, <3>1
    <3> QED
      BY <3>2 DEF b, h
  <2>7. CASE failures' = failures + 1
    <3>1. h = g + 1
      BY <2>7
    <3> HIDE DEF a, b, g, h
    <3>2. b <= h
      BY <2>3, <2>4, <3>1
    <3> QED
      BY <3>2 DEF b, h
  <2> QED
    BY <2>5, <2>6, <2>7
<1>6. SlugsDiffer' /\ Grows(projects, projects')
  BY <1>1, GrowsNot DEF SlugsDiffer
<1>7. \A id \in DOMAIN projects' : projects'[id].form <= form.number
  BY <1>1 DEF FormKnows
<1>8. \A n \in 1 .. FormActs : Made(projects', calls', n) <= Made(projects, calls, n)
  BY <1>4
<1> QED
  BY <1>1, <1>5, <1>6, <1>7, <1>8, FormApiInv

\* A row of the table gets its directories, or its source.
SameRows(rows, more) ==
  /\ more \in Seq(TableRows) /\ Len(more) = Len(rows)
  /\ DOMAIN more = DOMAIN rows /\ Grows(rows, more)
  /\ \A n \in DOMAIN rows : more[n].slug = rows[n].slug /\ more[n].form = rows[n].form
  /\ \A n : RowsOf(more, n) = RowsOf(rows, n)

\* Setting a flag of a row changes neither slugs nor forms, and keeps what was reported.
LEMMA RowSet ==
  ASSUME NEW rows \in Seq(TableRows), NEW id \in DOMAIN rows, NEW row \in TableRows,
         row.slug = rows[id].slug, row.form = rows[id].form,
         rows[id].layout => row.layout, rows[id].source => row.source
  PROVE  /\ SameRows(rows, [rows EXCEPT ![id] = row])
         /\ [rows EXCEPT ![id] = row][id] = row
<1> DEFINE more == [rows EXCEPT ![id] = row]
<1>1. /\ more \in Seq(TableRows) /\ Len(more) = Len(rows)
      /\ DOMAIN more = DOMAIN rows
      /\ \A n \in DOMAIN rows : more[n] = IF n = id THEN row ELSE rows[n]
  <2>1. id \in 1 .. Len(rows)
    BY LenProperties
  <2> QED
    BY <2>1, ExceptSeq, LenProperties
<1> HIDE DEF more
<1>2. \A n \in DOMAIN rows : more[n].slug = rows[n].slug /\ more[n].form = rows[n].form
  BY <1>1
<1>3. Grows(rows, more)
  BY <1>1 DEF Grows
<1>4. \A n : RowsOf(more, n) = RowsOf(rows, n)
  BY <1>1, <1>2 DEF RowsOf
<1> QED
  BY <1>1, <1>2, <1>3, <1>4 DEF more, SameRows

\* The same, with the request that the API did it for.
LEMMA FormSetsInv ==
  ASSUME FormInv, route = "projects", NEW i \in DOMAIN calls, NEW c \in FormCallSet,
         calls' = [calls EXCEPT ![i] = c],
         c.op = calls[i].op, c.arg = calls[i].arg, c.late = calls[i].late,
         c.op # "projects", UNCHANGED <<route, form, failures>>, ClientOK',
         NEW id \in DOMAIN projects, NEW row \in TableRows,
         projects' = [projects EXCEPT ![id] = row],
         row.slug = projects[id].slug, row.form = projects[id].form,
         projects[id].layout => row.layout, projects[id].source => row.source,
         Knows(c, projects', form.number),
         \A n : InsertsFor(c, n) => InsertsFor(calls[i], n),
         \A n : Sends(calls[i], n) => Sends(c, n)
  PROVE  FormInv'
<1>1. /\ FormOK /\ FormKnows /\ FormCounts /\ SlugsDiffer
      /\ calls \in Seq(FormCallSet) /\ failures \in Nat
      /\ form.number \in Nat /\ projects \in Seq(TableRows)
      /\ Len(projects) <= MaxProjects
      /\ \A n : Made(projects, calls, n) \in Nat
  BY FormFacts DEF FormLive
<1>2. /\ projects' \in Seq(TableRows) /\ Len(projects') = Len(projects)
      /\ Grows(projects, projects') /\ DOMAIN projects' = DOMAIN projects
      /\ \A n \in DOMAIN projects : /\ projects'[n].slug = projects[n].slug
                                    /\ projects'[n].form = projects[n].form
      /\ \A n : RowsOf(projects', n) = RowsOf(projects, n)
  <2>1. SameRows(projects, [projects EXCEPT ![id] = row])
    BY <1>1, RowSet
  <2>2. SameRows(projects, projects')
    BY <2>1
  <2> QED
    BY <2>2 DEF SameRows
<1>3. Chain(c) => Chain(calls[i])
  BY DEF Chain
<1>4. /\ calls' \in Seq(FormCallSet)
      /\ \A n : Cardinality(Inserting(calls', n)) <= Cardinality(Inserting(calls, n))
  BY <1>1, <1>3, FormServed
<1>5. ASSUME NEW n  PROVE Made(projects', calls', n) <= Made(projects, calls, n)
  <2>1. /\ Cardinality(Inserting(calls', n)) \in Nat
        /\ Cardinality(Inserting(calls, n)) \in Nat
        /\ Cardinality(Inserting(calls', n)) <= Cardinality(Inserting(calls, n))
    BY <1>1, <1>4, InsertingFinite
  <2>2. Cardinality(RowsOf(projects, n)) \in Nat
    BY <1>1, RowsFinite
  <2>3. Made(projects, calls', n) <= Made(projects, calls, n)
    BY <2>1, <2>2 DEF Made
  <2>4. Made(projects', calls', n) = Made(projects, calls', n)
    BY <1>2 DEF Made
  <2> QED
    BY <2>3, <2>4
<1>6. SlugsDiffer'
  BY <1>1, <1>2 DEF SlugsDiffer
<1>7. \A n \in DOMAIN projects' : projects'[n].form <= form.number
  BY <1>1, <1>2 DEF FormKnows
<1>8. failures' \in Nat /\ failures <= failures' /\ Len(projects') <= MaxProjects
  BY <1>1, <1>2
<1>9. Sends(calls[i], form.number) => Sends(c, form.number)
  OBVIOUS
<1> QED
  BY <1>2, <1>5, <1>6, <1>7, <1>8, <1>9, FormApiInv
\* What the API does for the requests of the page, but for the row itself.
LEMMA ProjectsApiInv ==
  ASSUME FormInv, route = "projects", NEW i \in DOMAIN calls,
         \/ CreateProject(i) \/ GenerateUniqueProjectSlug(i) \/ EnsureLayout(i)
         \/ Upload(i) \/ ReadProjects(i)
  PROVE  FormInv'
<1>1. /\ ClientOK /\ FormOK /\ AllKnow(calls, projects, form.number)
      /\ failures \in Nat /\ calls \in Seq(FormCallSet)
      /\ projects \in Seq(TableRows) /\ Len(projects) <= MaxProjects
  BY FormFacts DEF FormLive
<1>2. calls[i] \in FormCallSet /\ Knows(calls[i], projects, form.number)
  BY <1>1, LenProperties, ElementOfSeq DEF AllKnow
<1>3. /\ DOMAIN projects \in SUBSET Ids
      /\ \A id \in DOMAIN projects : id \in Nat /\ projects[id] \in TableRows
  <2>1. /\ DOMAIN projects = 1 .. Len(projects) /\ Len(projects) \in Nat
        /\ \A id \in DOMAIN projects : projects[id] \in TableRows
    BY <1>1, LenProperties, ElementOfSeq
  <2> QED
    BY <1>1, <2>1, ProjectsAssumption DEF Ids
<1>4. CASE CreateProject(i) \/ GenerateUniqueProjectSlug(i)
  <2>1. PICK at \in {"slug", "insert"}, n \in Nat :
          /\ calls' = [calls EXCEPT ![i].res = [st |-> "read", at |-> at, n |-> n]]
          /\ calls[i].op \in {"create", "orphan"}
          /\ \/ calls[i].res.st = "waiting"
             \/ calls[i].res.st = "read" /\ calls[i].res.at = "slug"
          /\ UNCHANGED <<route, token, good, form, projects, failures>>
    <3>1. CASE CreateProject(i)
      BY <3>1 DEF CreateProject, Read, Served, Reaches, Answered, FormWaits
    <3>2. CASE GenerateUniqueProjectSlug(i)
      <4>1. calls[i] \in CreateCalls /\ calls[i].res.st = "read"
        BY <1>2, <3>2, FormCallFacts DEF GenerateUniqueProjectSlug, At
      <4>2. calls[i].res.n \in Nat
        BY <4>1 DEF CreateCalls, Waiting, Ok, Working
      <4>3. calls[i].res.n + 1 \in Nat
        BY <4>2
      <4> QED
        BY <3>2, <4>1, <4>2, <4>3
           DEF GenerateUniqueProjectSlug, At, Reaches, Answered, FormWaits
    <3> QED
      BY <1>4, <3>1, <3>2
  <2> DEFINE r == [st |-> "read", at |-> at, n |-> n]
             c == [calls[i] EXCEPT !.res = r]
  <2>2. calls[i] \in CreateCalls /\ r \in Working
    BY <1>2, <2>1, FormCallFacts DEF Working
  <2>3. /\ calls' = [calls EXCEPT ![i] = c]
        /\ c \in CreateCalls /\ c.op = calls[i].op /\ c.arg = calls[i].arg
        /\ c.late = calls[i].late /\ c.res = r
    <3>1. calls' = [calls EXCEPT ![i].res = r]
      BY <2>1
    <3> HIDE DEF r
    <3> QED
      BY <2>2, <3>1 DEF CreateCalls
  <2>4. /\ c.res.st = "read" /\ c.res.at \in {"slug", "insert"} /\ c.res # Ok(NoProject)
        /\ c.op \in {"create", "orphan"} /\ c \in FormCallSet
    BY <2>1, <2>3 DEF Ok, FormCallSet
  <2> HIDE DEF c, r
  <2>5. Knows(c, projects, form.number)
    BY <1>2, <2>3, <2>4 DEF Knows
  <2>6. /\ \A m : InsertsFor(c, m) => InsertsFor(calls[i], m)
        /\ \A m : Sends(calls[i], m) => Sends(c, m)
    BY <2>1, <2>3, <2>4 DEF InsertsFor, Sends
  <2>7. /\ ClientOK' /\ c.op # "projects" /\ failures' \in Nat
        /\ failures <= failures' /\ UNCHANGED <<route, form, projects>>
    BY <1>1, <2>1, <2>4 DEF ClientOK
  <2> QED
    BY <2>3, <2>4, <2>5, <2>6, <2>7, FormServesInv
<1>5. CASE EnsureLayout(i)
  <2>1. /\ calls[i].op \in {"create", "orphan"}
        /\ calls[i].res.st = "read" /\ calls[i].res.at = "layout"
        /\ calls[i] \in CreateCalls
    BY <1>2, <1>5, FormCallFacts DEF EnsureLayout, At
  <2>2. calls[i].res.n \in DOMAIN projects
    BY <1>2, <2>1 DEF Knows
  <2> DEFINE id == calls[i].res.n
             row == [projects[id] EXCEPT !.layout = TRUE]
             v == IF failures' = failures THEN id ELSE NoProject
             c == [calls[i] EXCEPT !.res = Ok(v)]
  <2>3. \/ /\ projects' = [projects EXCEPT ![id] = row] /\ failures' = failures
           /\ calls' = [calls EXCEPT ![i] = c] /\ v = id
        \/ /\ projects' = projects /\ failures' = failures + 1
           /\ failures < MaxFailures
           /\ calls' = [calls EXCEPT ![i] = c] /\ v = NoProject
    BY <1>1, <1>5 DEF EnsureLayout, Answered, Fails
  <2>4. UNCHANGED <<route, token, good, form>>
    BY <1>5 DEF EnsureLayout, FormWaits
  <2>5. /\ row \in TableRows /\ row.slug = projects[id].slug
        /\ row.form = projects[id].form /\ row.layout
        /\ row.source = projects[id].source
    <3>1. projects[id] \in TableRows
      BY <1>3, <2>2
    <3> HIDE DEF id
    <3> QED
      BY <3>1 DEF TableRows
  <2>6. v \in Ids \cup {NoProject} /\ id # NoProject
    <3>1. id \in Ids
      BY <1>3, <2>2
    <3> QED
      BY <3>1, ProjectsAssumption DEF Ids, NoProject
  <2> HIDE DEF v
  <2>7. /\ c \in CreateCalls /\ c.op = calls[i].op /\ c.arg = calls[i].arg
        /\ c.late = calls[i].late /\ c.res = Ok(v)
    BY <2>1, <2>6 DEF CreateCalls
  <2>8. /\ c.res.st = "ok" /\ c.res.value = v /\ c \in FormCallSet
        /\ c.op \in {"create", "orphan"}
    BY <2>1, <2>7 DEF Ok, FormCallSet
  <2>9. \A m : ~InsertsFor(c, m)
    BY <2>8 DEF InsertsFor
  <2>10. ClientOK' /\ failures' \in Nat /\ failures <= failures'
    BY <1>1, <2>3, <2>4, ClientAssumption DEF ClientOK
  <2> HIDE DEF c
  <2>11. c.op # "projects" /\ c.op # "upload"
    BY <2>8
  <2>12. CASE /\ projects' = [projects EXCEPT ![id] = row] /\ failures' = failures
              /\ calls' = [calls EXCEPT ![i] = c] /\ v = id
    <3>1. projects'[id] = row /\ DOMAIN projects' = DOMAIN projects
      BY <1>1, <2>2, <2>5, <2>12, RowSet DEF SameRows
    <3> HIDE DEF id, row
    <3>2. Knows(c, projects', form.number)
      <4>1. c.arg.form <= form.number
        BY <1>2, <2>1, <2>7 DEF Knows
      <4> QED
        BY <2>2, <2>5, <2>8, <2>11, <2>12, <3>1, <4>1 DEF Knows, id
    <3>3. \A m : Sends(calls[i], m) => Sends(c, m)
      BY <2>6, <2>7, <2>8, <2>12 DEF Sends, Ok
    <3>4. id \in DOMAIN projects
      BY <2>2 DEF id
    <3> QED
      BY <2>4, <2>5, <2>7, <2>8, <2>9, <2>10, <2>11, <2>12, <3>2, <3>3, <3>4, FormSetsInv
  <2>13. CASE /\ projects' = projects /\ failures' = failures + 1
              /\ calls' = [calls EXCEPT ![i] = c] /\ v = NoProject
    <3>1. Knows(c, projects, form.number)
      BY <1>2, <2>1, <2>7, <2>8, <2>11, <2>13 DEF Knows
    <3> QED
      BY <2>4, <2>7, <2>8, <2>9, <2>10, <2>11, <2>13, <3>1, FormServesInv
  <2> QED
    BY <2>3, <2>12, <2>13
<1>6. CASE Upload(i)
  <2>1. /\ calls[i].op = "upload" /\ calls[i] \in UploadCalls
        /\ UNCHANGED <<route, token, good, form, failures>>
    BY <1>2, <1>6, FormCallFacts DEF Upload, Read, Served, FormWaits
  <2> DEFINE id == calls[i].arg.id
             row == [[projects[id] EXCEPT !.layout = TRUE] EXCEPT !.source = TRUE]
             c == [calls[i] EXCEPT !.res = Ok(TRUE)]
  <2>2. id \in DOMAIN projects
    BY <1>2, <2>1 DEF Knows
  <2>3. /\ row \in TableRows /\ row.slug = projects[id].slug
        /\ row.form = projects[id].form /\ row.layout /\ row.source
    <3>1. projects[id] \in TableRows
      BY <1>3, <2>2
    <3> HIDE DEF id
    <3> QED
      BY <3>1 DEF TableRows
  <2>4. projects' = [projects EXCEPT ![id] = row]
    <3>1. projects' = [projects EXCEPT ![id].layout = TRUE, ![id].source = TRUE]
      BY <1>6 DEF Upload
    <3> HIDE DEF id
    <3> QED
      BY <2>2, <3>1
  <2>5. /\ calls' = [calls EXCEPT ![i] = c]
        /\ c \in UploadCalls /\ c.op = calls[i].op /\ c.arg = calls[i].arg
        /\ c.late = calls[i].late /\ c.res = Ok(TRUE)
    BY <1>6, <2>1 DEF Upload, Answered, UploadCalls
  <2>6. projects'[id] = row /\ DOMAIN projects' = DOMAIN projects
    BY <1>1, <2>2, <2>3, <2>4, RowSet DEF SameRows
  <2> HIDE DEF row, c
  <2>7. /\ c \in FormCallSet /\ c.op = "upload" /\ c.arg.id = id
        /\ \A m : ~InsertsFor(c, m) /\ ~Sends(calls[i], m)
    BY <2>1, <2>5 DEF FormCallSet, InsertsFor, Sends
  <2> HIDE DEF id
  <2>8. Knows(c, projects', form.number)
    BY <2>2, <2>3, <2>6, <2>7 DEF Knows
  <2>9. ClientOK' /\ c.op # "projects"
    BY <1>1, <2>1, <2>7 DEF ClientOK
  <2> QED
    BY <2>1, <2>2, <2>3, <2>4, <2>5, <2>7, <2>8, <2>9, FormSetsInv
<1>7. CASE ReadProjects(i)
  <2>1. /\ calls[i].op = "projects" /\ calls[i] \in ListCalls
        /\ UNCHANGED <<route, token, good, form, failures, projects>>
    BY <1>2, <1>7, FormCallFacts DEF ReadProjects, Read, Served, FormWaits
  <2> DEFINE c == [calls[i] EXCEPT !.res = Ok(DOMAIN projects)]
  <2>2. /\ calls' = [calls EXCEPT ![i] = c]
        /\ c \in ListCalls /\ c.op = calls[i].op /\ c.arg = calls[i].arg
        /\ c.late = calls[i].late /\ c.res = Ok(DOMAIN projects)
    BY <1>3, <1>7, <2>1 DEF ReadProjects, Answered, ListCalls
  <2> HIDE DEF c
  <2>3. /\ c \in FormCallSet /\ c.op = "projects"
        /\ \A m : ~InsertsFor(c, m) /\ ~Sends(calls[i], m)
    BY <2>1, <2>2 DEF FormCallSet, InsertsFor, Sends
  <2>4. Knows(c, projects, form.number)
    BY <1>2, <2>1, <2>2, <2>3 DEF Knows
  <2>5. ClientOK' /\ failures' \in Nat /\ failures <= failures'
    BY <1>1, <2>1 DEF ClientOK
  <2> QED
    BY <2>1, <2>2, <2>3, <2>4, <2>5, FormServesInv
<1> QED
  BY <1>4, <1>5, <1>6, <1>7
\* A row is added to the table.
HasNewRow(rows, row, more) ==
  /\ more \in Seq(TableRows) /\ Len(more) = Len(rows) + 1 /\ Grows(rows, more)
  /\ \A id \in DOMAIN more : \/ id \in DOMAIN rows /\ more[id] = rows[id]
                             \/ id = Len(rows) + 1 /\ more[id] = row
  /\ Len(rows) + 1 \in DOMAIN more
  /\ \A n : n # row.form => RowsOf(more, n) = RowsOf(rows, n)
  /\ Cardinality(RowsOf(more, row.form)) = Cardinality(RowsOf(rows, row.form)) + 1

\* A row at the end of the table leaves the others as they are.
LEMMA NewRow ==
  ASSUME NEW rows \in Seq(TableRows), NEW row \in TableRows
  PROVE  HasNewRow(rows, row, Append(rows, row))
<1> DEFINE more == Append(rows, row)
           m == Len(rows) + 1
<1>1. /\ more \in Seq(TableRows) /\ Len(rows) \in Nat /\ Len(more) = m
      /\ \A j \in DOMAIN rows : j \in DOMAIN more /\ more[j] = rows[j] /\ j < m
      /\ m \in DOMAIN more /\ more[m] = row
      /\ \A j \in DOMAIN more : j \in DOMAIN rows \/ j = m
  BY CallAdded
<1>2. m \in Nat /\ m \notin DOMAIN rows
  BY <1>1
<1> HIDE DEF more, m
<1>3. Grows(rows, more)
  BY <1>1 DEF Grows
<1>4. \A n : n # row.form => RowsOf(more, n) = RowsOf(rows, n)
  BY <1>1 DEF RowsOf
<1>5. Cardinality(RowsOf(more, row.form)) = Cardinality(RowsOf(rows, row.form)) + 1
  <2>1. RowsOf(more, row.form) = RowsOf(rows, row.form) \cup {m}
    BY <1>1 DEF RowsOf
  <2>2. m \notin RowsOf(rows, row.form)
    BY <1>2 DEF RowsOf
  <2>3. IsFiniteSet(RowsOf(rows, row.form))
    BY RowsFinite
  <2> QED
    BY <2>1, <2>2, <2>3, FS_AddElement
<1>6. \A id \in DOMAIN more : \/ id \in DOMAIN rows /\ more[id] = rows[id]
                              \/ id = m /\ more[id] = row
  BY <1>1
<1> QED
  BY <1>1, <1>3, <1>4, <1>5, <1>6 DEF HasNewRow, more, m

\* The index admits a row with a new slug, for the form whose request it is.
LEMMA InsertInv ==
  ASSUME FormInv, route = "projects", NEW i \in DOMAIN calls, Insert(i)
  PROVE  FormInv'
<1>1. /\ ClientOK /\ FormOK /\ AllKnow(calls, projects, form.number)
      /\ FormKnows /\ SlugsDiffer
      /\ failures \in Nat /\ calls \in Seq(FormCallSet) /\ form.number \in Nat
      /\ projects \in Seq(TableRows) /\ Len(projects) <= MaxProjects
  BY FormFacts DEF FormLive
<1>2. calls[i] \in FormCallSet /\ Knows(calls[i], projects, form.number)
  BY <1>1, LenProperties, ElementOfSeq DEF AllKnow
<1>3. /\ calls[i].op \in {"create", "orphan"} /\ calls[i] \in CreateCalls
      /\ calls[i].res.st = "read" /\ calls[i].res.at = "insert"
      /\ calls[i].res.n \in Nat /\ calls[i].arg.form \in 1 .. FormActs
      /\ Len(projects) < MaxProjects
      /\ UNCHANGED <<route, token, good, form, failures>>
  <2>1. /\ calls[i].op \in {"create", "orphan"} /\ calls[i] \in CreateCalls
        /\ calls[i].res.st = "read" /\ calls[i].res.at = "insert"
        /\ Len(projects) < MaxProjects
        /\ UNCHANGED <<route, token, good, form, failures>>
    BY <1>2, FormCallFacts DEF Insert, At, FormWaits
  <2>2. calls[i].res.n \in Nat /\ calls[i].arg.form \in 1 .. FormActs
    BY <2>1 DEF CreateCalls, Waiting, Ok, Working
  <2> QED
    BY <2>1, <2>2
<1>4. ClientOK' /\ failures' \in Nat /\ failures <= failures'
  BY <1>1, <1>3 DEF ClientOK
<1>5. \A m : InsertsFor(calls[i], m) <=> m = calls[i].arg.form
  BY <1>3 DEF InsertsFor
<1>6. CASE calls[i].res.n \in Slugs
  <2> DEFINE c == [calls[i] EXCEPT !.res = Ok(NoProject)]
  <2>1. /\ calls' = [calls EXCEPT ![i] = c] /\ projects' = projects
        /\ c \in CreateCalls /\ c.op = calls[i].op /\ c.arg = calls[i].arg
        /\ c.late = calls[i].late /\ c.res = Ok(NoProject)
    BY <1>3, <1>6 DEF Insert, Answered, CreateCalls
  <2> HIDE DEF c
  <2>2. /\ c \in FormCallSet /\ c.op \notin {"projects", "upload"}
        /\ c.res.st = "ok" /\ c.res.value = NoProject
    BY <1>3, <2>1 DEF FormCallSet, Ok
  <2>3. \A m : ~InsertsFor(c, m)
    BY <2>2 DEF InsertsFor
  <2>4. \A m : Sends(calls[i], m) => InsertsFor(calls[i], m) /\ ~InsertsFor(c, m)
    BY <1>5, <2>3 DEF Sends
  <2>5. Knows(c, projects, form.number)
    BY <1>2, <1>3, <2>1, <2>2 DEF Knows
  <2> QED
    BY <1>3, <1>4, <2>1, <2>2, <2>3, <2>4, <2>5, FormServesInv
<1>7. CASE calls[i].res.n \notin Slugs
  <2> DEFINE r == [st |-> "read", at |-> "layout", n |-> Len(projects) + 1]
             c == [calls[i] EXCEPT !.res = r]
             row == Row(i)
  <2>1. /\ calls' = [calls EXCEPT ![i].res = r] /\ projects' = Append(projects, row)
    BY <1>7 DEF Insert, Reaches, Answered
  <2>2. /\ row \in TableRows /\ row.slug = calls[i].res.n
        /\ row.form = calls[i].arg.form
    BY <1>3 DEF Row, TableRows
  <2>3. r \in Working /\ r.st = "read" /\ r.at = "layout" /\ r.n = Len(projects) + 1
    <3>1. Len(projects) + 1 \in Nat
      BY <1>1, LenProperties
    <3> QED
      BY <3>1 DEF Working
  <2> HIDE DEF r, row
  <2>4. /\ calls' = [calls EXCEPT ![i] = c]
        /\ c \in CreateCalls /\ c.op = calls[i].op /\ c.arg = calls[i].arg
        /\ c.late = calls[i].late /\ c.res = r
    BY <1>3, <2>1, <2>3 DEF CreateCalls
  <2> HIDE DEF c
  <2>5. /\ c \in FormCallSet /\ c.op \notin {"projects", "upload"}
        /\ c.res # Ok(NoProject) /\ c.res.st # "ok"
    BY <1>3, <2>3, <2>4 DEF FormCallSet, Ok
  <2>6. \A m : ~InsertsFor(c, m)
    BY <2>3, <2>4 DEF InsertsFor
  <2>7. HasNewRow(projects, row, projects')
    BY <1>1, <2>1, <2>2, NewRow
  <2>8. /\ projects' \in Seq(TableRows) /\ Len(projects') <= MaxProjects
        /\ Grows(projects, projects')
    BY <1>1, <1>3, <2>7, LenProperties, ProjectsAssumption DEF HasNewRow
  <2>9. SlugsDiffer'
    <3>1. \A id \in DOMAIN projects : projects[id].slug # row.slug
      BY <1>7, <2>2 DEF Slugs
    <3> QED
      BY <1>1, <2>7, <3>1 DEF SlugsDiffer, HasNewRow
  <2>10. \A id \in DOMAIN projects' : projects'[id].form <= form.number
    <3>1. row.form <= form.number
      BY <1>2, <1>3, <2>2 DEF Knows
    <3> QED
      BY <1>1, <2>7, <3>1 DEF FormKnows, HasNewRow
  <2>11. Knows(c, projects', form.number)
    BY <1>2, <1>3, <2>3, <2>4, <2>5, <2>7 DEF Knows, HasNewRow
  <2>12. ASSUME NEW m  PROVE Made(projects', calls', m) <= Made(projects, calls, m)
    <3>1. /\ calls' \in Seq(FormCallSet)
          /\ Cardinality(Inserting(calls', m)) <= Cardinality(Inserting(calls, m))
          /\ m = calls[i].arg.form =>
               Cardinality(Inserting(calls', m)) + 1 = Cardinality(Inserting(calls, m))
      <4>1. Chain(c) => Chain(calls[i])
        BY <2>4 DEF Chain
      <4> DEFINE d == [calls EXCEPT ![i] = c]
      <4>2. /\ d \in Seq(FormCallSet)
            /\ \A n : (InsertsFor(c, n) => InsertsFor(calls[i], n)) =>
                 Cardinality(Inserting(d, n)) <= Cardinality(Inserting(calls, n))
            /\ \A n : InsertsFor(calls[i], n) /\ ~InsertsFor(c, n) =>
                 Cardinality(Inserting(d, n)) + 1 = Cardinality(Inserting(calls, n))
        BY <1>1, <2>5, <4>1, FormServed, Zenon
      <4>3. calls' = d
        BY <2>4
      <4> HIDE DEF d
      <4> QED
        BY <1>5, <2>6, <4>2, <4>3
    <3>2. /\ Cardinality(Inserting(calls', m)) \in Nat
          /\ Cardinality(Inserting(calls, m)) \in Nat
          /\ Cardinality(RowsOf(projects, m)) \in Nat
          /\ Cardinality(RowsOf(projects', m)) \in Nat
      BY <1>1, <2>8, <3>1, InsertingFinite, RowsFinite
    <3>3. IF m = calls[i].arg.form
          THEN Cardinality(RowsOf(projects', m)) = Cardinality(RowsOf(projects, m)) + 1
          ELSE RowsOf(projects', m) = RowsOf(projects, m)
      BY <2>2, <2>7 DEF HasNewRow
    <3> DEFINE a == Cardinality(Inserting(calls, m))
               b == Cardinality(Inserting(calls', m))
               g == Cardinality(RowsOf(projects, m))
               h == Cardinality(RowsOf(projects', m))
    <3>4. /\ a \in Nat /\ b \in Nat /\ g \in Nat /\ h \in Nat
          /\ b <= a /\ \/ b + 1 = a /\ h = g + 1
                       \/ h = g
      BY <3>1, <3>2, <3>3
    <3> HIDE DEF a, b, g, h
    <3>5. h + b <= g + a
      BY <3>4
    <3> QED
      BY <3>5 DEF a, b, g, h, Made
  <2>13. Sends(calls[i], form.number) => Sends(c, form.number)
    BY <2>4, <2>5 DEF Sends
  <2> QED
    BY <1>3, <1>4, <2>4, <2>5, <2>8, <2>9, <2>10, <2>11, <2>12, <2>13, FormApiInv
<1> QED
  BY <1>6, <1>7
\* The answer to the making of a project, or the loss of it.
LEMMA TakeCreatedInv ==
  ASSUME FormInv, route = "projects", NEW i \in DOMAIN calls,
         TakeCreated(i) \/ NobodyWaits(i)
  PROVE  FormInv'
<1>1. /\ ClientOK /\ FormOK /\ AllKnow(calls, projects, form.number)
      /\ FormKnows /\ FormBusy
      /\ failures \in Nat /\ calls \in Seq(FormCallSet) /\ form \in FormStates
      /\ form.creating \in BOOLEAN /\ form.number \in Nat /\ form.acts \in Nat
      /\ projects \in Seq(TableRows) /\ Len(projects) <= MaxProjects
  BY FormFacts DEF FormLive
<1>2. calls[i] \in FormCallSet /\ Knows(calls[i], projects, form.number)
  BY <1>1, LenProperties, ElementOfSeq DEF AllKnow
<1>3. /\ calls[i].op \in {"create", "orphan"} /\ calls[i] \in CreateCalls
      /\ calls[i].res.st = "ok" /\ calls[i].res.value \in Ids \cup {NoProject}
      /\ UNCHANGED <<route, token, good, failures, projects>>
  <2>1. /\ calls[i].op \in {"create", "orphan"} /\ calls[i] \in CreateCalls
        /\ calls[i].res.st = "ok"
        /\ UNCHANGED <<route, token, good, failures, projects>>
    BY <1>2, FormCallFacts
       DEF TakeCreated, NobodyWaits, Ready, FormTakes, FormWaits
  <2>2. calls[i].res.value \in Ids \cup {NoProject}
    BY <2>1 DEF CreateCalls, Waiting, Ok, Working
  <2> QED
    BY <2>1, <2>2
<1>4. ClientOK' /\ failures' \in Nat /\ failures <= failures'
  BY <1>1, <1>3 DEF ClientOK
<1>5. CASE NobodyWaits(i)
  <2>1. calls[i].op = "orphan" /\ form' = form /\ calls' = Without(i)
    BY <1>5 DEF NobodyWaits, Ready, FormWaits
  <2>2. ~Chain(calls[i]) /\ ~Sends(calls[i], form.number)
    BY <2>1 DEF Chain, Sends
  <2>3. form.notice = "completed" =>
          form.done \in DOMAIN projects /\ projects[form.done].source
    BY <1>1 DEF FormKnows
  <2> QED
    BY <1>1, <1>3, <1>4, <2>1, <2>2, <2>3, FormTakesInv
<1>6. CASE TakeCreated(i) /\ calls[i].res.value = NoProject
  <2>1. calls[i].op = "create" /\ form' = Failed /\ calls' = Without(i)
    BY <1>6 DEF TakeCreated, Ready, FormTakes
  <2>2. calls[i].res = Ok(NoProject)
    BY <1>3, <1>6 DEF CreateCalls, Waiting, Ok, Working
  <2>3. Chain(calls[i]) /\ ~Sends(calls[i], form.number)
    BY <2>1, <2>2 DEF Chain, Sends
  <2> DEFINE f == Failed
  <2>4. /\ f \in FormStates /\ f.listed = form.listed /\ f.told = form.told
        /\ f.gap = form.gap /\ f.open = form.open /\ f.number = form.number
        /\ f.pending = form.pending /\ f.acts = form.acts /\ f.error = form.error
        /\ f.notice = form.notice /\ f.done = form.done
        /\ f.loading = form.loading /\ ~f.creating
    BY <1>1 DEF FormStates, Failed
  <2>5. f.notice = "completed" => f.done \in DOMAIN projects /\ projects[f.done].source
    BY <1>1, <2>4 DEF FormKnows
  <2>6. form' = f /\ calls[i].op # "projects"
    BY <2>1
  <2> HIDE DEF f
  <2> QED
    BY <1>3, <1>4, <2>1, <2>3, <2>4, <2>5, <2>6, FormTakesInv
<1>7. CASE TakeCreated(i) /\ calls[i].res.value # NoProject
  <2> DEFINE id == calls[i].res.value
             f == Created(id)
  <2>1. /\ calls[i].op = "create" /\ form' = f
        /\ calls' = Append(Without(i), ListProjects("create", id))
    BY <1>7 DEF TakeCreated, Ready, FormTakes
  <2>2. id \in Ids /\ id \in DOMAIN projects /\ projects[id].layout
    BY <1>2, <1>3, <1>7 DEF Knows
  <2> HIDE DEF id
  <2>3. /\ f \in FormStates /\ f.told = form.told \cup {id}
        /\ f.open = form.open /\ f.number = form.number
        /\ f.pending = id /\ f.acts = form.acts /\ f.creating = form.creating
        /\ f.notice = "created"
    BY <1>1, <2>2 DEF FormStates, Created, ListingProjects
  <2> HIDE DEF f
  <2>4. Chain(calls[i]) /\ id # NoProject
    BY <2>1, <2>2, ProjectsAssumption DEF Chain, Ids, NoProject
  <2>5. f.told \subseteq DOMAIN projects
    BY <1>1, <2>2, <2>3 DEF FormKnows
  <2> QED
    BY <1>3, <1>4, <2>1, <2>2, <2>3, <2>4, <2>5, FormListsAgain
<1> QED
  BY <1>5, <1>6, <1>7

\* The answer is lost, and the API goes on, or never began.
LEMMA CreateLostInv ==
  ASSUME FormInv, route = "projects", NEW i \in DOMAIN calls, CreateLost(i)
  PROVE  FormInv'
<1>1. /\ ClientOK /\ FormOK /\ AllKnow(calls, projects, form.number)
      /\ FormKnows /\ FormBusy /\ FormCounts /\ SlugsDiffer /\ FormLists
      /\ failures \in Nat /\ calls \in Seq(FormCallSet) /\ form \in FormStates
      /\ form.creating \in BOOLEAN /\ form.number \in Nat /\ form.acts \in Nat
      /\ projects \in Seq(TableRows) /\ Len(projects) <= MaxProjects
  BY FormFacts DEF FormLive
<1>2. calls[i] \in FormCallSet /\ Knows(calls[i], projects, form.number)
  BY <1>1, LenProperties, ElementOfSeq DEF AllKnow
<1> DEFINE f == Failed
<1>3. /\ calls[i].op = "create" /\ calls[i] \in CreateCalls /\ form' = f
      /\ failures < MaxFailures /\ failures' = failures + 1
      /\ UNCHANGED <<route, token, good, projects>>
  BY <1>2, FormCallFacts DEF CreateLost, Fails, FormTakes
<1>4. ClientOK' /\ failures' \in Nat /\ failures <= failures'
  BY <1>1, <1>3, ClientAssumption DEF ClientOK
<1>5. Chain(calls[i])
  BY <1>3 DEF Chain
<1>6. /\ f \in FormStates /\ f.listed = form.listed /\ f.told = form.told
      /\ f.gap = form.gap /\ f.open = form.open /\ f.number = form.number
      /\ f.pending = form.pending /\ f.acts = form.acts /\ f.error = form.error
      /\ f.notice = form.notice /\ f.done = form.done
      /\ f.loading = form.loading /\ ~f.creating
  BY <1>1 DEF FormStates, Failed
<1> HIDE DEF f
<1>7. f.notice = "completed" => f.done \in DOMAIN projects /\ projects[f.done].source
  BY <1>1, <1>6 DEF FormKnows
<1>8. CASE calls' = Without(i)
  BY <1>3, <1>4, <1>5, <1>6, <1>7, <1>8, FormTakesInv
<1>9. CASE calls' = [calls EXCEPT ![i].op = "orphan"]
  <2> DEFINE c == [calls[i] EXCEPT !.op = "orphan"]
  <2>1. /\ calls' = [calls EXCEPT ![i] = c]
        /\ c \in CreateCalls /\ c.op = "orphan" /\ c.arg = calls[i].arg
        /\ c.late = calls[i].late /\ c.res = calls[i].res
    BY <1>3, <1>9 DEF CreateCalls
  <2> HIDE DEF c
  <2>2. /\ c \in FormCallSet /\ ~Chain(c) /\ Knows(c, projects, form.number)
        /\ \A m : InsertsFor(c, m) => InsertsFor(calls[i], m)
    BY <1>2, <1>3, <2>1 DEF FormCallSet, Chain, Knows, InsertsFor
  <2>3. /\ calls' \in Seq(FormCallSet)
        /\ OneChain(calls) => OneChain(calls')
        /\ OneChain(calls) /\ Chain(calls[i]) /\ ~Chain(c) => ~HasChain(calls')
        /\ \A rows, number : AllKnow(calls, rows, number) /\ Knows(c, rows, number) =>
             AllKnow(calls', rows, number)
        /\ \A n : (InsertsFor(c, n) => InsertsFor(calls[i], n)) =>
             Cardinality(Inserting(calls', n)) <= Cardinality(Inserting(calls, n))
    <3> DEFINE d == [calls EXCEPT ![i] = c]
    <3>1. /\ d \in Seq(FormCallSet)
          /\ OneChain(calls) => OneChain(d)
          /\ OneChain(calls) /\ Chain(calls[i]) /\ ~Chain(c) => ~HasChain(d)
          /\ \A rows, number : AllKnow(calls, rows, number) /\ Knows(c, rows, number) =>
               AllKnow(d, rows, number)
          /\ \A n : (InsertsFor(c, n) => InsertsFor(calls[i], n)) =>
               Cardinality(Inserting(d, n)) <= Cardinality(Inserting(calls, n))
      BY <1>1, <2>2, FormServed, Zenon
    <3>2. calls' = d
      BY <2>1
    <3> HIDE DEF d
    <3> QED
      BY <3>1, <3>2
  <2>4. /\ Listing(calls, "projects") => Listing(calls', "projects")
        /\ LateFirst(calls, "projects") => LateFirst(calls', "projects")
        /\ Fresh(calls, "projects", Telling) => Fresh(calls', "projects", Telling)
        /\ AllLate(calls', "projects") <=> AllLate(calls, "projects")
    <3>1. /\ DOMAIN calls' = DOMAIN calls
          /\ \A j \in DOMAIN calls : calls'[j] = IF j = i THEN c ELSE calls[j]
      BY <1>1, <2>1, <2>2, CallSet
    <3>2. \A j \in DOMAIN calls : /\ calls'[j].late = calls[j].late
                                  /\ calls'[j].res = calls[j].res
                                  /\ calls'[j].op = "projects" <=> calls[j].op = "projects"
      BY <1>3, <2>1, <3>1
    <3> QED
      BY <3>1, <3>2 DEF Listing, LateFirst, Fresh, IsNewest, AllLate
  <2>5. FormOK' /\ SlugsDiffer'
    BY <1>1, <1>3, <1>6, <2>3 DEF FormOK, SlugsDiffer
  <2>6. AllKnow(calls', projects', f.number)
    BY <1>1, <1>3, <1>6, <2>2, <2>3
  <2>7. FormKnows'
    BY <1>1, <1>3, <1>6 DEF FormKnows
  <2>8. FormBusy'
    BY <1>1, <1>3, <1>5, <1>6, <2>2, <2>3, <2>4 DEF FormBusy
  <2>9. FormLists'
    BY <1>1, <1>3, <1>6, <2>4 DEF FormLists, Telling
  <2>10. FormCounts'
    <3>1. ASSUME NEW n \in 1 .. FormActs
          PROVE  Made(projects, calls', n) \in Nat /\ Made(projects, calls', n) <= failures'
      <4>1. /\ Cardinality(Inserting(calls', n)) \in Nat
            /\ Cardinality(Inserting(calls, n)) \in Nat
            /\ Cardinality(Inserting(calls', n)) <= Cardinality(Inserting(calls, n))
        BY <1>1, <2>2, <2>3, InsertingFinite
      <4>2. Cardinality(RowsOf(projects, n)) \in Nat
        BY <1>1, RowsFinite
      <4>3. Made(projects, calls, n) <= 1 + failures
        BY <1>1 DEF FormCounts
      <4> QED
        BY <1>1, <1>3, <4>1, <4>2, <4>3 DEF Made
    <3>2. ASSUME NEW n \in 1 .. FormActs
          PROVE  Made(projects, calls', n) <= 1 + failures'
      BY <1>4, <3>1, <3>2
    <3>3. form'.open => form'.number \in 1 .. FormActs
      BY <1>1, <1>3, <1>6 DEF FormKnows, FormStates
    <3> QED
      BY <1>3, <3>1, <3>2, <3>3 DEF FormCounts, CanBeSent
  <2> QED
    BY <1>3, <1>4, <1>6, <2>5, <2>6, <2>7, <2>8, <2>9, <2>10 DEF FormInv, FormLive
<1> QED
  BY <1>8, <1>9 DEF CreateLost
\* The answer to an upload, or the loss of it.
LEMMA TakeUploadedInv ==
  ASSUME FormInv, route = "projects", NEW i \in DOMAIN calls, TakeUploaded(i)
  PROVE  FormInv'
<1>1. /\ ClientOK /\ FormOK /\ AllKnow(calls, projects, form.number)
      /\ FormKnows
      /\ failures \in Nat /\ calls \in Seq(FormCallSet) /\ form \in FormStates
      /\ form.creating \in BOOLEAN /\ form.number \in Nat /\ form.acts \in Nat
  BY FormFacts DEF FormLive
<1>2. calls[i] \in FormCallSet /\ Knows(calls[i], projects, form.number)
  BY <1>1, LenProperties, ElementOfSeq DEF AllKnow
<1>3. /\ calls[i].op = "upload" /\ calls[i] \in UploadCalls
      /\ UNCHANGED <<route, token, good, projects>>
  BY <1>2, FormCallFacts DEF TakeUploaded, Ready, Fails, FormTakes
<1>4. Chain(calls[i]) /\ ~Sends(calls[i], form.number) /\ calls[i].op # "projects"
  BY <1>3 DEF Chain, Sends
<1>5. CASE Ready(i, "upload")
  <2> DEFINE id == calls[i].arg.id
             f == ListingProjects(form)
  <2>1. /\ form' = f /\ failures' = failures /\ calls[i].res.st = "ok"
        /\ calls' = Append(Without(i), ListProjects("upload", id))
  <3>1. CASE Fails(i, "upload")
    BY <1>1, <1>5, <3>1 DEF Ready, Fails
  <3> QED
    BY <1>5, <3>1 DEF TakeUploaded, Ready, FormTakes
  <2>2. id \in Ids /\ id \in DOMAIN projects /\ projects[id].source
    BY <1>2, <1>3, <2>1 DEF Knows, UploadCalls
  <2> HIDE DEF id
  <2>3. /\ f \in FormStates /\ f.told = form.told /\ f.open = form.open
        /\ f.number = form.number /\ f.pending = form.pending /\ f.acts = form.acts
        /\ f.creating = form.creating /\ f.notice = form.notice /\ f.done = form.done
    BY <1>1 DEF FormStates, ListingProjects
  <2> HIDE DEF f
  <2>4. /\ f.told \subseteq DOMAIN projects
        /\ f.pending # NoProject =>
             f.pending \in DOMAIN projects /\ projects[f.pending].layout
    BY <1>1, <2>3 DEF FormKnows
  <2>5. ClientOK'
    BY <1>1, <1>3, <2>1 DEF ClientOK
  <2> QED
    BY <1>3, <1>4, <2>1, <2>2, <2>3, <2>4, <2>5, FormListsAgain
<1>6. CASE Fails(i, "upload")
  <2> DEFINE f == Failed
  <2>1. /\ form' = f /\ calls' = Without(i)
        /\ failures < MaxFailures /\ failures' = failures + 1
    <3>1. CASE Ready(i, "upload")
      BY <1>1, <1>6, <3>1 DEF Ready, Fails
    <3> QED
      BY <1>6, <3>1 DEF TakeUploaded, Fails, FormTakes
  <2>2. /\ f \in FormStates /\ f.listed = form.listed /\ f.told = form.told
        /\ f.gap = form.gap /\ f.open = form.open /\ f.number = form.number
        /\ f.pending = form.pending /\ f.acts = form.acts /\ f.error = form.error
        /\ f.notice = form.notice /\ f.done = form.done
        /\ f.loading = form.loading /\ ~f.creating
    BY <1>1 DEF FormStates, Failed
  <2> HIDE DEF f
  <2>3. f.notice = "completed" => f.done \in DOMAIN projects /\ projects[f.done].source
    BY <1>1, <2>2 DEF FormKnows
  <2>4. ClientOK' /\ failures' \in Nat /\ failures <= failures'
    BY <1>1, <1>3, <2>1, ClientAssumption DEF ClientOK
  <2> QED
    BY <1>3, <1>4, <2>1, <2>2, <2>3, <2>4, FormTakesInv
<1> QED
  BY <1>5, <1>6 DEF TakeUploaded

\* What the end of a list's loading makes of the page.
LEMMA FormEndedProperties ==
  ASSUME form \in FormStates, NEW after \in {"none", "create", "upload"},
         NEW id \in Ids \cup {NoProject}
  PROVE  /\ FormEnded(after, id) \in FormStates
         /\ FormEnded(after, id).told = form.told
         /\ FormEnded(after, id).number = form.number
         /\ FormEnded(after, id).acts = form.acts
         /\ FormEnded(after, id).error = form.error
         /\ ~FormEnded(after, id).loading
         /\ FormEnded(after, id).creating <=> form.creating /\ after = "none"
         /\ FormEnded(after, id).open => form.open /\ after # "upload"
         /\ after # "upload" => /\ FormEnded(after, id).pending = form.pending
                                /\ FormEnded(after, id).notice = form.notice
                                /\ FormEnded(after, id).done = form.done
         /\ after = "upload" => /\ FormEnded(after, id).pending = NoProject
                                /\ FormEnded(after, id).done = id
<1> DEFINE g == [form EXCEPT !.loading = FALSE, !.creating = @ /\ after = "none"]
           f == Completed(g, id)
<1>1. /\ g \in FormStates /\ g.told = form.told /\ g.number = form.number
      /\ g.acts = form.acts /\ g.error = form.error /\ ~g.loading
      /\ g.creating = (form.creating /\ after = "none") /\ g.open = form.open
      /\ g.pending = form.pending /\ g.notice = form.notice /\ g.done = form.done
  <2> DEFINE b == form.creating /\ after = "none"
  <2>1. b \in BOOLEAN
    OBVIOUS
  <2> HIDE DEF b
  <2>2. [form EXCEPT !.loading = FALSE, !.creating = b] \in FormStates
    BY <2>1 DEF FormStates
  <2>3. /\ g = [form EXCEPT !.loading = FALSE, !.creating = b]
        /\ b = (form.creating /\ after = "none")
    BY DEF b, FormStates
  <2> HIDE DEF g
  <2> QED
    BY <2>2, <2>3 DEF FormStates
<1> HIDE DEF g
<1>2. /\ f \in FormStates /\ f.told = g.told /\ f.number = g.number
      /\ f.acts = g.acts /\ f.error = g.error /\ f.loading = g.loading
      /\ f.creating = g.creating /\ ~f.open
      /\ f.pending = NoProject /\ f.done = id
  BY <1>1 DEF FormStates, Completed, Reset
<1>3. FormEnded(after, id) = IF after = "upload" THEN f ELSE g
  BY DEF FormEnded, g
<1> HIDE DEF f
<1> QED
  BY <1>1, <1>2, <1>3

\* A list is taken, or its error.
LEMMA TakeProjectsInv ==
  ASSUME FormInv, route = "projects", NEW i \in DOMAIN calls, TakeProjects(i)
  PROVE  FormInv'
<1>1. /\ ClientOK /\ FormOK /\ AllKnow(calls, projects, form.number)
      /\ FormKnows /\ FormBusy
      /\ failures \in Nat /\ calls \in Seq(FormCallSet) /\ form \in FormStates
      /\ form.creating \in BOOLEAN /\ form.number \in Nat /\ form.acts \in Nat
  BY FormFacts DEF FormLive
<1>2. calls[i] \in FormCallSet /\ Knows(calls[i], projects, form.number)
  BY <1>1, LenProperties, ElementOfSeq DEF AllKnow
<1>3. /\ calls[i].op = "projects" /\ calls[i] \in ListCalls /\ calls' = Without(i)
      /\ UNCHANGED <<route, token, good, projects>>
  BY <1>2, FormCallFacts DEF TakeProjects, Ready, Fails, FormTakes
<1> DEFINE after == calls[i].arg.after
           id == calls[i].arg.id
           e == FormEnded(after, id)
<1>4. /\ after \in {"none", "create", "upload"} /\ id \in Ids \cup {NoProject}
      /\ after = "upload" => id \in DOMAIN projects /\ projects[id].source
  BY <1>2, <1>3 DEF ListCalls, Knows
<1>5. Chain(calls[i]) <=> after # "none"
  BY <1>3 DEF Chain
<1>6. ~Sends(calls[i], form.number)
  BY <1>3 DEF Sends
<1> DEFINE read == [e EXCEPT !.listed = calls[i].res.value, !.gap = calls[i].late]
           failed == [e EXCEPT !.error = TRUE]
<1>7. \/ Ready(i, "projects") /\ FormTakes(read)
      \/ Fails(i, "projects") /\ FormTakes(failed)
  BY DEF TakeProjects
<1> HIDE DEF after, id
<1>8. /\ e \in FormStates /\ e.told = form.told /\ e.number = form.number
      /\ e.acts = form.acts /\ e.error = form.error /\ ~e.loading
      /\ e.creating <=> form.creating /\ after = "none"
      /\ e.open => form.open /\ after # "upload"
      /\ after # "upload" => /\ e.pending = form.pending
                             /\ e.notice = form.notice /\ e.done = form.done
      /\ after = "upload" => e.pending = NoProject /\ e.done = id
  BY <1>1, <1>4, FormEndedProperties
<1> HIDE DEF e
<1>9. e.notice = "completed" => e.done \in DOMAIN projects /\ projects[e.done].source
  BY <1>1, <1>4, <1>8 DEF FormKnows
<1>10. /\ e.open => form.open
       /\ e.pending \in {form.pending, NoProject}
       /\ e.open /\ e.pending = NoProject => form.pending = NoProject
       /\ e.creating <=> form.creating /\ ~Chain(calls[i])
  BY <1>4, <1>5, <1>8
<1>11. CASE Ready(i, "projects") /\ FormTakes(read)
  <2>1. /\ form' = read /\ failures' = failures /\ calls[i].res.st = "ok"
    BY <1>11 DEF Ready, FormTakes
  <2>2. /\ calls[i].res = Ok(calls[i].res.value)
        /\ calls[i].res.value \in SUBSET Ids /\ calls[i].late \in BOOLEAN
    BY <1>3, <2>1 DEF ListCalls, Ok, Waiting
  <2>3. /\ read \in FormStates /\ read.told = e.told /\ read.number = e.number
        /\ read.acts = e.acts /\ read.error = e.error /\ read.loading = e.loading
        /\ read.creating = e.creating /\ read.open = e.open
        /\ read.pending = e.pending /\ read.notice = e.notice /\ read.done = e.done
        /\ read.gap = calls[i].late /\ read.listed = calls[i].res.value
    BY <1>8, <2>2 DEF FormStates
  <2>4. ClientOK' /\ failures' \in Nat /\ failures <= failures'
    BY <1>1, <1>3, <2>1 DEF ClientOK
  <2> HIDE DEF read
  <2> QED
    BY <1>3, <1>6, <1>8, <1>9, <1>10, <2>1, <2>2, <2>3, <2>4, FormTakesInv
<1>12. CASE Fails(i, "projects") /\ FormTakes(failed)
  <2>1. /\ form' = failed /\ failures < MaxFailures /\ failures' = failures + 1
    BY <1>12 DEF Fails, FormTakes
  <2>2. /\ failed \in FormStates /\ failed.told = e.told /\ failed.number = e.number
        /\ failed.acts = e.acts /\ failed.error /\ failed.loading = e.loading
        /\ failed.creating = e.creating /\ failed.open = e.open
        /\ failed.pending = e.pending /\ failed.notice = e.notice
        /\ failed.done = e.done
    BY <1>8 DEF FormStates
  <2>3. ClientOK' /\ failures' \in Nat /\ failures <= failures'
    BY <1>1, <1>3, <2>1, ClientAssumption DEF ClientOK
  <2> HIDE DEF failed
  <2> QED
    BY <1>3, <1>6, <1>8, <1>9, <1>10, <2>1, <2>2, <2>3, FormTakesInv
<1> QED
  BY <1>7, <1>11, <1>12

\* What happens on the page of the projects.
LEMMA ProjectsNextInv ==
  ASSUME FormInv, ProjectsNext
  PROVE  FormInv'
<1>1. route = "projects"
  BY DEF ProjectsNext
<1>2. /\ ClientOK /\ FormLive /\ failures \in Nat /\ calls \in Seq(FormCallSet)
      /\ projects \in Seq(TableRows) /\ AllKnow(calls, projects, form.number)
  BY <1>1, FormFacts DEF FormLive
<1>3. CASE ProjectsRender
  BY <1>1, <1>3, ProjectsRenderInv
<1>4. CASE ProjectsReader
  BY <1>1, <1>4, ProjectsReaderInv
<1>5. CASE ProjectsAnswer
  BY <1>1, <1>5, ProjectsApiInv, InsertInv, TakeCreatedInv, CreateLostInv,
     TakeUploadedInv, TakeProjectsInv DEF ProjectsAnswer
<1>6. CASE Retries /\ UNCHANGED projectsVars
  <2>1. PICK i \in DOMAIN calls : Retry(i)
    BY <1>6 DEF Retries
  <2> DEFINE c == [calls[i] EXCEPT !.token = good]
  <2>2. /\ token' = good /\ calls' = [calls EXCEPT ![i] = c]
        /\ UNCHANGED <<route, good, failures, form, projects>>
    BY <1>6, <2>1 DEF Retry, projectsVars
  <2>3. /\ calls[i] \in FormCallSet /\ good \in 0 .. MaxToken
        /\ good \in good .. MaxToken /\ Knows(calls[i], projects, form.number)
    BY <1>2, LenProperties, ElementOfSeq, ClientAssumption DEF ClientOK, AllKnow
  <2>4. /\ c \in FormCallSet /\ c.op = calls[i].op /\ c.arg = calls[i].arg
        /\ c.late = calls[i].late /\ c.res = calls[i].res
    <3>1. CASE calls[i] \in ListCalls
      BY <2>3, <3>1 DEF FormCallSet, ListCalls
    <3>2. CASE calls[i] \in CreateCalls
      BY <2>3, <3>2 DEF FormCallSet, CreateCalls
    <3>3. CASE calls[i] \in UploadCalls
      BY <2>3, <3>3 DEF FormCallSet, UploadCalls
    <3> QED
      BY <2>3, <3>1, <3>2, <3>3 DEF FormCallSet
  <2> HIDE DEF c
  <2>5. ClientOK' /\ failures' \in Nat /\ failures <= failures'
    BY <1>2, <2>2, <2>3 DEF ClientOK
  <2>6. /\ Knows(c, projects, form.number)
        /\ \A m : InsertsFor(c, m) => InsertsFor(calls[i], m)
        /\ \A m : Sends(calls[i], m) => Sends(c, m)
    BY <2>3, <2>4 DEF Knows, InsertsFor, Sends
  <2> QED
    BY <1>1, <2>2, <2>4, <2>5, <2>6, FormServesInv
<1>7. CASE TokenExpires /\ UNCHANGED projectsVars
  <2>1. /\ good < MaxToken /\ good' = good + 1
        /\ UNCHANGED <<route, calls, token, dirty, failures, form, projects>>
    BY <1>7 DEF TokenExpires, projectsVars
  <2>2. ClientOK'
    BY <1>2, <2>1, ClientAssumption DEF ClientOK
  <2> QED
    BY <1>1, <1>2, <2>1, <2>2
       DEF FormInv, FormLive, FormOK, FormKnows, FormBusy, FormCounts, CanBeSent,
           SlugsDiffer, FormLists, Telling
<1> QED
  BY <1>3, <1>4, <1>5, <1>6, <1>7 DEF ProjectsNext

-----------------------------------------------------------------------------
(* The audit log.                                                          *)

Urls ==
  [filter : Filters, page : Nat \ {0}, size : PageSizes, selected : 0 .. MaxRows]
Queries == [filter : Filters, page : Nat \ {0}, size : PageSizes]
Counts == [total : Nat, totalPages : Nat, page : Nat \ {0}]
Lists ==
  [rows : Seq(1 .. MaxRows), page : Nat \ {0}, size : PageSizes, total : Nat,
   totalPages : Nat, filter : Filters, grown : BOOLEAN]
AuditStates ==
  [url : Urls, back : Seq(Urls), asked : {<<>>} \cup (Queries \X (0 .. MaxToken)),
   list : Lists, loading : BOOLEAN, exporting : BOOLEAN, error : BOOLEAN,
   gap : BOOLEAN, clicks : 0 .. AuditClicks]

ListReqs ==
  [op : {"list"}, arg : Queries, token : 0 .. MaxToken,
   res : {Waiting} \cup [st : {"read"}, value : Counts], late : BOOLEAN]
ExportReqs ==
  [op : {"export"}, arg : [filter : Filters], token : 0 .. MaxToken, res : {Waiting},
   late : BOOLEAN]
AuditCalls == ListReqs \cup ExportReqs

AuditOK ==
  /\ audit \in AuditStates /\ calls \in Seq(AuditCalls)
  /\ auditLog \in Seq(Actions) /\ Len(auditLog) <= MaxRows

\* A page that was counted has a row of the total, or is the first.
PageFits(count, size) ==
  IF count.total = 0 THEN count.page = 1 ELSE (count.page - 1) * size < count.total
CallFits(c) ==
  c.op = "list" /\ c.res.st = "read" => PageFits(c.res.value, c.arg.size)
AllFit(cs) == \A i \in DOMAIN cs : CallFits(cs[i])

\* What the property says of the rows of a list.
ListFits(list) ==
  ~list.grown =>
    LET from == (list.page - 1) * list.size
    IN /\ from + Len(list.rows) <= list.total
       /\ list.rows = <<>> => list.total = 0

\* The last list asked for, unless it was taken, is the one of query.
AsksFor(cs, query) == \A i \in DOMAIN cs : IsNewest(cs, "list", i) => cs[i].arg = query

\* The list has the filter it was asked for with, or it is on its way.
AuditShows ==
  /\ LateFirst(calls, "list")
  /\ audit.asked # <<>> =>
       /\ AsksFor(calls, audit.asked[1])
       /\ ~audit.error /\ AllLate(calls, "list") =>
            audit.gap \/ audit.list.filter = audit.asked[1].filter

\* A page that was rendered asked for what its URL says, and the URL has the page and
\* the selected row of the list.
AuditRendered ==
  ~dirty => audit.asked = Asked /\ UrlCorrected(audit.url, audit.list) = audit.url

AuditLive ==
  AuditOK /\ AllFit(calls) /\ ListFits(audit.list) /\ AuditShows /\ AuditRendered
AuditInv == route = "audit" => ClientOK /\ AuditLive

\* At rest the list is the one asked for last.
LEMMA AuditAtRestAsked == ASSUME AuditInv PROVE AuditShowsAsked
<1> SUFFICES ASSUME route = "audit", calls = <<>>, ~dirty, ~audit.error, ~audit.gap
             PROVE  /\ Query(audit.url) = Query(audit.list)
                    /\ audit.url.selected \in {0} \cup ToSet(audit.list.rows)
                    /\ ListFits(audit.list)
  BY DEF AuditShowsAsked, AuditAtRest, ListFits
<1>1. AuditOK /\ ListFits(audit.list) /\ AuditShows /\ AuditRendered
  BY DEF AuditInv, AuditLive
<1>2. /\ audit.url \in Urls /\ audit.list \in Lists
      /\ audit.asked = Asked /\ UrlCorrected(audit.url, audit.list) = audit.url
  BY <1>1 DEF AuditOK, AuditStates, AuditRendered
<1>3. AllLate(calls, "list")
  BY DEF AllLate
<1>4. audit.list.filter = audit.url.filter
  <2>1. Asked # <<>> /\ Asked[1] = Query(audit.url)
    BY DEF Asked
  <2>2. audit.list.filter = Query(audit.url).filter
    BY <1>1, <1>2, <1>3, <2>1 DEF AuditShows
  <2> QED
    BY <2>2 DEF Query
<1> DEFINE u == audit.url
           l == audit.list
<1>5. /\ u \in Urls /\ l \in Lists /\ UrlCorrected(u, l) = u
  BY <1>2
<1> HIDE DEF u, l
<1>6. l.page = u.page /\ l.size = u.size
  <2>1. CASE <<l.page, l.size>> # <<u.page, u.size>>
    <3>1. u = Url(u.filter, l.page, l.size, 0)
      BY <1>5, <2>1 DEF UrlCorrected
    <3>2. Url(u.filter, l.page, l.size, 0).page = l.page
          /\ Url(u.filter, l.page, l.size, 0).size = l.size
      BY DEF Url
    <3> QED
      BY <3>1, <3>2
  <2> QED
    BY <2>1
<1>7. u.selected = 0 \/ u.selected \in ToSet(l.rows)
  <2>1. UrlKept(u, l) = u
    BY <1>5, <1>6 DEF UrlCorrected
  <2>2. CASE u.selected # 0 /\ u.selected \notin ToSet(l.rows)
    <3>1. u = [u EXCEPT !.selected = 0]
      BY <2>1, <2>2 DEF UrlKept
    <3>2. [u EXCEPT !.selected = 0].selected = 0
      BY <1>5 DEF Urls
    <3> QED
      BY <2>2, <3>1, <3>2
  <2> QED
    BY <2>2
<1> QED
  BY <1>1, <1>4, <1>6, <1>7 DEF Query, u, l

\* The requests of the page, by what they are.
LEMMA AuditCallFacts ==
  ASSUME NEW c \in AuditCalls
  PROVE  /\ c.op \in {"list", "export"} /\ c.late \in BOOLEAN
         /\ c.op = "list" => c \in ListReqs
         /\ c.op = "export" => c \in ExportReqs
BY DEF AuditCalls, ListReqs, ExportReqs

\* Late requests are requests of the page.
LEMMA AuditHoldsLate == HoldsLate(AuditCalls)
<1>1. ASSUME NEW c \in ListReqs
      PROVE  LateOf(c) \in ListReqs /\ SameCall(LateOf(c), c) /\ LateOf(c).late
  BY DEF ListReqs, LateOf, SameCall
<1>2. ASSUME NEW c \in ExportReqs
      PROVE  LateOf(c) \in ExportReqs /\ SameCall(LateOf(c), c) /\ LateOf(c).late
  BY DEF ExportReqs, LateOf, SameCall
<1> QED
  BY <1>1, <1>2 DEF AuditCalls, HoldsLate

\* A request is made.
LEMMA AuditAdded ==
  ASSUME NEW cs \in Seq(AuditCalls), NEW c \in AuditCalls, c.res = Waiting
  PROVE  /\ Append(cs, c) \in Seq(AuditCalls)
         /\ AllFit(cs) => AllFit(Append(cs, c))
         /\ c.op = "list" => AsksFor(Append(cs, c), c.arg)
         /\ c.op # "list" =>
              \A query : AsksFor(cs, query) => AsksFor(Append(cs, c), query)
<1> DEFINE d == Append(cs, c)
           n == Len(cs) + 1
<1>1. /\ d \in Seq(AuditCalls)
      /\ Len(cs) \in Nat /\ DOMAIN cs = 1 .. Len(cs)
      /\ \A j \in DOMAIN cs : j \in DOMAIN d /\ d[j] = cs[j] /\ j < n
      /\ n \in DOMAIN d /\ d[n] = c
      /\ \A j \in DOMAIN d : j \in DOMAIN cs \/ j = n
  BY CallAdded
<1>2. n \in Nat /\ \A j \in DOMAIN cs : j \in Nat
  BY <1>1
<1> HIDE DEF d, n
<1>3. AllFit(cs) => AllFit(d)
  <2>1. CallFits(c)
    BY DEF CallFits, Waiting
  <2> QED
    BY <1>1, <2>1 DEF AllFit
<1>4. c.op = "list" => AsksFor(d, c.arg)
  BY <1>1, <1>2 DEF AsksFor, IsNewest
<1>5. ASSUME c.op # "list", NEW query, AsksFor(cs, query)  PROVE AsksFor(d, query)
  <2>1. ASSUME NEW j \in DOMAIN d, IsNewest(d, "list", j)
        PROVE  j \in DOMAIN cs /\ IsNewest(cs, "list", j) /\ d[j] = cs[j]
    BY <1>1, <1>2, <1>5, <2>1 DEF IsNewest
  <2> QED
    BY <1>5, <2>1 DEF AsksFor
<1> QED
  BY <1>1, <1>3, <1>4, <1>5 DEF d

\* A request is taken out.
LEMMA AuditRemoved ==
  ASSUME calls \in Seq(AuditCalls), NEW i \in DOMAIN calls
  PROVE  /\ Without(i) \in Seq(AuditCalls)
         /\ AllFit(calls) => AllFit(Without(i))
         /\ \A query : AsksFor(calls, query) => AsksFor(Without(i), query)
<1> DEFINE w == Without(i)
<1>1. w \in Seq(AuditCalls) /\ AllBut(i, w)
  BY WithoutAllBut, AuditHoldsLate
<1>2. \A j : IsNewest(w, "list", j) =>
        IsNewest(calls, "list", Old(i, j)) /\ SameCall(w[j], calls[Old(i, j)])
  BY NewestKept, AuditHoldsLate
<1> HIDE DEF w
<1>3. AllFit(calls) => AllFit(w)
  <2>1. \A j \in DOMAIN w : Old(i, j) \in DOMAIN calls /\ SameCall(w[j], calls[Old(i, j)])
    BY <1>1 DEF AllBut
  <2> QED
    BY <2>1 DEF AllFit, CallFits, SameCall
<1>4. ASSUME NEW query, AsksFor(calls, query)  PROVE AsksFor(w, query)
  BY <1>2, <1>4 DEF AsksFor, SameCall, IsNewest
<1> QED
  BY <1>1, <1>3, <1>4 DEF w

\* A request is counted, or sent again.
LEMMA AuditServed ==
  ASSUME calls \in Seq(AuditCalls), NEW i \in DOMAIN calls, NEW c \in AuditCalls,
         c.op = calls[i].op, c.arg = calls[i].arg, c.late = calls[i].late
  PROVE  /\ [calls EXCEPT ![i] = c] \in Seq(AuditCalls)
         /\ AllFit(calls) /\ CallFits(c) => AllFit([calls EXCEPT ![i] = c])
         /\ \A query : AsksFor(calls, query) => AsksFor([calls EXCEPT ![i] = c], query)
<1> DEFINE d == [calls EXCEPT ![i] = c]
<1>1. /\ d \in Seq(AuditCalls) /\ DOMAIN d = DOMAIN calls
      /\ \A j \in DOMAIN calls : d[j] = IF j = i THEN c ELSE calls[j]
  BY CallSet
<1> HIDE DEF d
<1>2. \A j \in DOMAIN calls : /\ d[j].op = calls[j].op /\ d[j].arg = calls[j].arg
                              /\ d[j].late = calls[j].late
  BY <1>1
<1>3. AllFit(calls) /\ CallFits(c) => AllFit(d)
  BY <1>1 DEF AllFit
<1>4. \A query : AsksFor(calls, query) => AsksFor(d, query)
  BY <1>1, <1>2 DEF AsksFor, IsNewest
<1> QED
  BY <1>1, <1>3, <1>4 DEF d
\* The smaller of two numbers.
LEMMA MinOfTwo ==
  ASSUME NEW a \in Int, NEW b \in Int
  PROVE  Min({a, b}) = IF a <= b THEN a ELSE b
<1>1. \E x \in {a, b} : \A y \in {a, b} : x <= y
  OBVIOUS
<1>2. Min({a, b}) \in {a, b} /\ \A y \in {a, b} : Min({a, b}) <= y
  BY <1>1 DEF Min
<1> QED
  BY <1>2

\* The rows of a filter are a sequence: each has as many newer ones as its place says.
LEMMA MatchingRows ==
  ASSUME auditLog \in Seq(Actions), Len(auditLog) <= MaxRows, NEW filter
  PROVE  /\ Matching(filter) \in Seq(1 .. MaxRows)
         /\ Len(Matching(filter)) \in Nat
<1> DEFINE M == Matches(filter)
           N == Cardinality(M)
           from(i) == { j \in M : j >= i }
<1>1. DOMAIN auditLog = 1 .. Len(auditLog) /\ Len(auditLog) \in Nat
  BY LenProperties
<1>2. M \subseteq 1 .. MaxRows /\ IsFiniteSet(M) /\ N \in Nat
  <2>1. M \subseteq DOMAIN auditLog /\ DOMAIN auditLog \subseteq 1 .. MaxRows
    BY <1>1, AuditAssumption DEF Matches
  <2>2. IsFiniteSet(1 .. MaxRows)
    BY AuditAssumption, FS_Interval
  <2> QED
    BY <2>1, <2>2, FS_Subset, FS_CardinalityType
<1>3. \A i \in M : i \in Int
  BY <1>2
<1> DEFINE f == [i \in M |-> Cardinality(from(i))]
<1> HIDE DEF M
<1>4. ASSUME NEW i \in M
      PROVE  /\ i \in from(i) /\ IsFiniteSet(from(i))
             /\ Cardinality(from(i)) \in 1 .. N
  <2>1. i \in from(i) /\ from(i) \subseteq M
    BY <1>3
  <2>2. /\ IsFiniteSet(from(i)) /\ Cardinality(from(i)) <= N
        /\ Cardinality(from(i)) \in Nat
    BY <1>2, <2>1, FS_Subset, FS_CardinalityType
  <2>3. Cardinality(from(i)) # 0
    BY <2>1, <2>2, FS_EmptySet
  <2> QED
    BY <1>2, <2>1, <2>2, <2>3
<1>5. ASSUME NEW i \in M, NEW k \in M, i < k
      PROVE  Cardinality(from(i)) # Cardinality(from(k))
  <2>1. from(k) \subseteq from(i) /\ i \notin from(k)
    BY <1>3, <1>5
  <2> QED
    BY <1>4, <2>1, FS_Subset
<1>6. f \in Injection(M, 1 .. N)
  <2>1. f \in [M -> 1 .. N]
    BY <1>4
  <2>2. ASSUME NEW i \in M, NEW k \in M, f[i] = f[k]  PROVE i = k
    <3>1. Cardinality(from(i)) = Cardinality(from(k))
      BY <2>2
    <3> DEFINE ci == Cardinality(from(i))
               ck == Cardinality(from(k))
    <3>2. (i < k => ci # ck) /\ (k < i => ck # ci)
      BY <1>5
    <3>3. i \in Int /\ k \in Int
      BY <1>3
    <3> HIDE DEF ci, ck
    <3> QED
      BY <3>1, <3>2, <3>3 DEF ci, ck
  <2> HIDE DEF f
  <2> QED
    BY <2>1, <2>2 DEF Injection, IsInjective
<1>7. \A n \in 1 .. N : \E i \in M : f[i] = n
  <2>1. IsFiniteSet(1 .. N) /\ Cardinality(1 .. N) = N
    BY <1>2, FS_Interval
  <2>2. f \in Surjection(M, 1 .. N)
    BY <1>6, <2>1, FS_Injection
  <2> QED
    BY <2>2 DEF Surjection
<1>8. ASSUME NEW n \in 1 .. N  PROVE Newest(M, n) \in 1 .. MaxRows
  <2>1. \E i \in M : Cardinality({ j \in M : j >= i }) = n
    BY <1>7
  <2>2. Newest(M, n) \in M
    BY <2>1 DEF Newest
  <2> QED
    BY <1>2, <2>2
<1>9. Matching(filter) = [n \in 1 .. N |-> Newest(M, n)]
  BY DEF Matching, M
<1>10. Matching(filter) \in Seq(1 .. MaxRows)
  <2> DEFINE s == [n \in 1 .. N |-> Newest(M, n)]
  <2>1. s \in [1 .. N -> 1 .. MaxRows]
    BY <1>8
  <2> HIDE DEF s, N
  <2> QED
    BY <1>2, <1>9, <2>1, SeqDef DEF s
<1> QED
  BY <1>10, LenProperties

\* What is counted has a page, which is one of the total's.
LEMMA CountedFits ==
  ASSUME AuditOK, NEW query \in Queries
  PROVE  Counted(query) \in Counts /\ PageFits(Counted(query), query.size)
<1> DEFINE total == Len(Matching(query.filter))
           pages == (total + query.size - 1) \div query.size
           at == IF pages = 0 THEN 1 ELSE Min({query.page, pages})
<1>1. total \in Nat
  BY MatchingRows DEF AuditOK
<1>2. query.page \in Nat \ {0} /\ query.size \in {1, 2}
  BY DEF Queries, PageSizes, defaultAuditPageSize
<1>3. Counted(query) = [total |-> total, totalPages |-> pages, page |-> at]
  BY DEF Counted
<1> HIDE DEF total
<1>4. /\ pages \in Nat /\ (pages = 0 => total = 0)
      /\ query.size = 1 => pages = total
      /\ query.size = 2 => pages + pages \in {total, total + 1}
      /\ total = 0 => pages = 0
  <2>1. CASE query.size = 1
    BY <1>1, <2>1
  <2>2. CASE query.size = 2
    BY <1>1, <2>2
  <2> QED
    BY <1>2, <2>1, <2>2
<1> HIDE DEF pages
<1>5. at \in Nat \ {0} /\ (pages = 0 => at = 1) /\ (pages # 0 => at <= pages)
  BY <1>2, <1>4, MinOfTwo
<1> HIDE DEF at
<1>6. Counted(query) \in Counts
  BY <1>1, <1>3, <1>4, <1>5 DEF Counts
<1>7. IF total = 0 THEN at = 1 ELSE (at - 1) * query.size < total
  <2>1. CASE total = 0
    BY <1>4, <1>5, <2>1
  <2>2. CASE total # 0
    <3>1. at <= pages
      BY <1>4, <1>5, <2>2
    <3>2. CASE query.size = 1
      BY <1>1, <1>4, <1>5, <2>2, <3>1, <3>2
    <3>3. CASE query.size = 2
      BY <1>1, <1>4, <1>5, <2>2, <3>1, <3>3
    <3> QED
      BY <1>2, <2>2, <3>2, <3>3
  <2> QED
    BY <2>1, <2>2
<1> QED
  BY <1>3, <1>6, <1>7 DEF PageFits

\* The rows of the page that was counted: some of them, if there still are as many.
LEMMA FoundFits ==
  ASSUME AuditOK, NEW c \in ListReqs, c.res.st = "read", CallFits(c)
  PROVE  /\ Found(c) \in Lists /\ ListFits(Found(c))
         /\ Found(c).filter = c.arg.filter
<1> DEFINE rows == Matching(c.arg.filter)
           count == c.res.value
           skip == (count.page - 1) * c.arg.size
           taken == RowsTaken(rows, skip, c.arg.size)
<1>1. /\ c.arg.filter \in Filters /\ c.arg.size \in PageSizes /\ c.arg.size \in {1, 2}
      /\ c.op = "list"
      /\ count.total \in Nat /\ count.totalPages \in Nat /\ count.page \in Nat \ {0}
  BY DEF ListReqs, Queries, Counts, PageSizes, defaultAuditPageSize, Waiting
<1>2. IF count.total = 0 THEN count.page = 1 ELSE skip < count.total
  BY <1>1 DEF CallFits, PageFits
<1>3. skip \in Nat /\ (count.page = 1 => skip = 0)
  <2>1. CASE c.arg.size = 1
    BY <1>1, <2>1
  <2>2. CASE c.arg.size = 2
    BY <1>1, <2>2
  <2> QED
    BY <1>1, <2>1, <2>2
<1>4. rows \in Seq(1 .. MaxRows) /\ Len(rows) \in Nat
  BY MatchingRows DEF AuditOK
<1>5. Found(c) = [rows |-> taken, page |-> count.page, size |-> c.arg.size,
                  total |-> count.total, totalPages |-> count.totalPages,
                  filter |-> c.arg.filter, grown |-> Len(rows) # count.total]
  BY DEF Found
<1> HIDE DEF rows, skip
<1> DEFINE hi == Min({skip + c.arg.size, Len(rows)})
<1>6. /\ hi \in Int /\ hi <= Len(rows)
      /\ skip < Len(rows) => skip + 1 <= hi
  <2> DEFINE s == c.arg.size
             m == Len(rows)
  <2>1. skip \in Int /\ s \in {1, 2} /\ m \in Int
    BY <1>1, <1>3, <1>4
  <2>2. hi = Min({skip + s, m})
    OBVIOUS
  <2> HIDE DEF s, hi
  <2>3. skip + s \in Int
    BY <2>1
  <2>4. hi = IF skip + s <= m THEN skip + s ELSE m
    BY <2>1, <2>2, <2>3, MinOfTwo
  <2> HIDE DEF m
  <2> QED
    BY <2>1, <2>4 DEF m
<1>7. /\ taken \in Seq(1 .. MaxRows)
      /\ Len(taken) = IF skip + 1 <= hi THEN hi - skip ELSE 0
  <2> DEFINE lo == skip + 1
  <2>1. taken = SubSeq(rows, lo, hi)
    BY DEF RowsTaken
  <2>2. lo \in Int /\ hi \in Int /\ \A j \in lo .. hi : rows[j] \in 1 .. MaxRows
    <3>1. \A j \in 1 .. Len(rows) : rows[j] \in 1 .. MaxRows
      BY <1>4, ElementOfSeq
    <3> HIDE DEF hi
    <3>2. \A j \in lo .. hi : j \in 1 .. Len(rows)
      BY <1>3, <1>4, <1>6
    <3> QED
      BY <1>3, <1>6, <3>1, <3>2
  <2>3. hi - lo + 1 = hi - skip
    BY <1>3, <1>6
  <2> HIDE DEF taken, lo, hi
  <2>4. /\ SubSeq(rows, lo, hi) \in Seq(1 .. MaxRows)
        /\ Len(SubSeq(rows, lo, hi)) = IF lo <= hi THEN hi - lo + 1 ELSE 0
    BY <2>2, SubSeqProperties
  <2> QED
    BY <2>1, <2>3, <2>4 DEF lo
<1> HIDE DEF taken, hi
<1>8. Found(c) \in Lists
  BY <1>1, <1>5, <1>7 DEF Lists
<1>9. ASSUME Len(rows) = count.total
      PROVE  /\ skip + Len(taken) <= count.total
             /\ taken = <<>> => count.total = 0
  <2>1. CASE count.total = 0
    BY <1>2, <1>3, <1>4, <1>6, <1>7, <1>9, <2>1
  <2>2. CASE count.total # 0
    <3>1. skip < Len(rows)
      BY <1>2, <1>9, <2>2
    <3>2. Len(taken) = hi - skip /\ hi - skip # 0
      BY <1>3, <1>6, <1>7, <3>1
    <3>3. taken # <<>>
      BY <3>2, EmptySeq
    <3> QED
      BY <1>3, <1>4, <1>6, <1>9, <3>2, <3>3
  <2> QED
    BY <2>1, <2>2
<1>10. ListFits(Found(c))
  <2> DEFINE l == Found(c)
  <2>1. /\ l.rows = taken /\ l.page = count.page /\ l.size = c.arg.size
        /\ l.total = count.total /\ l.grown = (Len(rows) # count.total)
    BY <1>5
  <2>2. (l.page - 1) * l.size = skip
    BY <2>1 DEF skip
  <2> HIDE DEF l
  <2>3. ~l.grown => /\ skip + Len(l.rows) <= l.total
                    /\ l.rows = <<>> => l.total = 0
    BY <1>9, <2>1
  <2> QED
    BY <2>2, <2>3 DEF ListFits, l
<1> QED
  BY <1>5, <1>8, <1>10

-----------------------------------------------------------------------------
(* The steps of the audit log's page.                                      *)

\* The requests that the page makes.
LEMMA AuditRequests ==
  ASSUME ClientOK, NEW url \in Urls
  PROVE  /\ Query(url) \in Queries /\ Query(url).filter = url.filter
         /\ Call("list", Query(url)) \in AuditCalls
         /\ Call("list", Query(url)).op = "list"
         /\ Call("list", Query(url)).arg = Query(url)
         /\ Call("list", Query(url)).res = Waiting
         /\ ~Call("list", Query(url)).late
         /\ Call("export", [filter |-> url.filter]) \in AuditCalls
         /\ Call("export", [filter |-> url.filter]).op = "export"
         /\ Call("export", [filter |-> url.filter]).res = Waiting
         /\ ~Call("export", [filter |-> url.filter]).late
<1>1. /\ Query(url) \in Queries /\ Query(url).filter = url.filter
      /\ [filter |-> url.filter] \in [filter : Filters] /\ token \in 0 .. MaxToken
  BY DEF Query, Queries, Urls, ClientOK
<1>2. ASSUME NEW op, NEW arg
      PROVE  Call(op, arg) = [op |-> op, arg |-> arg, token |-> token, res |-> Waiting,
                              late |-> FALSE]
  BY DEF Call
<1>3. Call("list", Query(url)) \in ListReqs
  BY <1>1, <1>2 DEF ListReqs
<1>4. Call("export", [filter |-> url.filter]) \in ExportReqs
  BY <1>1, <1>2 DEF ExportReqs
<1> QED
  BY <1>1, <1>2, <1>3, <1>4 DEF AuditCalls

\* The URL that follows a list is one.
LEMMA UrlCorrectedType ==
  ASSUME NEW url \in Urls, NEW list \in Lists
  PROVE  UrlCorrected(url, list) \in Urls
<1>1. 0 \in 0 .. MaxRows
  BY AuditAssumption
<1>2. UrlKept(url, list) \in Urls
  BY <1>1 DEF UrlKept, Urls
<1>3. Url(url.filter, list.page, list.size, 0) \in Urls
  BY <1>1 DEF Url, Urls, Lists
<1> QED
  BY <1>2, <1>3 DEF UrlCorrected

\* A step after which the list is the same one: what is asked for is still on its way,
\* unless an error says that it is not, and an error is not forgotten.
LEMMA AuditStepInv ==
  ASSUME AuditInv, route = "audit", route' = route, ClientOK',
         audit' \in AuditStates, audit'.asked = audit.asked, audit'.list = audit.list,
         auditLog' \in Seq(Actions), Len(auditLog') <= MaxRows,
         audit.error => audit'.error \/ audit'.gap,
         audit.gap => audit'.gap,
         calls' \in Seq(AuditCalls), AllFit(calls) => AllFit(calls'),
         LateFirst(calls, "list") => LateFirst(calls', "list"),
         \A query : AsksFor(calls, query) => AsksFor(calls', query),
         AllLate(calls', "list") => AllLate(calls, "list") \/ audit'.error,
         ~dirty' => ~dirty /\ audit' = audit /\ token' = token
  PROVE  AuditInv'
<1>1. AuditOK /\ AllFit(calls) /\ ListFits(audit.list) /\ AuditShows /\ AuditRendered
  BY DEF AuditInv, AuditLive
<1>2. AuditOK' /\ AllFit(calls')
  BY <1>1 DEF AuditOK
<1>3. ListFits(audit'.list)
  BY <1>1
<1>4. AuditShows'
  BY <1>1 DEF AuditShows
<1>5. AuditRendered'
  BY <1>1 DEF AuditRendered, Asked
<1> QED
  BY <1>2, <1>3, <1>4, <1>5 DEF AuditInv, AuditLive

\* A render asks for the list when the URL or the session is not the one it is of, and
\* corrects the URL.
LEMMA AuditRenderInv ==
  ASSUME AuditInv, route = "audit", AuditRender
  PROVE  AuditInv'
<1>1. ClientOK /\ AuditOK /\ AllFit(calls) /\ ListFits(audit.list) /\ AuditShows
  BY DEF AuditInv, AuditLive
<1>2. audit \in AuditStates /\ calls \in Seq(AuditCalls)
  BY <1>1 DEF AuditOK
<1> DEFINE url == UrlCorrected(audit.url, audit.list)
<1>3. url \in Urls /\ audit.url \in Urls
  BY <1>2, UrlCorrectedType DEF AuditStates
<1>4. /\ UNCHANGED <<route, token, good, failures, auditLog>>
      /\ dirty' = (audit' # audit)
      /\ audit' = [LoadStarted(audit) EXCEPT !.url = url]
      /\ calls' = IF LoadStarted(audit) = audit THEN calls
                  ELSE Append(calls, Call("list", Query(audit.url)))
  BY DEF AuditRender
<1>5. ClientOK'
  BY <1>1, <1>4 DEF ClientOK
<1>6. CASE Asked = audit.asked
  <2>1. audit' = [audit EXCEPT !.url = url] /\ calls' = calls
    BY <1>4, <1>6 DEF LoadStarted
  <2> HIDE DEF url
  <2>2. /\ audit' \in AuditStates /\ audit'.url = url /\ audit'.asked = audit.asked
        /\ audit'.list = audit.list /\ audit'.error = audit.error
        /\ audit'.gap = audit.gap
    BY <1>2, <1>3, <2>1 DEF AuditStates
  <2>3. AuditOK' /\ AllFit(calls') /\ ListFits(audit'.list)
    BY <1>1, <1>4, <2>1, <2>2 DEF AuditOK
  <2>4. AuditShows'
    BY <1>1, <2>1, <2>2 DEF AuditShows
  <2>5. AuditRendered'
    <3> SUFFICES ASSUME ~dirty'
                 PROVE  /\ audit'.asked = <<Query(audit'.url), token'>>
                        /\ UrlCorrected(audit'.url, audit'.list) = audit'.url
      BY DEF AuditRendered, Asked
    <3>1. audit' = audit
      BY <1>4
    <3> QED
      BY <1>4, <1>6, <2>2, <3>1 DEF Asked, url
  <2> QED
    BY <1>4, <1>5, <2>3, <2>4, <2>5 DEF AuditInv, AuditLive
<1>7. CASE Asked # audit.asked
  <2> DEFINE c == Call("list", Query(audit.url))
             started == [audit EXCEPT !.asked = Asked, !.loading = TRUE, !.error = FALSE]
  <2>1. /\ c \in AuditCalls /\ c.op = "list" /\ c.arg = Query(audit.url)
        /\ c.res = Waiting /\ ~c.late
        /\ Query(audit.url) \in Queries
    BY <1>1, <1>3, AuditRequests
  <2>2. Asked \in Queries \X (0 .. MaxToken) /\ Asked[1] = Query(audit.url)
    BY <1>1, <2>1 DEF Asked, ClientOK
  <2> DEFINE asked == Asked
  <2>3. LoadStarted(audit) = started /\ started # audit
    <3>1. LoadStarted(audit) = started
      BY <1>7 DEF LoadStarted
    <3>2. started.asked = Asked
      BY <1>2 DEF AuditStates
    <3> QED
      BY <1>7, <3>1, <3>2
  <2>4. audit' = [started EXCEPT !.url = url] /\ calls' = Append(calls, c)
    BY <1>4, <2>3
  <2>5. started = [audit EXCEPT !.asked = asked, !.loading = TRUE, !.error = FALSE]
        /\ asked \in Queries \X (0 .. MaxToken)
    BY <2>2
  <2> HIDE DEF url, c, asked, started
  <2>6. /\ audit' \in AuditStates /\ audit'.asked = asked
        /\ audit'.list = audit.list
    BY <1>2, <1>3, <2>4, <2>5 DEF AuditStates
  <2>7. dirty'
    BY <1>4, <1>7, <2>6 DEF asked
  <2>8. /\ calls' \in Seq(AuditCalls) /\ AllFit(calls')
        /\ AsksFor(calls', c.arg)
    BY <1>1, <1>2, <2>1, <2>4, AuditAdded
  <2>9. /\ LateFirst(calls', "list") /\ ~AllLate(calls', "list")
    BY <1>1, <1>2, <2>1, <2>4, ListAdded DEF AuditShows
  <2>10. AuditOK' /\ ListFits(audit'.list)
    BY <1>1, <1>4, <2>6, <2>8 DEF AuditOK
  <2>11. AuditShows'
    BY <2>1, <2>2, <2>6, <2>8, <2>9 DEF AuditShows, asked
  <2>12. AuditRendered'
    BY <2>7 DEF AuditRendered
  <2> QED
    BY <1>4, <1>5, <2>8, <2>10, <2>11, <2>12 DEF AuditInv, AuditLive
<1> QED
  BY <1>6, <1>7

\* The reader does something with the URL.
LEMMA AuditClickInv ==
  ASSUME AuditInv, route = "audit", Click, UNCHANGED calls,
         NEW url \in Urls, NEW back \in Seq(Urls),
         audit' = [Clicked EXCEPT !.url = url, !.back = back]
  PROVE  AuditInv'
<1>1. ClientOK /\ AuditOK /\ audit \in AuditStates /\ calls \in Seq(AuditCalls)
  BY DEF AuditInv, AuditLive, AuditOK
<1>2. /\ audit.clicks < AuditClicks /\ dirty' = TRUE
      /\ UNCHANGED <<route, token, good, failures, auditLog>>
  BY DEF Click
<1>3. audit.clicks + 1 \in 0 .. AuditClicks
  BY <1>1, <1>2, AuditAssumption DEF AuditStates
<1>4. /\ audit' \in AuditStates /\ audit'.asked = audit.asked
      /\ audit'.list = audit.list /\ audit'.error = audit.error
      /\ audit'.gap = audit.gap
  BY <1>1, <1>3 DEF Clicked, AuditStates
<1>5. ClientOK'
  BY <1>1, <1>2 DEF ClientOK
<1> QED
  BY <1>1, <1>2, <1>4, <1>5, AuditStepInv DEF AuditOK

\* What the reader does.
LEMMA AuditReaderInv ==
  ASSUME AuditInv, route = "audit", AuditReader
  PROVE  AuditInv'
<1>1. ClientOK /\ AuditOK /\ audit \in AuditStates /\ calls \in Seq(AuditCalls)
  BY DEF AuditInv, AuditLive, AuditOK
<1> DEFINE u == audit.url
           b == audit.back
<1>2. u \in Urls /\ b \in Seq(Urls) /\ 0 \in 0 .. MaxRows
  BY <1>1, AuditAssumption DEF AuditStates
<1>3. Clicked.url = u /\ Clicked.back = b /\ Clicked = [Clicked EXCEPT !.back = b]
  BY <1>1 DEF Clicked, AuditStates
<1>4. ASSUME NEW filter \in Filters, NEW n \in Nat \ {0}
      PROVE  ApplyAuditFilterStatePatch(u, filter, n) \in Urls
  BY <1>2, <1>4 DEF ApplyAuditFilterStatePatch, Url, Urls, defaultAuditPage
<1>5. ASSUME NEW filter \in Filters, UpdateFilterState(filter)  PROVE AuditInv'
  <2> DEFINE v == ApplyAuditFilterStatePatch(u, filter, u.page)
  <2>1. v \in Urls
    BY <1>2, <1>4 DEF Urls
  <2>2. Click /\ UNCHANGED calls /\ audit' = [Clicked EXCEPT !.url = v, !.back = b]
    BY <1>1, <1>3, <1>5 DEF UpdateFilterState, AuditStates, Clicked
  <2> HIDE DEF v
  <2> QED
    BY <1>2, <2>1, <2>2, AuditClickInv
<1>6. ASSUME NEW n \in 1 .. MaxRows, GoToPage(n)  PROVE AuditInv'
  <2> DEFINE v == ApplyAuditFilterStatePatch(u, u.filter, n)
             c == Append(b, u)
  <2>1. v \in Urls /\ c \in Seq(Urls)
    <3>1. u.filter \in Filters /\ n \in Nat \ {0}
      BY <1>2, AuditAssumption DEF Urls
    <3>2. v \in Urls
      BY <1>4, <3>1
    <3> QED
      BY <1>2, <3>2, AppendProperties
  <2>2. Click /\ UNCHANGED calls /\ audit' = [Clicked EXCEPT !.url = v, !.back = c]
    BY <1>3, <1>6 DEF GoToPage
  <2> HIDE DEF v, c
  <2> QED
    BY <2>1, <2>2, AuditClickInv
<1>7. ASSUME NEW row \in 1 .. MaxRows, OpenAuditDrawer(row)  PROVE AuditInv'
  <2> DEFINE v == [u EXCEPT !.selected = row]
  <2>1. v \in Urls
    <3>1. row \in 0 .. MaxRows
      BY AuditAssumption
    <3> HIDE DEF u
    <3> QED
      BY <1>2, <3>1 DEF Urls
  <2>2. Click /\ UNCHANGED calls /\ audit' = [Clicked EXCEPT !.url = v, !.back = b]
    BY <1>1, <1>3, <1>7 DEF OpenAuditDrawer, AuditStates, Clicked
  <2> HIDE DEF v
  <2> QED
    BY <1>2, <2>1, <2>2, AuditClickInv
<1>8. ASSUME CloseAuditDrawer  PROVE AuditInv'
  <2> DEFINE v == [u EXCEPT !.selected = 0]
  <2>1. v \in Urls
    BY <1>2 DEF Urls
  <2>2. Click /\ UNCHANGED calls /\ audit' = [Clicked EXCEPT !.url = v, !.back = b]
    BY <1>1, <1>3, <1>8 DEF CloseAuditDrawer, AuditStates, Clicked
  <2> HIDE DEF v
  <2> QED
    BY <1>2, <2>1, <2>2, AuditClickInv
<1>9. ASSUME Back  PROVE AuditInv'
  <2> DEFINE v == Last(b)
             c == Front(b)
             n == Len(b) - 1
  <2>1. b # <<>> /\ Click /\ UNCHANGED calls
        /\ audit' = [Clicked EXCEPT !.url = v, !.back = c]
    BY <1>3, <1>9 DEF Back
  <2>2. Len(b) \in Nat \ {0}
    BY <1>2, <2>1, EmptySeq, LenProperties
  <2>3. \A j \in 1 .. Len(b) : b[j] \in Urls
    BY <1>2, ElementOfSeq
  <2>4. v \in Urls
    BY <2>2, <2>3 DEF Last
  <2>5. c \in Seq(Urls)
    <3>1. c = SubSeq(b, 1, n)
      BY DEF Front
    <3>2. 1 \in Int /\ n \in Int /\ \A j \in 1 .. n : b[j] \in Urls
      BY <2>2, <2>3
    <3> HIDE DEF n, c
    <3> QED
      BY <3>1, <3>2, SubSeqProperties
  <2> HIDE DEF v, c
  <2> QED
    BY <2>1, <2>4, <2>5, AuditClickInv
<1>10. ASSUME HandleAuditExport  PROVE AuditInv'
  <2> DEFINE c == Call("export", [filter |-> u.filter])
             g == audit.gap \/ audit.error
  <2>1. /\ audit.clicks < AuditClicks /\ dirty' = TRUE
        /\ UNCHANGED <<route, token, good, failures, auditLog>>
        /\ calls' = Append(calls, c)
        /\ audit' = [Clicked EXCEPT !.exporting = TRUE, !.error = FALSE, !.gap = g]
    BY <1>1, <1>10 DEF HandleAuditExport, Click, AuditStates, Clicked
  <2>2. c \in AuditCalls /\ c.op = "export" /\ c.res = Waiting /\ ~c.late
    BY <1>1, <1>2, AuditRequests
  <2>3. audit.clicks + 1 \in 0 .. AuditClicks
    BY <1>1, <2>1, AuditAssumption DEF AuditStates
  <2>4. g \in BOOLEAN /\ (audit.gap => g) /\ (audit.error => g)
    BY <1>1 DEF AuditStates
  <2> HIDE DEF c, g
  <2>5. /\ audit' \in AuditStates /\ audit'.asked = audit.asked
        /\ audit'.list = audit.list /\ audit'.gap = g
    BY <1>1, <2>1, <2>3, <2>4 DEF Clicked, AuditStates
  <2>6. ClientOK'
    BY <1>1, <2>1 DEF ClientOK
  <2>7. /\ calls' \in Seq(AuditCalls) /\ (AllFit(calls) => AllFit(calls'))
        /\ \A query : AsksFor(calls, query) => AsksFor(calls', query)
    BY <1>1, <2>1, <2>2, AuditAdded
  <2>8. /\ LateFirst(calls, "list") => LateFirst(calls', "list")
        /\ AllLate(calls', "list") => AllLate(calls, "list")
    BY <1>1, <2>1, <2>2, ListAdded
  <2> QED
    BY <1>1, <2>1, <2>4, <2>5, <2>6, <2>7, <2>8, AuditStepInv DEF AuditOK
<1> QED
  BY <1>5, <1>6, <1>7, <1>8, <1>9, <1>10 DEF AuditReader

\* The API does its part: the page is as it was.
LEMMA AuditApiInv ==
  ASSUME AuditInv, route = "audit", NEW i \in DOMAIN calls, NEW c \in AuditCalls,
         calls' = [calls EXCEPT ![i] = c],
         c.op = calls[i].op, c.arg = calls[i].arg, c.late = calls[i].late,
         CallFits(calls[i]) => CallFits(c),
         UNCHANGED <<route, audit, auditLog>>, ClientOK',
         ~dirty' => ~dirty /\ token' = token
  PROVE  AuditInv'
<1>1. /\ AuditOK /\ audit \in AuditStates /\ calls \in Seq(AuditCalls)
      /\ AllFit(calls)
  BY DEF AuditInv, AuditLive, AuditOK
<1>2. CallFits(c)
  BY <1>1 DEF AllFit
<1>3. /\ calls' \in Seq(AuditCalls) /\ AllFit(calls')
      /\ \A query : AsksFor(calls, query) => AsksFor(calls', query)
  BY <1>1, <1>2, AuditServed
<1>4. /\ LateFirst(calls, "list") => LateFirst(calls', "list")
      /\ AllLate(calls', "list") <=> AllLate(calls, "list")
  BY <1>1, ListServed
<1> QED
  BY <1>1, <1>3, <1>4, AuditStepInv DEF AuditOK

\* An answer is taken that is not a list, or an error comes instead of one.
LEMMA AuditAnswerInv ==
  ASSUME AuditInv, route = "audit", NEW i \in DOMAIN calls, Answer(i), ClientOK',
         NEW exporting \in BOOLEAN, NEW loading \in BOOLEAN, NEW error \in BOOLEAN,
         audit' = [audit EXCEPT !.exporting = exporting, !.loading = loading,
                                !.error = error],
         audit.error \/ calls[i].op = "list" => error
  PROVE  AuditInv'
<1>1. AuditOK /\ audit \in AuditStates /\ calls \in Seq(AuditCalls)
  BY DEF AuditInv, AuditLive, AuditOK
<1>2. /\ calls' = Without(i) /\ dirty' = TRUE
      /\ UNCHANGED <<route, token, good, auditLog>>
  BY DEF Answer
<1>3. /\ audit' \in AuditStates /\ audit'.asked = audit.asked
      /\ audit'.list = audit.list /\ audit'.gap = audit.gap /\ audit'.error = error
  BY <1>1 DEF AuditStates
<1>4. /\ calls' \in Seq(AuditCalls) /\ (AllFit(calls) => AllFit(calls'))
      /\ \A query : AsksFor(calls, query) => AsksFor(calls', query)
  BY <1>1, <1>2, AuditRemoved
<1>5. /\ LateFirst(calls, "list") => LateFirst(calls', "list")
      /\ AllLate(calls', "list") /\ calls[i].op # "list" => AllLate(calls, "list")
  BY <1>1, <1>2, AuditHoldsLate, ListRemoved
<1> QED
  BY <1>1, <1>2, <1>3, <1>4, <1>5, AuditStepInv DEF AuditOK

\* A list is taken: it is the one asked for last, or it comes out of order.
LEMMA TakeListInv ==
  ASSUME AuditInv, route = "audit", NEW i \in DOMAIN calls, TakeList(i)
  PROVE  AuditInv'
<1>1. /\ ClientOK /\ AuditOK /\ AllFit(calls) /\ AuditShows
      /\ audit \in AuditStates /\ calls \in Seq(AuditCalls)
  BY DEF AuditInv, AuditLive, AuditOK
<1> DEFINE c == calls[i]
           list == Found(c)
<1>2. /\ c.op = "list" /\ c.res.st = "read"
      /\ audit' = [audit EXCEPT !.list = list, !.loading = FALSE, !.gap = c.late]
      /\ calls' = Without(i) /\ dirty' = TRUE
      /\ UNCHANGED <<route, token, good, failures, auditLog>>
  BY DEF TakeList, ListLoaded, Answer
<1>3. c \in AuditCalls /\ c \in ListReqs /\ c.late \in BOOLEAN /\ CallFits(c)
  <2>1. c \in AuditCalls
    BY <1>1, LenProperties, ElementOfSeq
  <2> HIDE DEF c
  <2>2. c \in ListReqs /\ c.late \in BOOLEAN
    BY <1>2, <2>1, AuditCallFacts
  <2> QED
    BY <1>1, <2>1, <2>2 DEF AllFit, c
<1>4. list \in Lists /\ ListFits(list) /\ list.filter = c.arg.filter
  <2> HIDE DEF c
  <2> QED
    BY <1>1, <1>2, <1>3, FoundFits
<1>5. /\ calls' \in Seq(AuditCalls) /\ AllFit(calls')
      /\ \A query : AsksFor(calls, query) => AsksFor(calls', query)
  BY <1>1, <1>2, AuditRemoved
<1>6. /\ LateFirst(calls, "list") => LateFirst(calls', "list")
      /\ AllLate(calls', "list") /\ LateFirst(calls, "list") =>
           c.late \/ IsNewest(calls, "list", i)
  BY <1>1, <1>2, AuditHoldsLate, ListRemoved
<1>7. \A query : AsksFor(calls, query) /\ IsNewest(calls, "list", i) => c.arg = query
  BY DEF AsksFor
<1> HIDE DEF list, c
<1>8. /\ audit' \in AuditStates /\ audit'.asked = audit.asked /\ audit'.list = list
      /\ audit'.gap = c.late /\ audit'.error = audit.error
  BY <1>1, <1>2, <1>3, <1>4 DEF AuditStates
<1>9. ClientOK' /\ AuditOK'
  BY <1>1, <1>2, <1>5, <1>8 DEF ClientOK, AuditOK
<1>10. AuditShows'
  BY <1>1, <1>4, <1>5, <1>6, <1>7, <1>8 DEF AuditShows
<1>11. AuditRendered' /\ ListFits(audit'.list)
  BY <1>2, <1>4, <1>8 DEF AuditRendered
<1> QED
  BY <1>2, <1>5, <1>9, <1>10, <1>11 DEF AuditInv, AuditLive

\* What happens on the page of the audit log.
LEMMA AuditNextInv ==
  ASSUME AuditInv, AuditNext
  PROVE  AuditInv'
<1>1. /\ route = "audit" /\ ClientOK /\ AuditOK
      /\ audit \in AuditStates /\ calls \in Seq(AuditCalls)
      /\ auditLog \in Seq(Actions) /\ Len(auditLog) <= MaxRows
  BY DEF AuditInv, AuditLive, AuditOK, AuditNext
<1>2. \A i \in DOMAIN calls : calls[i] \in AuditCalls
  BY <1>1, LenProperties, ElementOfSeq
<1>3. audit.loading \in BOOLEAN /\ audit.exporting \in BOOLEAN /\ audit.error \in BOOLEAN
  BY <1>1 DEF AuditStates
<1>4. CASE AuditRender
  BY <1>1, <1>4, AuditRenderInv
<1>5. CASE AuditReader
  BY <1>1, <1>5, AuditReaderInv
<1>6. ASSUME NEW i \in DOMAIN calls, Count(i)  PROVE AuditInv'
  <2> DEFINE res == [st |-> "read", value |-> Counted(calls[i].arg)]
             c == [calls[i] EXCEPT !.res = res]
  <2>1. /\ calls[i].op = "list" /\ calls' = [calls EXCEPT ![i] = c]
        /\ UNCHANGED <<route, token, good, dirty, failures, audit, auditLog>>
    BY <1>6 DEF Count, Served, Answered, auditVars
  <2>2. calls[i] \in ListReqs
    BY <1>2, <2>1, AuditCallFacts
  <2>3. calls[i].arg \in Queries
    BY <2>2 DEF ListReqs
  <2> DEFINE count == Counted(calls[i].arg)
  <2>4. count \in Counts /\ PageFits(count, calls[i].arg.size)
    BY <1>1, <2>3, CountedFits
  <2>5. res = [st |-> "read", value |-> count]
    OBVIOUS
  <2> HIDE DEF count, res
  <2>6. /\ c \in ListReqs /\ c.op = calls[i].op /\ c.arg = calls[i].arg
        /\ c.late = calls[i].late /\ c.res = res
    BY <2>2, <2>4, <2>5 DEF ListReqs
  <2> HIDE DEF c
  <2>7. c \in AuditCalls /\ CallFits(c)
    BY <2>4, <2>5, <2>6 DEF AuditCalls, CallFits
  <2>8. ClientOK'
    BY <1>1, <2>1 DEF ClientOK
  <2> QED
    BY <1>1, <2>1, <2>6, <2>7, <2>8, AuditApiInv
<1>7. ASSUME NEW i \in DOMAIN calls, ListFails(i) \/ TakeExport(i) \/ ExportFails(i)
      PROVE  AuditInv'
  <2>1. /\ Answer(i)
        /\ UNCHANGED failures \/ (failures < MaxFailures /\ failures' = failures + 1)
    BY <1>7 DEF ListFails, TakeExport, ExportFails, Fails, Read
  <2>2. ClientOK'
    BY <1>1, <2>1, ClientAssumption DEF ClientOK, Answer
  <2>3. CASE ListFails(i)
    <3>1. audit' = [audit EXCEPT !.exporting = audit.exporting, !.loading = FALSE,
                                 !.error = TRUE]
      BY <1>1, <2>3 DEF ListFails, AuditStates
    <3> QED
      BY <1>1, <1>3, <2>1, <2>2, <3>1, AuditAnswerInv
  <2>4. CASE TakeExport(i)
    <3>1. /\ calls[i].op = "export"
          /\ audit' = [audit EXCEPT !.exporting = FALSE, !.loading = audit.loading,
                                    !.error = audit.error]
      BY <1>1, <2>4 DEF TakeExport, Read, Served, AuditStates
    <3> QED
      BY <1>1, <1>3, <2>1, <2>2, <3>1, AuditAnswerInv
  <2>5. CASE ExportFails(i)
    <3>1. audit' = [audit EXCEPT !.exporting = FALSE, !.loading = audit.loading,
                                 !.error = TRUE]
      BY <1>1, <2>5 DEF ExportFails, AuditStates
    <3> QED
      BY <1>1, <1>3, <2>1, <2>2, <3>1, AuditAnswerInv
  <2> QED
    BY <1>7, <2>3, <2>4, <2>5
<1>8. CASE AuditAnswer \/ AuditFailure
  BY <1>1, <1>6, <1>7, <1>8, TakeListInv DEF AuditAnswer, AuditFailure
<1>9. CASE RowAdded
  <2>1. /\ Len(auditLog) < MaxRows /\ auditLog' = Append(auditLog, "a")
        /\ UNCHANGED <<route, calls, token, good, dirty, failures, audit>>
    BY <1>9 DEF RowAdded, clientVars
  <2>2. auditLog' \in Seq(Actions) /\ Len(auditLog') <= MaxRows
    <3>1. "a" \in Actions /\ Len(auditLog) \in Nat
      BY <1>1, LenProperties DEF Actions
    <3>2. auditLog' \in Seq(Actions) /\ Len(auditLog') = Len(auditLog) + 1
      BY <1>1, <2>1, <3>1, AppendProperties
    <3> DEFINE l == Len(auditLog)
               m == Len(auditLog')
    <3>3. l \in Nat /\ m = l + 1 /\ l < MaxRows
      BY <2>1, <3>1, <3>2
    <3> HIDE DEF l, m
    <3>4. m <= MaxRows
      BY <3>3, AuditAssumption
    <3> QED
      BY <3>2, <3>4 DEF m
  <2>3. ClientOK'
    BY <1>1, <2>1 DEF ClientOK
  <2> QED
    BY <1>1, <2>1, <2>2, <2>3, AuditStepInv
<1>10. CASE Retries /\ UNCHANGED auditVars
  <2>1. PICK i \in DOMAIN calls : Retry(i)
    BY <1>10 DEF Retries
  <2> DEFINE c == [calls[i] EXCEPT !.token = good]
  <2>2. /\ token' = good /\ dirty' = TRUE /\ calls' = [calls EXCEPT ![i] = c]
        /\ UNCHANGED <<route, good, failures, audit, auditLog>>
    BY <1>10, <2>1 DEF Retry, auditVars
  <2>3. good \in 0 .. MaxToken /\ good \in good .. MaxToken
    BY <1>1, ClientAssumption DEF ClientOK
  <2>4. /\ c \in AuditCalls /\ c.op = calls[i].op /\ c.arg = calls[i].arg
        /\ c.late = calls[i].late /\ c.res = calls[i].res
    <3>1. CASE calls[i] \in ListReqs
      BY <2>3, <3>1 DEF AuditCalls, ListReqs
    <3>2. CASE calls[i] \in ExportReqs
      BY <2>3, <3>2 DEF AuditCalls, ExportReqs
    <3> QED
      BY <1>2, <3>1, <3>2 DEF AuditCalls
  <2> HIDE DEF c
  <2>5. ClientOK' /\ (CallFits(calls[i]) => CallFits(c))
    BY <1>1, <2>2, <2>3, <2>4 DEF ClientOK, CallFits
  <2> QED
    BY <1>1, <2>2, <2>4, <2>5, AuditApiInv
<1>11. CASE AuditAtRest /\ TokenExpires /\ UNCHANGED auditVars
  <2>1. /\ good < MaxToken /\ good' = good + 1
        /\ UNCHANGED <<route, calls, token, dirty, failures, audit, auditLog>>
    BY <1>11 DEF TokenExpires, auditVars
  <2>2. ClientOK'
    BY <1>1, <2>1, ClientAssumption DEF ClientOK
  <2> QED
    BY <1>1, <2>1, <2>2, AuditStepInv
<1> QED
  BY <1>4, <1>5, <1>8, <1>9, <1>10, <1>11 DEF AuditNext
-----------------------------------------------------------------------------
(* The page of a project.                                                  *)

PageIds == Projects \cup {None}
Tokens == 0 .. MaxToken

\* What the effects saw at the last render, which is not before the first.
SeenStates ==
  [project : Projects \X PageIds \X Tokens,
   env : Tabs \X PageIds \X Tokens \X PageIds,
   deployments : Tabs \X PageIds \X Tokens \X PageIds]

Editors ==
  [content : PageIds, typed : BOOLEAN, error : BOOLEAN, loading : BOOLEAN,
   saving : BOOLEAN, loaded : PageIds]
DeploymentLists ==
  [of : PageIds, running : BOOLEAN, error : BOOLEAN, loading : BOOLEAN,
   deploying : BOOLEAN, loaded : PageIds]
PageStates ==
  [id : Projects, tab : Tabs, project : PageIds, error : BOOLEAN, loading : BOOLEAN,
   fresh : BOOLEAN, env : Editors, deployments : DeploymentLists,
   seen : {<<>>} \cup SeenStates, since : PageIds, merged : BOOLEAN, stray : BOOLEAN,
   acts : 0 .. PageActs]

\* The requests of the page, and how far each can get.
GetCalls ==
  [op : {"project"}, arg : [id : Projects, current : PageIds],
   token : Tokens, res : {Waiting}, late : BOOLEAN]
EnvCalls ==
  [op : {"env"}, arg : [id : Projects, over : BOOLEAN],
   token : Tokens, res : {Waiting} \cup { Ok(v) : v \in PageIds }, late : BOOLEAN]
PutCalls ==
  [op : {"put"}, arg : [id : Projects, content : PageIds],
   token : Tokens, res : {Waiting, Ok(TRUE)}, late : BOOLEAN]
DeploymentsCalls ==
  [op : {"deployments"}, arg : [id : Projects, after : BOOLEAN],
   token : Tokens, res : {Waiting, Ok(TRUE), Ok(FALSE)}, late : BOOLEAN]
DeployCalls ==
  [op : {"deploy"}, arg : [id : Projects], token : Tokens,
   res : {Waiting, [st |-> "read"], Ok(TRUE), Ok(FALSE)}, late : BOOLEAN]
PageCalls ==
  GetCalls \cup EnvCalls \cup PutCalls \cup DeploymentsCalls \cup DeployCalls

PageTyped ==
  page \in PageStates /\ env \in [Projects -> PageIds] /\ locked \subseteq Projects
ProjectOK == PageTyped /\ calls \in Seq(PageCalls)

\* A request of one of the kinds is under way for p.
AskedFor(cs, ops, p) == \E i \in DOMAIN cs : cs[i].op \in ops /\ cs[i].arg.id = p
\* What is saved for a project, or was read for it, is its own.
Own(c) ==
  /\ c.op = "put" => c.arg.content \in {None, c.arg.id}
  /\ c.op = "env" /\ c.res.st = "ok" => c.res.value \in {None, c.arg.id}
AllOwn(cs) == \A i \in DOMAIN cs : Own(cs[i])
\* No env was asked for over what was typed.
Over(c) == c.op = "env" /\ c.arg.over
NoneOver(cs) == \A i \in DOMAIN cs : ~Over(cs[i])

\* The effect has run for what is shown.
Settled(effect) == ~page.fresh /\ ~Changed(effect)

\* The effects run in a render; before the first there is nothing to be answered.
Rendered ==
  /\ page.seen = <<>> => calls = <<>> /\ dirty
  /\ page.seen # <<>> =>
       /\ page.seen.project[3] <= token /\ page.seen.env[3] <= token
       /\ page.seen.deployments[3] <= token
  /\ ~dirty => page.seen = Seen /\ ~page.fresh /\ page.since = None

\* What was shown or loaded at the last render, and is not any more, made room for an
\* answer that came since, or was given up for the project of one.
TakenSince ==
  page.seen # <<>> =>
    /\ ~page.merged =>
         /\ page.project \in {page.seen.project[2], None, page.since}
         /\ page.env.loaded \in {page.seen.env[4], None, page.since}
         /\ page.deployments.loaded \in {page.seen.deployments[4], None, page.since}
    /\ page.project = None => page.seen.project[2] = None \/ page.error
    /\ page.env.loaded = None => page.seen.env[4] = None \/ page.fresh
    /\ page.deployments.loaded = None => page.seen.deployments[4] = None \/ page.fresh

\* The project of the URL of the last render is shown, or being loaded, or the effect
\* that loads it will run.
ProjectAsked ==
  page.seen # <<>> /\ ~page.error /\ ~page.merged =>
    \/ page.project = page.seen.project[1]
    \/ page.project # page.seen.project[2] \/ token # page.seen.project[3]
    \/ AskedFor(calls, {"project"}, page.seen.project[1])

\* An env that is not loaded is being loaded, or saved.
EnvAsked ==
  ~page.merged /\ Settled("env") /\ page.tab = "env"
    /\ page.project \notin {None, page.env.loaded}
    => page.env.error \/ AskedFor(calls, {"env", "put"}, page.project)

\* So are deployments; a failure may hide that they are not, but only one of another
\* project hides that failure.
DeploymentsAsked ==
  /\ page.deployments.of = page.deployments.loaded
  /\ ~page.merged /\ Settled("deployments") /\ page.tab = "deployments"
     /\ page.project \notin {None, page.deployments.loaded}
     => /\ failures = 0 => AskedFor(calls, {"deployments"}, page.project)
        /\ ~page.stray => \/ page.deployments.error
                          \/ AskedFor(calls, {"deployments", "deploy"}, page.project)

\* While no answer came for a project that is not shown, every env is in its place.
OwnContent ==
  ~page.stray =>
    /\ page.project # None => page.env.content \in {None, page.project}
    /\ AllOwn(calls) /\ EnvIsOwn

\* What is typed is typed into an env that is loaded, and that env is not asked for.
Plain == failures = 0 /\ ~page.stray /\ ~page.merged
Typing ==
  Plain =>
    /\ Settled("env") /\ page.tab = "env" /\ page.project \notin {None, page.env.loaded}
         => page.env.loading
    /\ page.env.typed /\ page.project # None => page.env.loaded = page.project
    /\ NoneOver(calls)

ProjectLive ==
  /\ ProjectOK /\ Rendered /\ TakenSince /\ ProjectAsked /\ EnvAsked
  /\ DeploymentsAsked /\ OwnContent /\ Typing
\* On another page the page of a project is as it was at first.
ProjectInv ==
  /\ PageTyped /\ EnvIsOwn
  /\ route = "project" => ClientOK /\ ProjectLive

\* What is known of a request of the page.
LEMMA PageCallFacts ==
  ASSUME NEW c \in PageCalls
  PROVE  /\ c.op \in {"project", "env", "put", "deployments", "deploy"}
         /\ c.arg.id \in Projects /\ c.late \in BOOLEAN /\ c.token \in Tokens
         /\ c.op = "project" => c \in GetCalls
         /\ c.op = "env" => c \in EnvCalls
         /\ c.op = "put" => c \in PutCalls
         /\ c.op = "deployments" => c \in DeploymentsCalls
         /\ c.op = "deploy" => c \in DeployCalls
BY DEF PageCalls, GetCalls, EnvCalls, PutCalls, DeploymentsCalls, DeployCalls

\* A request of the page is one when it is late as well.
LEMMA PageHoldsLate == HoldsLate(PageCalls)
<1>1. ASSUME NEW c \in GetCalls
      PROVE  LateOf(c) \in GetCalls /\ SameCall(LateOf(c), c) /\ LateOf(c).late
  BY DEF GetCalls, LateOf, SameCall
<1>2. ASSUME NEW c \in EnvCalls
      PROVE  LateOf(c) \in EnvCalls /\ SameCall(LateOf(c), c) /\ LateOf(c).late
  BY DEF EnvCalls, LateOf, SameCall
<1>3. ASSUME NEW c \in PutCalls
      PROVE  LateOf(c) \in PutCalls /\ SameCall(LateOf(c), c) /\ LateOf(c).late
  BY DEF PutCalls, LateOf, SameCall
<1>4. ASSUME NEW c \in DeploymentsCalls
      PROVE  LateOf(c) \in DeploymentsCalls /\ SameCall(LateOf(c), c) /\ LateOf(c).late
  BY DEF DeploymentsCalls, LateOf, SameCall
<1>5. ASSUME NEW c \in DeployCalls
      PROVE  LateOf(c) \in DeployCalls /\ SameCall(LateOf(c), c) /\ LateOf(c).late
  BY DEF DeployCalls, LateOf, SameCall
<1> QED
  BY <1>1, <1>2, <1>3, <1>4, <1>5 DEF HoldsLate, PageCalls

\* What a request that is made adds to those under way.
AsksMore(cs, c, ds) ==
  /\ ds \in Seq(PageCalls)
  /\ \A ops, p : AskedFor(cs, ops, p) => AskedFor(ds, ops, p)
  /\ \A ops : c.op \in ops => AskedFor(ds, ops, c.arg.id)
  /\ AllOwn(cs) /\ Own(c) => AllOwn(ds)
  /\ NoneOver(cs) /\ ~Over(c) => NoneOver(ds)

\* A request that is made is asked for beside those that are there.
LEMMA PageAsksMore ==
  ASSUME NEW cs \in Seq(PageCalls), NEW c \in PageCalls
  PROVE  AsksMore(cs, c, Append(cs, c))
<1> DEFINE d == Append(cs, c)
           n == Len(cs) + 1
<1>1. /\ d \in Seq(PageCalls)
      /\ \A j \in DOMAIN cs : j \in DOMAIN d /\ d[j] = cs[j]
      /\ n \in DOMAIN d /\ d[n] = c
      /\ \A j \in DOMAIN d : j \in DOMAIN cs \/ j = n
  BY CallAdded
<1> HIDE DEF d, n
<1>2. \A ops, p : AskedFor(cs, ops, p) => AskedFor(d, ops, p)
  BY <1>1 DEF AskedFor
<1>3. \A ops : c.op \in ops => AskedFor(d, ops, c.arg.id)
  BY <1>1 DEF AskedFor
<1>4. AllOwn(cs) /\ Own(c) => AllOwn(d)
  BY <1>1 DEF AllOwn
<1>5. NoneOver(cs) /\ ~Over(c) => NoneOver(d)
  BY <1>1 DEF NoneOver
<1> QED
  BY <1>1, <1>2, <1>3, <1>4, <1>5 DEF AsksMore, d

\* What is left when an answer is taken.
AsksLess(i, w) ==
  /\ w \in Seq(PageCalls)
  /\ \A ops, p : /\ AskedFor(calls, ops, p)
                 /\ calls[i].op \notin ops \/ calls[i].arg.id # p
                 => AskedFor(w, ops, p)
  /\ AllOwn(calls) => AllOwn(w)
  /\ NoneOver(calls) => NoneOver(w)

\* Taking an answer leaves that.
LEMMA PageAsksLess ==
  ASSUME calls \in Seq(PageCalls), NEW i \in DOMAIN calls
  PROVE  AsksLess(i, Without(i))
<1> DEFINE w == Without(i)
<1>1. w \in Seq(PageCalls) /\ AllBut(i, w)
  BY WithoutAllBut, PageHoldsLate
<1> HIDE DEF w
<1>2. /\ \A j \in DOMAIN w :
           /\ Old(i, j) \in DOMAIN calls /\ w[j].op = calls[Old(i, j)].op
           /\ w[j].arg = calls[Old(i, j)].arg /\ w[j].res = calls[Old(i, j)].res
      /\ \A j \in DOMAIN calls : j # i => \E k \in DOMAIN w : Old(i, k) = j
  BY <1>1 DEF AllBut, SameCall
<1>3. ASSUME NEW ops, NEW p, AskedFor(calls, ops, p),
             calls[i].op \notin ops \/ calls[i].arg.id # p
      PROVE  AskedFor(w, ops, p)
  <2>1. PICK j \in DOMAIN calls : calls[j].op \in ops /\ calls[j].arg.id = p
    BY <1>3 DEF AskedFor
  <2>2. PICK k \in DOMAIN w : Old(i, k) = j
    BY <1>2, <1>3, <2>1
  <2> QED
    BY <1>2, <2>1, <2>2 DEF AskedFor
<1>4. ASSUME AllOwn(calls)  PROVE AllOwn(w)
  <2>1. \A j \in DOMAIN w : Own(calls[Old(i, j)]) => Own(w[j])
    BY <1>2 DEF Own
  <2> QED
    BY <1>2, <1>4, <2>1 DEF AllOwn
<1>5. ASSUME NoneOver(calls)  PROVE NoneOver(w)
  BY <1>2, <1>5 DEF NoneOver, Over
<1> QED
  BY <1>1, <1>3, <1>4, <1>5 DEF AsksLess, w

\* Requests that ask for the same, whatever their tokens and what they came to.
SameRequests(cs, ds) ==
  /\ ds \in Seq(PageCalls)
  /\ \A ops, p : AskedFor(cs, ops, p) => AskedFor(ds, ops, p)
  /\ NoneOver(cs) => NoneOver(ds)

\* The API has done its part of a request, or it is sent again.
LEMMA PageAnswered ==
  ASSUME calls \in Seq(PageCalls), NEW i \in DOMAIN calls, NEW c \in PageCalls,
         c.op = calls[i].op, c.arg = calls[i].arg
  PROVE  /\ calls # <<>> /\ SameRequests(calls, [calls EXCEPT ![i] = c])
         /\ AllOwn(calls) /\ Own(c) => AllOwn([calls EXCEPT ![i] = c])
<1> DEFINE d == [calls EXCEPT ![i] = c]
<1>1. /\ d \in Seq(PageCalls) /\ DOMAIN d = DOMAIN calls
      /\ \A j \in DOMAIN calls : d[j] = IF j = i THEN c ELSE calls[j]
  BY CallSet
<1>2. calls # <<>>
  BY EmptySeq
<1> HIDE DEF d
<1>3. \A j \in DOMAIN calls : d[j].op = calls[j].op /\ d[j].arg = calls[j].arg
  BY <1>1
<1>4. SameRequests(calls, d)
  BY <1>1, <1>3 DEF SameRequests, AskedFor, NoneOver, Over
<1>5. AllOwn(calls) /\ Own(c) => AllOwn(d)
  BY <1>1 DEF AllOwn
<1> QED
  BY <1>2, <1>4, <1>5 DEF d

\* With no render due and no request under way the page shows what it should.
LEMMA ProjectAtRestOwn == ASSUME ProjectInv PROVE ShownIsOwn
<1>1. EnvIsOwn
  BY DEF ProjectInv
<1>2. ASSUME ProjectAtRest, ~page.error, ~page.merged
      PROVE  /\ page.project = page.id
             /\ page.tab = "env" /\ ~page.env.error =>
                  /\ page.env.loaded = page.id
                  /\ ~page.stray => page.env.content \in {None, page.id}
             /\ page.tab = "deployments" /\ ~page.deployments.error =>
                  page.deployments.of = page.id \/ (page.stray /\ failures > 0)
  <2>1. /\ ClientOK /\ ProjectOK /\ Rendered /\ ProjectAsked /\ EnvAsked
        /\ DeploymentsAsked /\ OwnContent /\ calls = <<>> /\ ~dirty
    BY <1>2 DEF ProjectAtRest, ProjectInv, ProjectLive
  <2>2. /\ page.id \in Projects /\ page.project \in PageIds /\ None \notin Projects
        /\ failures \in Nat
    BY <2>1 DEF ProjectOK, PageTyped, PageStates, Projects, None, ClientOK
  <2>3. /\ page.seen = Seen /\ ~page.fresh /\ page.seen # <<>>
        /\ page.seen.project = <<page.id, page.project, token>>
    BY <2>1 DEF Rendered, Seen
  <2>4. Settled("env") /\ Settled("deployments")
    BY <2>3 DEF Settled, Changed
  <2>5. \A ops, p : ~AskedFor(calls, ops, p)
    BY <2>1 DEF AskedFor
  <2>6. page.project = page.id
    BY <1>2, <2>1, <2>3, <2>5 DEF ProjectAsked
  <2>7. ASSUME page.tab = "env", ~page.env.error
        PROVE  page.env.loaded = page.id
    BY <1>2, <2>1, <2>2, <2>4, <2>5, <2>6, <2>7 DEF EnvAsked
  <2>8. ASSUME ~page.stray  PROVE page.env.content \in {None, page.id}
    BY <2>1, <2>2, <2>6, <2>8 DEF OwnContent
  <2>9. ASSUME page.tab = "deployments", ~page.deployments.error,
               ~(page.stray /\ failures > 0)
        PROVE  page.deployments.of = page.id
    BY <1>2, <2>1, <2>2, <2>4, <2>5, <2>6, <2>9 DEF DeploymentsAsked
  <2> QED
    BY <2>6, <2>7, <2>8, <2>9
<1> QED
  BY <1>1, <1>2 DEF ShownIsOwn

\* After a render the effects have run for what is shown.
LEMMA RenderedShows ==
  ASSUME ProjectLive, ~dirty
  PROVE  /\ page.seen = Seen /\ page.seen # <<>>
         /\ Settled("env") /\ Settled("deployments")
BY DEF ProjectLive, Rendered, Settled, Changed, Seen

\* An effect that has run still has when nothing changed that it depends on.
LEMMA SettledSame ==
  ASSUME page'.seen = page.seen, page'.fresh = page.fresh, page'.tab = page.tab,
         page'.project = page.project, token' = token,
         page'.env.loaded = page.env.loaded,
         page'.deployments.loaded = page.deployments.loaded
  PROVE  /\ Settled("env")' <=> Settled("env")
         /\ Settled("deployments")' <=> Settled("deployments")
<1>1. /\ Seen'.env = Seen.env /\ Seen'.deployments = Seen.deployments
  BY DEF Seen
<1> QED
  BY <1>1 DEF Settled, Changed

\* What is kept when the reader does something.
LEMMA ActedInv ==
  ASSUME ProjectLive, UNCHANGED <<token, env, locked>>, dirty',
         page' \in PageStates, page'.seen = page.seen, page'.fresh = page.fresh,
         page'.project = page.project, page'.error = page.error,
         page'.since = page.since, page'.merged = page.merged,
         page'.env.loaded = page.env.loaded,
         page'.deployments.loaded = page.deployments.loaded,
         calls' \in Seq(PageCalls), calls' = calls \/ page.seen # <<>>,
         \A ops, p : AskedFor(calls, ops, p) => AskedFor(calls', ops, p),
         EnvAsked', DeploymentsAsked', OwnContent', Typing'
  PROVE  ProjectLive'
<1>1. ProjectOK'
  BY DEF ProjectLive, ProjectOK, PageTyped
<1>2. Rendered'
  BY DEF ProjectLive, Rendered
<1>3. TakenSince'
  BY DEF ProjectLive, TakenSince
<1>4. ProjectAsked'
  BY DEF ProjectLive, ProjectAsked
<1> QED
  BY <1>1, <1>2, <1>3, <1>4 DEF ProjectLive

\* What the reader does is counted.
LEMMA ActedFacts ==
  ASSUME page \in PageStates, Acts
  PROVE  /\ Acted \in PageStates
         /\ Acted.id = page.id /\ Acted.tab = page.tab /\ Acted.project = page.project
         /\ Acted.error = page.error /\ Acted.loading = page.loading
         /\ Acted.fresh = page.fresh /\ Acted.env = page.env
         /\ Acted.deployments = page.deployments /\ Acted.seen = page.seen
         /\ Acted.since = page.since /\ Acted.merged = page.merged
         /\ Acted.stray = page.stray
<1>1. page.acts + 1 \in 0 .. PageActs
  BY PageActsAssumption DEF PageStates, Acts
<1> QED
  BY <1>1 DEF Acted, PageStates

\* What is known of the page before the reader does something on it.
LEMMA ActFacts ==
  ASSUME ProjectLive, Act
  PROVE  /\ page \in PageStates /\ page.env \in Editors
         /\ page.deployments \in DeploymentLists /\ calls \in Seq(PageCalls)
         /\ Acts /\ dirty' /\ UNCHANGED <<token, failures, env, locked>>
         /\ page.seen = Seen /\ page.seen # <<>>
         /\ Settled("env") /\ Settled("deployments")
<1>1. page \in PageStates /\ calls \in Seq(PageCalls)
  BY DEF ProjectLive, ProjectOK, PageTyped
<1>2. Acts /\ ~dirty /\ dirty' /\ UNCHANGED <<token, failures, env, locked>>
  BY DEF Act
<1> QED
  BY <1>1, <1>2, RenderedShows DEF PageStates

\* The requests of the page are of its kinds.
LEMMA PageCallsMade ==
  ASSUME ClientOK, page \in PageStates
  PROVE  /\ ProjectCall \in PageCalls /\ Own(ProjectCall) /\ ~Over(ProjectCall)
         /\ ProjectCall.op = "project" /\ ProjectCall.arg.id = page.id
         /\ page.project # None =>
              /\ \A over \in BOOLEAN :
                   /\ EnvCall(over) \in PageCalls /\ EnvCall(over).op = "env"
                   /\ EnvCall(over).arg.id = page.project
                   /\ Own(EnvCall(over)) /\ (Over(EnvCall(over)) <=> over)
              /\ PutCall \in PageCalls /\ PutCall.op = "put" /\ ~Over(PutCall)
              /\ PutCall.arg.id = page.project
              /\ page.env.content \in {None, page.project} => Own(PutCall)
              /\ DeployCall \in PageCalls /\ DeployCall.op = "deploy"
              /\ DeployCall.arg.id = page.project
              /\ Own(DeployCall) /\ ~Over(DeployCall)
         /\ \A id \in Projects, after \in BOOLEAN :
              /\ DeploymentsCall(id, after) \in PageCalls
              /\ DeploymentsCall(id, after).op = "deployments"
              /\ DeploymentsCall(id, after).arg.id = id
              /\ Own(DeploymentsCall(id, after)) /\ ~Over(DeploymentsCall(id, after))
<1>1. /\ token \in Tokens /\ page.id \in Projects /\ page.project \in PageIds
      /\ page.project # None => page.project \in Projects
      /\ page.env.content \in PageIds
  BY DEF ClientOK, Tokens, PageStates, Editors, PageIds
<1> USE DEF Call, Waiting, Own, Over
<1>2. /\ ProjectCall \in GetCalls /\ Own(ProjectCall) /\ ~Over(ProjectCall)
      /\ ProjectCall.op = "project" /\ ProjectCall.arg.id = page.id
  BY <1>1 DEF ProjectCall, GetCalls
<1>3. ASSUME page.project # None, NEW over \in BOOLEAN
      PROVE  /\ EnvCall(over) \in EnvCalls /\ EnvCall(over).op = "env"
             /\ EnvCall(over).arg.id = page.project
             /\ Own(EnvCall(over)) /\ (Over(EnvCall(over)) <=> over)
  BY <1>1, <1>3 DEF EnvCall, EnvCalls
<1>4. ASSUME page.project # None
      PROVE  /\ PutCall \in PutCalls /\ PutCall.op = "put" /\ ~Over(PutCall)
             /\ PutCall.arg.id = page.project
             /\ page.env.content \in {None, page.project} => Own(PutCall)
  BY <1>1, <1>4 DEF PutCall, PutCalls
<1>5. ASSUME page.project # None
      PROVE  /\ DeployCall \in DeployCalls /\ DeployCall.op = "deploy"
             /\ DeployCall.arg.id = page.project
             /\ Own(DeployCall) /\ ~Over(DeployCall)
  BY <1>1, <1>5 DEF DeployCall, DeployCalls
<1>6. ASSUME NEW id \in Projects, NEW after \in BOOLEAN
      PROVE  /\ DeploymentsCall(id, after) \in DeploymentsCalls
             /\ DeploymentsCall(id, after).op = "deployments"
             /\ DeploymentsCall(id, after).arg.id = id
             /\ Own(DeploymentsCall(id, after)) /\ ~Over(DeploymentsCall(id, after))
  BY <1>1, <1>6 DEF DeploymentsCall, DeploymentsCalls
<1> QED
  BY <1>2, <1>3, <1>4, <1>5, <1>6 DEF PageCalls

\* The history of the browser goes to the other project.
LEMMA JumpInv == ASSUME ProjectLive, Jump PROVE ProjectLive'
<1>1. page \in PageStates /\ calls \in Seq(PageCalls)
  BY DEF ProjectLive, ProjectOK, PageTyped
<1>2. PICK p \in Projects \ {page.id} : page' = [Acted EXCEPT !.id = p]
  BY DEF Jump
<1>3. /\ Acts /\ dirty' /\ UNCHANGED <<token, failures, env, locked, calls>>
  BY DEF Jump
<1>4. /\ page' \in PageStates /\ page'.tab = page.tab /\ page'.project = page.project
      /\ page'.error = page.error /\ page'.fresh = page.fresh /\ page'.env = page.env
      /\ page'.deployments = page.deployments /\ page'.seen = page.seen
      /\ page'.since = page.since /\ page'.merged = page.merged
      /\ page'.stray = page.stray
  BY <1>1, <1>2, <1>3, ActedFacts DEF PageStates
<1>5. /\ Settled("env")' <=> Settled("env")
      /\ Settled("deployments")' <=> Settled("deployments")
  BY <1>3, <1>4, SettledSame
<1>6. EnvAsked' /\ DeploymentsAsked'
  BY <1>3, <1>4, <1>5 DEF ProjectLive, EnvAsked, DeploymentsAsked
<1>7. OwnContent' /\ Typing'
  BY <1>3, <1>4, <1>5 DEF ProjectLive, OwnContent, EnvIsOwn, Typing, Plain
<1> QED
  BY <1>1, <1>3, <1>4, <1>6, <1>7, ActedInv

\* A tab is chosen: its path is that of the project shown.
LEMMA SelectTabInv == ASSUME ProjectLive, SelectTab PROVE ProjectLive'
<1>1. /\ page \in PageStates /\ calls \in Seq(PageCalls) /\ Acts /\ dirty'
      /\ UNCHANGED <<token, failures, env, locked, calls>>
      /\ page.seen = Seen /\ page.seen # <<>> /\ page.project # None
  BY ActFacts DEF SelectTab
<1>2. PICK t \in Tabs \ {page.tab} :
        page' = [Acted EXCEPT !.tab = t, !.id = page.project]
  BY DEF SelectTab
<1>3. page.project \in Projects
  BY <1>1 DEF PageStates, PageIds
<1>4. /\ page' \in PageStates /\ page'.tab = t /\ page'.project = page.project
      /\ page'.error = page.error /\ page'.fresh = page.fresh /\ page'.env = page.env
      /\ page'.deployments = page.deployments /\ page'.seen = page.seen
      /\ page'.since = page.since /\ page'.merged = page.merged
      /\ page'.stray = page.stray
  BY <1>1, <1>2, <1>3, ActedFacts DEF PageStates
<1>5. ~Settled("env")' /\ ~Settled("deployments")'
  BY <1>1, <1>2, <1>4 DEF Settled, Changed, Seen
<1>6. EnvAsked' /\ DeploymentsAsked'
  BY <1>4, <1>5 DEF ProjectLive, EnvAsked, DeploymentsAsked
<1>7. OwnContent' /\ Typing'
  BY <1>1, <1>4, <1>5 DEF ProjectLive, OwnContent, EnvIsOwn, Typing, Plain
<1> QED
  BY <1>1, <1>4, <1>6, <1>7, ActedInv

\* The reader types.
LEMMA TypeInv == ASSUME ProjectLive, Type PROVE ProjectLive'
<1>1. /\ page \in PageStates /\ page.env \in Editors /\ calls \in Seq(PageCalls)
      /\ Acts /\ dirty' /\ UNCHANGED <<token, failures, env, locked, calls>>
      /\ page.seen = Seen /\ page.seen # <<>> /\ Settled("env")
  BY ActFacts DEF Type
<1>2. /\ page.tab = "env" /\ page.project # None /\ ~page.env.loading
  BY DEF Type, EditorEnabled
<1> DEFINE content == IF page.env.content = None THEN page.project ELSE page.env.content
           e == [page.env EXCEPT !.typed = TRUE, !.content = content]
<1>3. /\ e \in Editors /\ e.content = content /\ e.error = page.env.error
      /\ e.loading = page.env.loading /\ e.loaded = page.env.loaded
  BY <1>1 DEF Editors, PageStates
<1>4. page' = [Acted EXCEPT !.env = e]
  BY <1>1, ActedFacts DEF Type, PageStates, Editors
<1> HIDE DEF e
<1>5. /\ page' \in PageStates /\ page'.tab = page.tab /\ page'.project = page.project
      /\ page'.error = page.error /\ page'.fresh = page.fresh /\ page'.env = e
      /\ page'.deployments = page.deployments /\ page'.seen = page.seen
      /\ page'.since = page.since /\ page'.merged = page.merged
      /\ page'.stray = page.stray
  BY <1>1, <1>3, <1>4, ActedFacts DEF PageStates
<1>6. /\ Settled("env")' <=> Settled("env")
      /\ Settled("deployments")' <=> Settled("deployments")
  BY <1>1, <1>3, <1>5, SettledSame
<1>7. EnvAsked' /\ DeploymentsAsked'
  BY <1>1, <1>3, <1>5, <1>6 DEF ProjectLive, EnvAsked, DeploymentsAsked
<1>8. OwnContent'
  BY <1>1, <1>3, <1>5 DEF ProjectLive, OwnContent, EnvIsOwn
<1>9. Typing'
  BY <1>1, <1>2, <1>3, <1>5, <1>6 DEF ProjectLive, Typing, Plain
<1> QED
  BY <1>1, <1>3, <1>5, <1>7, <1>8, <1>9, ActedInv

\* The env is saved.
LEMMA HandleEnvSubmitInv ==
  ASSUME ClientOK, ProjectLive, HandleEnvSubmit
  PROVE  ProjectLive'
<1>1. /\ page \in PageStates /\ page.env \in Editors /\ calls \in Seq(PageCalls)
      /\ Acts /\ dirty' /\ UNCHANGED <<token, failures, env, locked>>
      /\ page.seen = Seen /\ page.seen # <<>>
  BY ActFacts DEF HandleEnvSubmit
<1>2. page.tab = "env" /\ page.project # None /\ calls' = Append(calls, PutCall)
  BY DEF HandleEnvSubmit, EditorEnabled
<1> DEFINE e == [page.env EXCEPT !.error = FALSE, !.saving = TRUE]
<1>3. /\ e \in Editors /\ e.content = page.env.content /\ e.typed = page.env.typed
      /\ e.loading = page.env.loading /\ e.loaded = page.env.loaded
  BY <1>1 DEF Editors
<1>4. page' = [Acted EXCEPT !.env = e]
  BY <1>1, ActedFacts DEF HandleEnvSubmit, PageStates, Editors
<1> HIDE DEF e
<1>5. /\ page' \in PageStates /\ page'.tab = page.tab /\ page'.project = page.project
      /\ page'.error = page.error /\ page'.fresh = page.fresh /\ page'.env = e
      /\ page'.deployments = page.deployments /\ page'.seen = page.seen
      /\ page'.since = page.since /\ page'.merged = page.merged
      /\ page'.stray = page.stray
  BY <1>1, <1>3, <1>4, ActedFacts DEF PageStates
<1>6. /\ Settled("env")' <=> Settled("env")
      /\ Settled("deployments")' <=> Settled("deployments")
  BY <1>1, <1>3, <1>5, SettledSame
<1>7. /\ PutCall \in PageCalls /\ PutCall.op = "put" /\ PutCall.arg.id = page.project
      /\ ~Over(PutCall) /\ (page.env.content \in {None, page.project} => Own(PutCall))
  BY <1>1, <1>2, PageCallsMade
<1>8. AsksMore(calls, PutCall, calls')
  BY <1>1, <1>2, <1>7, PageAsksMore
<1>9. EnvAsked'
  BY <1>2, <1>5, <1>7, <1>8 DEF EnvAsked, AsksMore
<1>10. DeploymentsAsked'
  BY <1>1, <1>5, <1>6, <1>8 DEF ProjectLive, DeploymentsAsked, AsksMore
<1>11. OwnContent'
  BY <1>1, <1>2, <1>3, <1>5, <1>7, <1>8 DEF ProjectLive, OwnContent, EnvIsOwn, AsksMore
<1>12. Typing'
  BY <1>1, <1>3, <1>5, <1>6, <1>7, <1>8 DEF ProjectLive, Typing, Plain, AsksMore
<1> QED
  BY <1>1, <1>3, <1>5, <1>8, <1>9, <1>10, <1>11, <1>12, ActedInv DEF AsksMore

\* The env is loaded again.
LEMMA ReloadEnvInv ==
  ASSUME ClientOK, ProjectLive, ReloadEnv
  PROVE  ProjectLive'
<1>1. /\ page \in PageStates /\ page.env \in Editors /\ calls \in Seq(PageCalls)
      /\ Acts /\ dirty' /\ UNCHANGED <<token, failures, env, locked>>
      /\ page.seen = Seen /\ page.seen # <<>>
  BY ActFacts DEF ReloadEnv
<1> DEFINE c == EnvCall(FALSE)
           e == [page.env EXCEPT !.error = FALSE, !.loading = TRUE, !.typed = FALSE]
<1>2. page.tab = "env" /\ page.project # None /\ calls' = Append(calls, c)
  BY DEF ReloadEnv, EditorEnabled
<1>3. /\ e \in Editors /\ e.content = page.env.content /\ ~e.typed
      /\ e.loading /\ e.loaded = page.env.loaded
  BY <1>1 DEF Editors
<1>4. page' = [Acted EXCEPT !.env = e]
  BY <1>1, ActedFacts DEF ReloadEnv, EnvLoading, PageStates, Editors
<1>5. /\ c \in PageCalls /\ c.op = "env" /\ c.arg.id = page.project
      /\ ~Over(c) /\ Own(c)
  BY <1>1, <1>2, PageCallsMade
<1> HIDE DEF e, c
<1>6. /\ page' \in PageStates /\ page'.tab = page.tab /\ page'.project = page.project
      /\ page'.error = page.error /\ page'.fresh = page.fresh /\ page'.env = e
      /\ page'.deployments = page.deployments /\ page'.seen = page.seen
      /\ page'.since = page.since /\ page'.merged = page.merged
      /\ page'.stray = page.stray
  BY <1>1, <1>3, <1>4, ActedFacts DEF PageStates
<1>7. /\ Settled("env")' <=> Settled("env")
      /\ Settled("deployments")' <=> Settled("deployments")
  BY <1>1, <1>3, <1>6, SettledSame
<1>8. AsksMore(calls, c, calls')
  BY <1>1, <1>2, <1>5, PageAsksMore
<1>9. EnvAsked'
  BY <1>2, <1>5, <1>6, <1>8 DEF EnvAsked, AsksMore
<1>10. DeploymentsAsked'
  BY <1>1, <1>6, <1>7, <1>8 DEF ProjectLive, DeploymentsAsked, AsksMore
<1>11. OwnContent'
  BY <1>1, <1>3, <1>5, <1>6, <1>8 DEF ProjectLive, OwnContent, EnvIsOwn, AsksMore
<1>12. Typing'
  BY <1>1, <1>3, <1>5, <1>6, <1>8 DEF ProjectLive, Typing, Plain, AsksMore
<1> QED
  BY <1>1, <1>3, <1>6, <1>8, <1>9, <1>10, <1>11, <1>12, ActedInv DEF AsksMore

\* The project is deployed.
LEMMA HandleDeployInv ==
  ASSUME ClientOK, ProjectLive, HandleDeploy
  PROVE  ProjectLive'
<1>1. /\ page \in PageStates /\ page.deployments \in DeploymentLists
      /\ calls \in Seq(PageCalls) /\ Acts /\ dirty'
      /\ UNCHANGED <<token, failures, env, locked>>
      /\ page.seen = Seen /\ page.seen # <<>>
  BY ActFacts DEF HandleDeploy
<1>2. page.tab = "deployments" /\ page.project # None /\ calls' = Append(calls, DeployCall)
  BY DEF HandleDeploy, DeployEnabled
<1> DEFINE d == [page.deployments EXCEPT !.error = FALSE, !.deploying = TRUE]
<1>3. /\ d \in DeploymentLists /\ d.of = page.deployments.of
      /\ d.loaded = page.deployments.loaded
  BY <1>1 DEF DeploymentLists
<1>4. page' = [Acted EXCEPT !.deployments = d]
  BY <1>1, ActedFacts DEF HandleDeploy, PageStates, DeploymentLists
<1> HIDE DEF d
<1>5. /\ page' \in PageStates /\ page'.tab = page.tab /\ page'.project = page.project
      /\ page'.error = page.error /\ page'.fresh = page.fresh /\ page'.env = page.env
      /\ page'.deployments = d /\ page'.seen = page.seen
      /\ page'.since = page.since /\ page'.merged = page.merged
      /\ page'.stray = page.stray
  BY <1>1, <1>3, <1>4, ActedFacts DEF PageStates
<1>6. /\ Settled("env")' <=> Settled("env")
      /\ Settled("deployments")' <=> Settled("deployments")
  BY <1>1, <1>3, <1>5, SettledSame
<1>7. /\ DeployCall \in PageCalls /\ DeployCall.op = "deploy"
      /\ DeployCall.arg.id = page.project /\ Own(DeployCall) /\ ~Over(DeployCall)
  BY <1>1, <1>2, PageCallsMade
<1>8. AsksMore(calls, DeployCall, calls')
  BY <1>1, <1>2, <1>7, PageAsksMore
<1>9. EnvAsked'
  BY <1>1, <1>5, <1>6, <1>8 DEF ProjectLive, EnvAsked, AsksMore
<1>10. DeploymentsAsked'
  BY <1>1, <1>3, <1>5, <1>6, <1>7, <1>8 DEF ProjectLive, DeploymentsAsked, AsksMore
<1>11. OwnContent'
  BY <1>1, <1>5, <1>7, <1>8 DEF ProjectLive, OwnContent, EnvIsOwn, AsksMore
<1>12. Typing'
  BY <1>1, <1>5, <1>6, <1>7, <1>8 DEF ProjectLive, Typing, Plain, AsksMore
<1> QED
  BY <1>1, <1>3, <1>5, <1>8, <1>9, <1>10, <1>11, <1>12, ActedInv DEF AsksMore


\* The requests that a render makes, one after the other.
AsksIf(b, cs, c, ds) == IF b THEN AsksMore(cs, c, ds) ELSE ds = cs

\* A request is made, or not.
LEMMA PageAsksIf ==
  ASSUME NEW cs \in Seq(PageCalls), NEW c, NEW b \in BOOLEAN, b => c \in PageCalls
  PROVE  LET ds == cs \o (IF b THEN <<c>> ELSE <<>>)
         IN  ds \in Seq(PageCalls) /\ AsksIf(b, cs, c, ds)
<1>1. CASE b
  <2>1. Append(cs, c) = cs \o <<c>>
    BY <1>1, AppendIsConcat
  <2>2. AsksMore(cs, c, Append(cs, c)) /\ Append(cs, c) \in Seq(PageCalls)
    BY <1>1, PageAsksMore, AppendProperties
  <2> QED
    BY <1>1, <2>1, <2>2 DEF AsksIf
<1>2. CASE ~b
  <2>1. cs \o <<>> = cs
    BY ConcatEmptySeq
  <2> QED
    BY <1>2, <2>1 DEF AsksIf
<1> QED
  BY <1>1, <1>2

\* What the page is after a render.
LEMMA RenderedPage ==
  ASSUME ClientOK, page \in PageStates, ProjectRender
  PROVE  /\ page' \in PageStates /\ page'.seen = Seen /\ Seen' = Seen /\ Seen # <<>>
         /\ Seen.project = <<page.id, page.project, token>>
         /\ Seen.env[3] = token /\ Seen.env[4] = page.env.loaded
         /\ Seen.deployments[3] = token
         /\ Seen.deployments[4] = page.deployments.loaded
         /\ page'.id = page.id /\ page'.tab = page.tab /\ page'.project = page.project
         /\ page'.error = (page.error /\ ~LoadsProject) /\ ~page'.fresh
         /\ page'.since = None /\ page'.merged = page.merged
         /\ page'.stray = page.stray
         /\ page'.env.content = page.env.content /\ page'.env.typed = page.env.typed
         /\ page'.env.loaded = page.env.loaded
         /\ IF LoadsEnv THEN page'.env.loading ELSE page'.env = page.env
         /\ page'.deployments.of = page.deployments.of
         /\ page'.deployments.loaded = page.deployments.loaded
         /\ ~LoadsDeployments => page'.deployments = page.deployments
<1> DEFINE loading == page.loading \/ LoadsProject
           error == page.error /\ ~LoadsProject
           e == IF LoadsEnv THEN EnvLoading(page.env) ELSE page.env
           d == IF LoadsDeployments THEN DeploymentsLoading(page.deployments)
                ELSE page.deployments
<1>1. page' = [page EXCEPT !.seen = Seen, !.fresh = FALSE, !.since = None,
                           !.loading = loading, !.error = error, !.env = e,
                           !.deployments = d]
  BY DEF ProjectRender, PageStates
<1>2. loading \in BOOLEAN /\ error \in BOOLEAN /\ None \in PageIds
  BY DEF PageStates, PageIds
<1>3. /\ e \in Editors /\ e.content = page.env.content /\ e.typed = page.env.typed
      /\ e.loaded = page.env.loaded /\ IF LoadsEnv THEN e.loading ELSE e = page.env
  BY DEF PageStates, Editors, EnvLoading
<1>4. /\ d \in DeploymentLists /\ d.of = page.deployments.of
      /\ d.loaded = page.deployments.loaded
      /\ ~LoadsDeployments => d = page.deployments
  BY DEF PageStates, DeploymentLists, DeploymentsLoading
<1>5. /\ token \in Tokens /\ page.id \in Projects /\ page.project \in PageIds
      /\ page.tab \in Tabs /\ page.env.loaded \in PageIds
      /\ page.deployments.loaded \in PageIds
  BY DEF ClientOK, Tokens, PageStates, Editors, DeploymentLists
<1>6. /\ Seen \in SeenStates /\ Seen # <<>>
      /\ Seen.project = <<page.id, page.project, token>>
      /\ Seen.env[3] = token /\ Seen.env[4] = page.env.loaded
      /\ Seen.deployments[3] = token
      /\ Seen.deployments[4] = page.deployments.loaded
  BY <1>5 DEF Seen, SeenStates
<1> HIDE DEF loading, error, e, d
<1>7. /\ page' \in PageStates /\ page'.seen = Seen /\ page'.id = page.id
      /\ page'.tab = page.tab /\ page'.project = page.project /\ page'.error = error
      /\ ~page'.fresh /\ page'.since = None /\ page'.merged = page.merged
      /\ page'.stray = page.stray /\ page'.env = e /\ page'.deployments = d
  BY <1>1, <1>2, <1>3, <1>4, <1>6, ZenonT(40) DEF PageStates
<1>8. token' = token
  BY DEF ProjectRender
<1>9. Seen' = Seen
  BY <1>3, <1>4, <1>7, <1>8 DEF Seen
<1> QED
  BY <1>3, <1>4, <1>6, <1>7, <1>9 DEF error

\* The page renders: the effects ask for what is not loaded.
LEMMA ProjectRenderInv ==
  ASSUME ClientOK, ProjectLive, ProjectRender
  PROVE  ProjectLive' /\ ClientOK'
<1> DEFINE a == LoadsProject
           b == LoadsEnv
           d == LoadsDeployments
           p == ProjectCall
           e == EnvCall(page.env.typed)
           l == DeploymentsCall(page.project, FALSE)
           c1 == calls \o (IF a THEN <<p>> ELSE <<>>)
           c2 == c1 \o (IF b THEN <<e>> ELSE <<>>)
           c3 == c2 \o (IF d THEN <<l>> ELSE <<>>)
<1>1. /\ page \in PageStates /\ calls \in Seq(PageCalls) /\ PageTyped
      /\ ProjectAsked /\ EnvAsked /\ DeploymentsAsked /\ OwnContent /\ Typing
      /\ page.project \in PageIds /\ page.env.typed \in BOOLEAN
  BY DEF ProjectLive, ProjectOK, PageTyped, PageStates, Editors
<1>2. dirty /\ UNCHANGED <<route, token, good, failures, env, locked>>
  BY DEF ProjectRender
<1>3. ClientOK'
  BY <1>2 DEF ClientOK
<1>4. /\ page' \in PageStates /\ page'.seen = Seen /\ Seen' = Seen /\ Seen # <<>>
      /\ Seen.project = <<page.id, page.project, token>>
      /\ Seen.env[3] = token /\ Seen.env[4] = page.env.loaded
      /\ Seen.deployments[3] = token
      /\ Seen.deployments[4] = page.deployments.loaded
      /\ page'.id = page.id /\ page'.tab = page.tab /\ page'.project = page.project
      /\ page'.error = (page.error /\ ~a) /\ ~page'.fresh
      /\ page'.since = None /\ page'.merged = page.merged
      /\ page'.stray = page.stray
      /\ page'.env.content = page.env.content /\ page'.env.typed = page.env.typed
      /\ page'.env.loaded = page.env.loaded
      /\ IF b THEN page'.env.loading ELSE page'.env = page.env
      /\ page'.deployments.of = page.deployments.of
      /\ page'.deployments.loaded = page.deployments.loaded
      /\ ~d => page'.deployments = page.deployments
  BY <1>1, RenderedPage
<1>5. /\ a = Changed("project")
      /\ b = (/\ ~Settled("env") /\ page.tab = "env"
              /\ page.project \notin {None, page.env.loaded})
      /\ d = (/\ ~Settled("deployments") /\ page.tab = "deployments"
              /\ page.project \notin {None, page.deployments.loaded})
  BY DEF LoadsProject, LoadsEnv, LoadsDeployments, Settled
<1>6. a \in BOOLEAN /\ b \in BOOLEAN /\ d \in BOOLEAN
  BY <1>5 DEF Changed
<1>7. /\ p \in PageCalls /\ p.op = "project" /\ p.arg.id = page.id /\ Own(p) /\ ~Over(p)
  BY <1>1, PageCallsMade
<1>8. page.project # None =>
        /\ e \in PageCalls /\ e.op = "env" /\ e.arg.id = page.project
        /\ Own(e) /\ (Over(e) <=> page.env.typed)
        /\ l \in PageCalls /\ l.op = "deployments" /\ l.arg.id = page.project
        /\ Own(l) /\ ~Over(l)
  <2>1. ASSUME page.project # None  PROVE page.project \in Projects
    BY <1>1, <2>1 DEF PageIds
  <2> QED
    BY <1>1, <2>1, PageCallsMade
<1>9. (b => page.project # None) /\ (d => page.project # None)
  BY <1>5
<1>10. calls' = c3
  BY DEF ProjectRender
<1> HIDE DEF a, b, d, p, e, l
<1>11. c1 \in Seq(PageCalls) /\ AsksIf(a, calls, p, c1)
  BY <1>1, <1>6, <1>7, PageAsksIf
<1> HIDE DEF c1
<1>12. c2 \in Seq(PageCalls) /\ AsksIf(b, c1, e, c2)
  BY <1>6, <1>8, <1>9, <1>11, PageAsksIf
<1> HIDE DEF c2
<1>13. c3 \in Seq(PageCalls) /\ AsksIf(d, c2, l, c3)
  BY <1>6, <1>8, <1>9, <1>12, PageAsksIf
<1> HIDE DEF c3
<1>14. \A ops, q : AskedFor(calls, ops, q) => AskedFor(c3, ops, q)
  BY <1>11, <1>12, <1>13 DEF AsksIf, AsksMore
<1>15. AllOwn(calls) => AllOwn(c3)
  BY <1>7, <1>8, <1>9, <1>11, <1>12, <1>13 DEF AsksIf, AsksMore
<1>16. ProjectOK'
  BY <1>1, <1>2, <1>4, <1>10, <1>13 DEF ProjectOK, PageTyped
<1>17. Rendered'
  <2>1. token \in Nat
    BY ClientAssumption DEF ClientOK
  <2>2. token <= token
    BY <2>1
  <2> QED
    BY <1>2, <1>4, <2>2 DEF Rendered
<1>18. TakenSince'
  BY <1>4 DEF TakenSince
<1>19. ProjectAsked'
  <2>1. ~a => /\ page.seen # <<>> /\ page.seen.project = Seen.project
              /\ page'.error = page.error
    BY <1>1, <1>4, <1>5 DEF Changed, PageStates
  <2>2. a => AskedFor(c3, {"project"}, page.id)
    <3>1. a => AskedFor(c1, {"project"}, page.id)
      BY <1>7, <1>11 DEF AsksIf, AsksMore
    <3> QED
      BY <1>12, <1>13, <3>1 DEF AsksIf, AsksMore
  <2>3. ~a /\ ~page'.error /\ ~page.merged =>
          page.project = page.id \/ AskedFor(calls, {"project"}, page.id)
    BY <1>1, <1>4, <2>1 DEF ProjectAsked
  <2> QED
    BY <1>4, <1>10, <1>14, <2>2, <2>3 DEF ProjectAsked
<1>20. EnvAsked'
  <2>1. ASSUME ~page.merged, page.tab = "env",
               page.project \notin {None, page.env.loaded}, ~page'.env.error
        PROVE  AskedFor(c3, {"env", "put"}, page.project)
    <3>1. CASE b
      <4>1. AskedFor(c2, {"env", "put"}, page.project)
        BY <1>8, <1>9, <1>12, <3>1 DEF AsksIf, AsksMore
      <4> QED
        BY <1>13, <4>1 DEF AsksIf, AsksMore
    <3>2. CASE ~b
      BY <1>1, <1>4, <1>5, <1>14, <2>1, <3>2 DEF EnvAsked
    <3> QED
      BY <3>1, <3>2
  <2> QED
    BY <1>4, <1>10, <2>1 DEF EnvAsked
<1>21. DeploymentsAsked'
  <2>1. ASSUME ~page.merged, page.tab = "deployments",
               page.project \notin {None, page.deployments.loaded}
        PROVE  /\ failures = 0 => AskedFor(c3, {"deployments"}, page.project)
               /\ ~page.stray =>
                    \/ page'.deployments.error
                    \/ AskedFor(c3, {"deployments", "deploy"}, page.project)
    <3>1. CASE d
      BY <1>8, <1>9, <1>13, <3>1 DEF AsksIf, AsksMore
    <3>2. CASE ~d
      BY <1>1, <1>4, <1>5, <1>14, <2>1, <3>2 DEF DeploymentsAsked
    <3> QED
      BY <3>1, <3>2
  <2> QED
    BY <1>1, <1>2, <1>4, <1>10, <2>1 DEF DeploymentsAsked
<1>22. OwnContent'
  BY <1>1, <1>2, <1>4, <1>10, <1>15 DEF OwnContent, EnvIsOwn
<1>23. Typing'
  <2> SUFFICES ASSUME Plain
               PROVE  /\ /\ page.tab = "env" /\ page.project \notin {None, page.env.loaded}
                         => page'.env.loading
                      /\ page.env.typed /\ page.project # None
                           => page.env.loaded = page.project
                      /\ NoneOver(c3)
    BY <1>2, <1>4, <1>10 DEF Typing, Plain
  <2>1. page.tab = "env" /\ page.project \notin {None, page.env.loaded} => page'.env.loading
    BY <1>1, <1>4, <1>5 DEF Typing
  <2>2. page.env.typed /\ page.project # None => page.env.loaded = page.project
    BY <1>1 DEF Typing
  <2>3. b => ~Over(e)
    BY <1>5, <1>8, <2>2
  <2>4. NoneOver(c2)
    BY <1>1, <1>7, <1>11, <1>12, <2>3 DEF Typing, AsksIf, AsksMore
  <2>5. NoneOver(c3)
    BY <1>8, <1>9, <1>13, <2>4 DEF AsksIf, AsksMore
  <2> QED
    BY <2>1, <2>2, <2>5
<1> QED
  BY <1>3, <1>16, <1>17, <1>18, <1>19, <1>20, <1>21, <1>22, <1>23 DEF ProjectLive

\* The API or a retry changes what requests came to, and not what they ask for.
LEMMA ServedInv ==
  ASSUME ClientOK, ProjectLive, page' = page, calls # <<>>,
         SameRequests(calls, calls'),
         ~page.stray /\ AllOwn(calls) /\ EnvIsOwn => AllOwn(calls') /\ EnvIsOwn',
         token' \in Tokens, token <= token', token' = token \/ dirty', dirty => dirty',
         failures' = failures, env' \in [Projects -> PageIds],
         locked' \subseteq Projects
  PROVE  ProjectLive'
<1>1. /\ PageTyped /\ page.seen # <<>> /\ token \in Nat /\ token' \in Nat
      /\ page.seen \in SeenStates /\ Rendered
      /\ page.seen.env[3] <= token /\ page.seen.deployments[3] <= token
      /\ page.seen.project[3] <= token
  BY ClientAssumption
     DEF ProjectLive, ProjectOK, Rendered, PageTyped, PageStates, ClientOK, Tokens
<1>2. /\ page.seen.env[3] \in Nat /\ page.seen.deployments[3] \in Nat
      /\ page.seen.project[3] \in Nat
  BY <1>1, ClientAssumption DEF SeenStates, Tokens
<1>3. Seen'.env[3] = token' /\ Seen'.deployments[3] = token'
  BY DEF Seen
<1>4. token' = token => Seen' = Seen
  BY DEF Seen
<1>5. \A e \in {"env", "deployments"} : Settled(e)' => Settled(e)
  <2>1. CASE token' = token
    BY <1>4, <2>1 DEF Settled, Changed
  <2>2. CASE token' # token
    <3>1. ~(page.seen.env[3] = token') /\ ~(page.seen.deployments[3] = token')
      BY <1>1, <1>2, <2>2
    <3> QED
      BY <1>3, <3>1 DEF Settled, Changed
  <2> QED
    BY <2>1, <2>2
<1>6. ProjectOK'
  BY <1>1 DEF ProjectOK, PageTyped, SameRequests
<1>7. Rendered'
  BY <1>1, <1>2, <1>4, SMTT(30) DEF Rendered
<1>8. TakenSince'
  BY DEF ProjectLive, TakenSince
<1>9. ProjectAsked'
  <2>1. token # page.seen.project[3] => token' # page.seen.project[3]
    BY <1>1, <1>2
  <2> QED
    BY <2>1 DEF ProjectLive, ProjectAsked, SameRequests
<1>10. EnvAsked'
  BY <1>5 DEF ProjectLive, EnvAsked, SameRequests
<1>11. DeploymentsAsked'
  BY <1>5 DEF ProjectLive, DeploymentsAsked, SameRequests
<1>12. OwnContent'
  BY DEF ProjectLive, OwnContent
<1>13. Typing'
  BY <1>5 DEF ProjectLive, Typing, Plain, SameRequests
<1> QED
  BY <1>6, <1>7, <1>8, <1>9, <1>10, <1>11, <1>12, <1>13 DEF ProjectLive

\* The API does its part of a request.
ApiServes(i) ==
  \/ GetProjectEnv(i) \/ PutProjectEnv(i) \/ ListProjectDeployments(i)
  \/ DeployStarts(i) \/ Conflict(i) \/ DeployEnds(i)

\* It reads or saves an env, lists the deployments, or deploys.
LEMMA ApiServesInv ==
  ASSUME ClientOK, ProjectLive, NEW i \in DOMAIN calls, ApiServes(i)
  PROVE  ProjectLive' /\ ClientOK'
<1>1. /\ calls \in Seq(PageCalls) /\ calls[i] \in PageCalls
      /\ env \in [Projects -> PageIds] /\ locked \subseteq Projects
      /\ calls[i].arg.id \in Projects /\ token \in Tokens /\ token <= token
  <2>1. calls \in Seq(PageCalls) /\ calls[i] \in PageCalls
    BY LenProperties, ElementOfSeq DEF ProjectLive, ProjectOK
  <2>2. token \in Tokens /\ token \in Nat
    BY ClientAssumption DEF ClientOK, Tokens
  <2> QED
    BY <2>1, <2>2, PageCallFacts DEF ProjectLive, ProjectOK, PageTyped
<1>2. UNCHANGED <<route, token, good, dirty, failures, page>> /\ ClientOK'
  BY DEF ApiServes, GetProjectEnv, PutProjectEnv, ListProjectDeployments, DeployStarts,
     Conflict, DeployEnds, ByTheApi, ClientOK
<1>3. CASE GetProjectEnv(i)
  <2> DEFINE v == env[calls[i].arg.id]
             c == [calls[i] EXCEPT !.res = Ok(v)]
  <2>1. /\ calls[i] \in EnvCalls /\ calls' = [calls EXCEPT ![i] = c]
        /\ env' = env /\ locked' = locked /\ v \in PageIds
    BY <1>1, <1>3, PageCallFacts DEF GetProjectEnv, Served, Answered
  <2>2. c \in PageCalls /\ c.op = calls[i].op /\ c.arg = calls[i].arg /\ c.res = Ok(v)
    BY <2>1 DEF EnvCalls, PageCalls
  <2>3. calls[i].op = "env"
    BY <2>1 DEF EnvCalls
  <2>4. ASSUME ~page.stray, AllOwn(calls), EnvIsOwn  PROVE AllOwn(calls') /\ EnvIsOwn'
    <3>1. Own(c)
      BY <1>1, <2>2, <2>3, <2>4 DEF EnvIsOwn, Own, Ok
    <3> HIDE DEF c
    <3>2. AllOwn(calls')
      BY <1>1, <2>1, <2>2, <2>4, <3>1, PageAnswered
    <3> QED
      BY <1>2, <2>1, <2>4, <3>2 DEF EnvIsOwn
  <2> HIDE DEF c, v
  <2> QED
    BY <1>1, <1>2, <2>1, <2>2, <2>4, PageAnswered, ServedInv
<1>4. CASE PutProjectEnv(i)
  <2> DEFINE c == [calls[i] EXCEPT !.res = Ok(TRUE)]
  <2>1. /\ calls[i] \in PutCalls /\ calls' = [calls EXCEPT ![i] = c]
        /\ env' = [env EXCEPT ![calls[i].arg.id] = calls[i].arg.content]
        /\ locked' = locked
    BY <1>1, <1>4, PageCallFacts DEF PutProjectEnv, Served, Answered
  <2>2. /\ c \in PageCalls /\ c.op = calls[i].op /\ c.arg = calls[i].arg
    BY <2>1 DEF PutCalls, PageCalls
  <2>3. calls[i].op = "put" /\ calls[i].arg.content \in PageIds
    BY <2>1 DEF PutCalls
  <2>4. env' \in [Projects -> PageIds]
    BY <1>1, <2>1, <2>3
  <2>5. ASSUME ~page.stray, AllOwn(calls), EnvIsOwn  PROVE AllOwn(calls') /\ EnvIsOwn'
    <3>1. calls[i].arg.content \in {None, calls[i].arg.id}
      BY <2>3, <2>5 DEF AllOwn, Own
    <3>2. Own(c)
      BY <2>2, <2>3, <3>1 DEF Own
    <3> HIDE DEF c
    <3>3. AllOwn(calls')
      BY <1>1, <2>1, <2>2, <2>5, <3>2, PageAnswered
    <3> QED
      BY <1>1, <1>2, <2>1, <2>5, <3>1, <3>3 DEF EnvIsOwn
  <2> HIDE DEF c
  <2> QED
    BY <1>1, <1>2, <2>1, <2>2, <2>4, <2>5, PageAnswered, ServedInv
<1>5. CASE \/ ListProjectDeployments(i) \/ DeployStarts(i) \/ Conflict(i) \/ DeployEnds(i)
  <2> DEFINE ok(r) == \/ calls[i].op = "deploy"
                      \/ calls[i].op = "deployments" /\ r \in {Ok(TRUE), Ok(FALSE)}
  <2>1. PICK r \in {[st |-> "read"], Ok(TRUE), Ok(FALSE)} :
          calls' = [calls EXCEPT ![i].res = r] /\ ok(r)
    <3>1. CASE ListProjectDeployments(i)
      <4>1. (calls[i].arg.id \in locked) \in BOOLEAN
        OBVIOUS
      <4>2. /\ calls[i].op = "deployments"
            /\ calls' = [calls EXCEPT ![i].res = Ok(calls[i].arg.id \in locked)]
        BY <3>1 DEF ListProjectDeployments, Served, Answered
      <4> QED
        BY <4>1, <4>2
    <3>2. CASE DeployStarts(i)
      BY <3>2 DEF DeployStarts, Served, Answered
    <3>3. CASE Conflict(i)
      BY <3>3 DEF Conflict, Served, Answered
    <3>4. CASE DeployEnds(i)
      BY <3>4 DEF DeployEnds, Answered
    <3> QED
      BY <1>5, <3>1, <3>2, <3>3, <3>4
  <2> DEFINE c == [calls[i] EXCEPT !.res = r]
  <2>2. /\ calls[i] \in DeployCalls \/ calls[i] \in DeploymentsCalls
        /\ calls' = [calls EXCEPT ![i] = c]
    BY <1>1, <2>1, PageCallFacts
  <2>3. c \in PageCalls /\ c.op = calls[i].op /\ c.arg = calls[i].arg
    BY <2>1, <2>2 DEF DeployCalls, DeploymentsCalls, PageCalls
  <2>4. env' = env /\ locked' \subseteq Projects
    BY <1>1, <1>5 DEF ListProjectDeployments, DeployStarts, Conflict, DeployEnds
  <2>5. ASSUME ~page.stray, AllOwn(calls), EnvIsOwn  PROVE AllOwn(calls') /\ EnvIsOwn'
    <3>1. Own(c)
      BY <2>1, <2>3 DEF Own
    <3> HIDE DEF c
    <3>2. AllOwn(calls')
      BY <1>1, <2>2, <2>3, <2>5, <3>1, PageAnswered
    <3> QED
      BY <1>2, <2>4, <2>5, <3>2 DEF EnvIsOwn
  <2> HIDE DEF c
  <2> QED
    BY <1>1, <1>2, <2>2, <2>3, <2>4, <2>5, PageAnswered, ServedInv
<1> QED
  BY <1>3, <1>4, <1>5 DEF ApiServes

\* A request is sent again with the new token, and the page will render with it.
LEMMA PageRetryInv ==
  ASSUME ClientOK, ProjectLive, NEW i \in DOMAIN calls, Retry(i), UNCHANGED projectVars
  PROVE  ProjectLive' /\ ClientOK'
<1>1. /\ calls \in Seq(PageCalls) /\ calls[i] \in PageCalls
      /\ env \in [Projects -> PageIds] /\ locked \subseteq Projects
  <2>1. calls \in Seq(PageCalls) /\ calls[i] \in PageCalls
    BY LenProperties, ElementOfSeq DEF ProjectLive, ProjectOK
  <2> QED
    BY <2>1 DEF ProjectLive, ProjectOK, PageTyped
<1>2. /\ token' = good /\ dirty' /\ UNCHANGED <<route, good, failures, page, env, locked>>
      /\ calls' = [calls EXCEPT ![i].token = good]
  BY DEF Retry, projectVars
<1>3. good \in Tokens /\ token <= good /\ good \in good .. MaxToken
  BY ClientAssumption DEF ClientOK, Tokens
<1>4. ClientOK'
  BY <1>2, <1>3 DEF ClientOK, Tokens
<1> DEFINE c == [calls[i] EXCEPT !.token = good]
<1>5. /\ c \in PageCalls /\ c.op = calls[i].op /\ c.arg = calls[i].arg
      /\ c.res = calls[i].res
  BY <1>1, <1>3
     DEF PageCalls, GetCalls, EnvCalls, PutCalls, DeploymentsCalls, DeployCalls
<1>6. calls' = [calls EXCEPT ![i] = c]
  BY <1>2
<1> HIDE DEF c
<1>7. ASSUME ~page.stray, AllOwn(calls), EnvIsOwn  PROVE AllOwn(calls') /\ EnvIsOwn'
  <2>1. Own(c)
    BY <1>5, <1>7 DEF AllOwn, Own
  <2>2. AllOwn(calls')
    BY <1>1, <1>5, <1>6, <1>7, <2>1, PageAnswered
  <2> QED
    BY <1>2, <1>7, <2>2 DEF EnvIsOwn
<1> QED
  BY <1>1, <1>2, <1>3, <1>4, <1>5, <1>6, <1>7, PageAnswered, ServedInv

\* What taking the i-th answer leaves of a page that it made p.
Takes(i, p) ==
  /\ dirty' /\ UNCHANGED <<route, token, good, env>> /\ page.seen # <<>>
  /\ page' \in PageStates /\ page'.seen = page.seen
  /\ page'.id = page.id /\ page'.tab = page.tab /\ page'.project = p.project
  /\ page'.error = p.error /\ page'.fresh = p.fresh /\ page'.env = p.env
  /\ page'.deployments = p.deployments /\ page'.since = calls[i].arg.id
  /\ ~page'.merged => ~page.merged /\ page.since \in {None, calls[i].arg.id}
  /\ ~page'.stray => ~page.stray /\ ~Strays(calls[i])

\* The page before an answer changed it is told from p by nothing else.
LikePage(p) ==
  /\ p \in PageStates /\ p.seen = page.seen /\ p.id = page.id /\ p.tab = page.tab
  /\ p.merged = page.merged /\ p.stray = page.stray

\* Taking an answer leaves that.
LEMMA PageTakesFacts ==
  ASSUME ProjectLive, NEW i \in DOMAIN calls, NEW p, LikePage(p), PageTakes(i, p)
  PROVE  Takes(i, p)
<1> DEFINE c == calls[i]
           merged == p.merged \/ page.since \notin {None, c.arg.id}
           stray == p.stray \/ Strays(c)
<1>1. calls \in Seq(PageCalls) /\ page \in PageStates /\ p \in PageStates
  BY DEF ProjectLive, ProjectOK, PageTyped, LikePage
<1>2. c.arg.id \in Projects
  <2>1. c \in PageCalls
    BY <1>1, LenProperties, ElementOfSeq
  <2> QED
    BY <2>1, PageCallFacts
<1>3. c.arg.id \in PageIds
  BY <1>2 DEF PageIds
<1>4. merged \in BOOLEAN /\ stray \in BOOLEAN
  BY <1>1 DEF PageStates, Strays
<1>5. page' = [p EXCEPT !.since = c.arg.id, !.merged = merged, !.stray = stray]
  BY <1>1 DEF PageTakes, PageStates
<1>6. dirty' /\ UNCHANGED <<route, token, good, env>>
  BY DEF PageTakes
<1>7. page.seen # <<>>
  <2>1. calls # <<>>
    BY <1>1, EmptySeq
  <2> QED
    BY <2>1 DEF ProjectLive, Rendered
<1>8. ~merged => ~p.merged /\ page.since \in {None, c.arg.id}
  OBVIOUS
<1>9. ~stray => ~p.stray /\ ~Strays(c)
  OBVIOUS
<1> HIDE DEF merged, stray, c
<1>10. /\ page' \in PageStates /\ page'.seen = p.seen /\ page'.id = p.id
       /\ page'.tab = p.tab /\ page'.project = p.project /\ page'.error = p.error
       /\ page'.fresh = p.fresh /\ page'.env = p.env
       /\ page'.deployments = p.deployments /\ page'.since = c.arg.id
       /\ page'.merged = merged /\ page'.stray = stray
  BY <1>1, <1>3, <1>4, <1>5, ZenonT(40) DEF PageStates
<1> QED
  BY <1>6, <1>7, <1>8, <1>9, <1>10 DEF Takes, LikePage, c

\* What is known of an answer.
LEMMA AnswerFacts ==
  ASSUME ClientOK, ProjectLive, NEW i \in DOMAIN calls
  PROVE  /\ page \in PageStates /\ page.env \in Editors
         /\ page.deployments \in DeploymentLists
         /\ env \in [Projects -> PageIds] /\ locked \subseteq Projects
         /\ failures \in Nat /\ calls[i] \in PageCalls /\ calls[i].arg.id \in Projects
         /\ calls[i].arg.id # None /\ AsksLess(i, Without(i))
         /\ \A op : Fails(i, op) => failures' # 0 /\ calls[i].op = op
         /\ \A op : Read(i, op) \/ Ready(i, op) =>
              failures' = failures /\ calls[i].op = op
<1>1. /\ calls \in Seq(PageCalls) /\ PageTyped /\ page \in PageStates /\ failures \in Nat
  BY DEF ProjectLive, ProjectOK, PageTyped, ClientOK
<1>2. calls[i] \in PageCalls
  BY <1>1, LenProperties, ElementOfSeq
<1>3. \A op : Fails(i, op) => failures' # 0 /\ calls[i].op = op
  BY <1>1 DEF Fails
<1>4. \A op : Read(i, op) \/ Ready(i, op) => failures' = failures /\ calls[i].op = op
  BY DEF Read, Ready, Served
<1>5. None \notin Projects
  BY DEF None, Projects
<1> QED
  BY <1>1, <1>2, <1>3, <1>4, <1>5, PageCallFacts, PageAsksLess DEF PageTyped, PageStates

\* What is kept whatever answer is taken.
LEMMA TakenInv ==
  ASSUME ProjectLive, NEW i \in DOMAIN calls, NEW p, Takes(i, p),
         calls' \in Seq(PageCalls), locked' \subseteq Projects,
         TakenSince', ProjectAsked', EnvAsked', DeploymentsAsked', OwnContent', Typing'
  PROVE  ProjectLive'
<1>1. ProjectOK'
  BY DEF ProjectLive, ProjectOK, PageTyped, Takes
<1>2. Rendered'
  BY DEF ProjectLive, Rendered, Takes
<1> QED
  BY <1>1, <1>2 DEF ProjectLive

\* What makes room for an answer is remembered until the page renders.
LEMMA SinceKept ==
  ASSUME ProjectLive, NEW i \in DOMAIN calls, NEW p, Takes(i, p),
         p.project \in {page.project, None, calls[i].arg.id},
         p.env.loaded \in {page.env.loaded, None, calls[i].arg.id},
         p.deployments.loaded \in {page.deployments.loaded, None, calls[i].arg.id},
         page.error => p.error, page.fresh => p.fresh,
         p.project = None => p.error \/ page.project = None,
         p.env.loaded = None => p.fresh \/ page.env.loaded = None,
         p.deployments.loaded = None => p.fresh \/ page.deployments.loaded = None
  PROVE  TakenSince'
<1>1. page.seen # <<>> /\ page'.seen = page.seen
  BY DEF Takes
<1>2. ASSUME ~page'.merged
      PROVE  /\ page'.project \in {page.seen.project[2], None, page'.since}
             /\ page'.env.loaded \in {page.seen.env[4], None, page'.since}
             /\ page'.deployments.loaded \in {page.seen.deployments[4], None, page'.since}
  BY <1>1, <1>2 DEF ProjectLive, TakenSince, Takes
<1>3. /\ page'.project = None => page.seen.project[2] = None \/ page'.error
      /\ page'.env.loaded = None => page.seen.env[4] = None \/ page'.fresh
      /\ page'.deployments.loaded = None =>
           page.seen.deployments[4] = None \/ page'.fresh
  BY <1>1 DEF ProjectLive, TakenSince, Takes
<1> QED
  BY <1>1, <1>2, <1>3 DEF TakenSince

\* An answer that is about something else than the project.
LEMMA AskedKept ==
  ASSUME ProjectLive, NEW i \in DOMAIN calls, NEW p, Takes(i, p),
         calls[i].op # "project", p.project = page.project, p.error = page.error,
         \A q : AskedFor(calls, {"project"}, q) => AskedFor(calls', {"project"}, q)
  PROVE  ProjectAsked'
BY DEF ProjectLive, ProjectAsked, Takes

\* It leaves what is known of the env as it is, unless it is about the env.
LEMMA EnvKept ==
  ASSUME ProjectLive, NEW i \in DOMAIN calls, NEW p, Takes(i, p),
         p.project = page.project, p.fresh = page.fresh, p.env = page.env,
         \A q : AskedFor(calls, {"env", "put"}, q) => AskedFor(calls', {"env", "put"}, q)
  PROVE  EnvAsked'
<1>1. Seen'.env = Seen.env
  BY DEF Seen, Takes
<1>2. Settled("env")' => Settled("env")
  BY <1>1 DEF Settled, Changed, Takes
<1> QED
  BY <1>2 DEF ProjectLive, EnvAsked, Takes

\* So it is with what is typed.
LEMMA TypingKept ==
  ASSUME ProjectLive, NEW i \in DOMAIN calls, NEW p, Takes(i, p),
         p.project = page.project, p.fresh = page.fresh, p.env = page.env,
         failures' = 0 => failures = 0, NoneOver(calls) => NoneOver(calls')
  PROVE  Typing'
<1>1. Seen'.env = Seen.env
  BY DEF Seen, Takes
<1>2. Settled("env")' => Settled("env")
  BY <1>1 DEF Settled, Changed, Takes
<1> QED
  BY <1>2 DEF ProjectLive, Typing, Plain, Takes

\* And with the deployments.
LEMMA DeploymentsKept ==
  ASSUME ProjectLive, NEW i \in DOMAIN calls, NEW p, Takes(i, p),
         p.project = page.project, p.fresh = page.fresh,
         p.deployments = page.deployments, failures' = 0 => failures = 0,
         \A ops, q : ops \subseteq {"deployments", "deploy"} /\ AskedFor(calls, ops, q)
                       => AskedFor(calls', ops, q)
  PROVE  DeploymentsAsked'
<1>1. Seen'.deployments = Seen.deployments
  BY DEF Seen, Takes
<1>2. Settled("deployments")' => Settled("deployments")
  BY <1>1 DEF Settled, Changed, Takes
<1> QED
  BY <1>2 DEF ProjectLive, DeploymentsAsked, Takes

\* What is in the editor stays, and so does the project.
LEMMA OwnKept ==
  ASSUME ProjectLive, NEW i \in DOMAIN calls, NEW p, Takes(i, p),
         p.project = page.project, p.env.content = page.env.content,
         AllOwn(calls) => AllOwn(calls')
  PROVE  OwnContent'
BY DEF ProjectLive, OwnContent, EnvIsOwn, Takes

\* If the effect has run for an env that an answer brings, that env was there before.
LEMMA EnvLoadedAnew ==
  ASSUME ProjectLive, NEW i \in DOMAIN calls, NEW p, Takes(i, p),
         calls[i].arg.id # None, p.project = page.project, p.fresh = page.fresh,
         p.env.loaded = calls[i].arg.id, ~page'.merged, Settled("env")'
  PROVE  page.env.loaded = calls[i].arg.id /\ Settled("env")
<1>1. ~page.fresh /\ page.seen.env = Seen'.env
  BY DEF Settled, Changed, Takes
<1>2. page.seen.env[4] = calls[i].arg.id
  BY <1>1 DEF Seen, Takes
<1>3. page.env.loaded = calls[i].arg.id
  BY <1>1, <1>2 DEF ProjectLive, TakenSince, Takes
<1>4. Seen'.env = Seen.env
  BY <1>3 DEF Seen, Takes
<1> QED
  BY <1>1, <1>3, <1>4 DEF Settled, Changed, Takes

\* So it is with deployments.
LEMMA DeploymentsLoadedAnew ==
  ASSUME ProjectLive, NEW i \in DOMAIN calls, NEW p, Takes(i, p),
         calls[i].arg.id # None, p.project = page.project, p.fresh = page.fresh,
         p.deployments.loaded = calls[i].arg.id, ~page'.merged, Settled("deployments")'
  PROVE  page.deployments.loaded = calls[i].arg.id /\ Settled("deployments")
<1>1. ~page.fresh /\ page.seen.deployments = Seen'.deployments
  BY DEF Settled, Changed, Takes
<1>2. page.seen.deployments[4] = calls[i].arg.id
  BY <1>1 DEF Seen, Takes
<1>3. page.deployments.loaded = calls[i].arg.id
  BY <1>1, <1>2 DEF ProjectLive, TakenSince, Takes
<1>4. Seen'.deployments = Seen.deployments
  BY <1>3 DEF Seen, Takes
<1> QED
  BY <1>1, <1>3, <1>4 DEF Settled, Changed, Takes

\* The project is there: what is kept of another is forgotten.
LEMMA ProjectLoadedInv ==
  ASSUME ClientOK, ProjectLive, NEW i \in DOMAIN calls,
         Read(i, "project"), PageTakes(i, ProjectLoaded(calls[i])), calls' = Without(i),
         UNCHANGED locked
  PROVE  ProjectLive'
<1> DEFINE c == calls[i]
           id == c.arg.id
           p == ProjectLoaded(c)
<1>1. /\ page \in PageStates /\ page.env \in Editors
      /\ page.deployments \in DeploymentLists /\ locked \subseteq Projects
      /\ id \in Projects /\ id # None /\ AsksLess(i, calls')
      /\ failures' = failures /\ c.op = "project"
  BY AnswerFacts
<1>2. p = [page EXCEPT !.project = id, !.fresh = TRUE, !.loading = FALSE,
             !.env = IF c.arg.current # id THEN EmptyEnv ELSE page.env,
             !.deployments = IF c.arg.current # id THEN EmptyDeployments
                             ELSE page.deployments]
  BY <1>1 DEF ProjectLoaded, PageStates
<1>3. PageTakes(i, p)
  OBVIOUS
<1> HIDE DEF p
<1>4. EmptyEnv \in Editors /\ EmptyDeployments \in DeploymentLists
  BY DEF EmptyEnv, Editors, EmptyDeployments, DeploymentLists, PageIds
<1>5. /\ LikePage(p) /\ p.project = id /\ p.error = page.error /\ p.fresh
      /\ p.env = IF c.arg.current # id THEN EmptyEnv ELSE page.env
      /\ p.deployments = IF c.arg.current # id THEN EmptyDeployments
                         ELSE page.deployments
  BY <1>1, <1>2, <1>4 DEF LikePage, PageStates, PageIds
<1>6. Takes(i, p)
  BY <1>3, <1>5, PageTakesFacts
<1>7. ~page'.stray /\ c.arg.current = id => page.project = id /\ page'.env = page.env
  BY <1>1, <1>5, <1>6 DEF Takes, Strays
<1> HIDE DEF c
<1>8. page'.fresh /\ ~Settled("env")' /\ ~Settled("deployments")'
  BY <1>5, <1>6 DEF Settled, Takes
<1>9. TakenSince'
  <2>1. p.env.loaded \in {page.env.loaded, None}
    BY <1>5 DEF EmptyEnv
  <2>2. p.deployments.loaded \in {page.deployments.loaded, None}
    BY <1>5 DEF EmptyDeployments
  <2> QED
    BY <1>1, <1>5, <1>6, <2>1, <2>2, SinceKept DEF c
<1>10. ProjectAsked'
  <2>1. page'.seen = page.seen /\ page.seen # <<>> /\ page'.project = id /\ token' = token
        /\ page'.error = page.error
    BY <1>5, <1>6 DEF Takes
  <2>2. \A q : AskedFor(calls, {"project"}, q) /\ q # id => AskedFor(calls', {"project"}, q)
    BY <1>1 DEF AsksLess, c
  <2> SUFFICES ASSUME ~page.error, ~page'.merged, id # page.seen.project[1],
                      id = page.seen.project[2], token = page.seen.project[3]
               PROVE  AskedFor(calls, {"project"}, page.seen.project[1])
    BY <2>1, <2>2 DEF ProjectAsked
  <2>3. /\ ~page.merged /\ page.since \in {None, id}
        /\ page.project \in {id, None, page.since} /\ page.project # None
    BY <1>1, <1>6, <2>1 DEF ProjectLive, TakenSince, Takes, c
  <2> QED
    BY <1>1, <2>1, <2>3 DEF ProjectLive, ProjectAsked
<1>11. EnvAsked'
  BY <1>8 DEF EnvAsked
<1>12. DeploymentsAsked'
  <2>1. page'.deployments.of = page'.deployments.loaded
    BY <1>5, <1>6 DEF ProjectLive, DeploymentsAsked, EmptyDeployments, Takes
  <2> QED
    BY <1>8, <2>1 DEF DeploymentsAsked
<1>13. OwnContent'
  <2> SUFFICES ASSUME ~page'.stray
               PROVE  page'.env.content \in {None, id} /\ AllOwn(calls') /\ EnvIsOwn'
    BY <1>5, <1>6 DEF OwnContent, Takes
  <2>1. /\ ~page.stray /\ AllOwn(calls) /\ EnvIsOwn /\ env' = env
        /\ page.project # None => page.env.content \in {None, page.project}
    BY <1>6 DEF ProjectLive, OwnContent, Takes
  <2>2. page'.env.content \in {None, id}
    <3>1. CASE c.arg.current = id
      BY <1>1, <1>7, <2>1, <3>1
    <3>2. CASE c.arg.current # id
      BY <1>5, <1>6, <3>2 DEF EmptyEnv, Takes
    <3> QED
      BY <3>1, <3>2
  <2> QED
    BY <1>1, <2>1, <2>2 DEF AsksLess, EnvIsOwn
<1>14. Typing'
  <2> SUFFICES ASSUME Plain'
               PROVE  /\ page'.env.typed => page'.env.loaded = id
                      /\ NoneOver(calls')
    BY <1>5, <1>6, <1>8 DEF Typing, Takes
  <2>1. Plain /\ ~page'.stray
    BY <1>1, <1>6 DEF Plain, Takes
  <2>2. page'.env.typed => page'.env.loaded = id
    <3>1. CASE c.arg.current = id
      BY <1>1, <1>7, <2>1, <3>1 DEF ProjectLive, Typing
    <3>2. CASE c.arg.current # id
      BY <1>5, <1>6, <3>2 DEF EmptyEnv, Takes
    <3> QED
      BY <3>1, <3>2
  <2> QED
    BY <1>1, <2>1, <2>2 DEF ProjectLive, Typing, AsksLess
<1> QED
  BY <1>1, <1>6, <1>9, <1>10, <1>11, <1>12, <1>13, <1>14, TakenInv DEF AsksLess

\* The project cannot be loaded.
LEMMA ProjectFailedInv ==
  ASSUME ClientOK, ProjectLive, NEW i \in DOMAIN calls,
         Fails(i, "project"), PageTakes(i, ProjectFailed(calls[i])), calls' = Without(i),
         UNCHANGED locked
  PROVE  ProjectLive'
<1> DEFINE c == calls[i]
           p == ProjectFailed(c)
<1>1. /\ page \in PageStates /\ page.env \in Editors
      /\ page.deployments \in DeploymentLists /\ locked \subseteq Projects
      /\ AsksLess(i, calls') /\ failures' # 0
  BY AnswerFacts
<1>2. p = [page EXCEPT !.project = None, !.fresh = TRUE, !.error = TRUE, !.loading = FALSE,
             !.env = IF c.arg.current # None THEN EmptyEnv ELSE page.env,
             !.deployments = IF c.arg.current # None THEN EmptyDeployments
                             ELSE page.deployments]
  BY <1>1 DEF ProjectFailed, PageStates
<1>3. PageTakes(i, p)
  OBVIOUS
<1> HIDE DEF c, p
<1>4. EmptyEnv \in Editors /\ EmptyDeployments \in DeploymentLists
  BY DEF EmptyEnv, Editors, EmptyDeployments, DeploymentLists, PageIds
<1>5. /\ LikePage(p) /\ p.project = None /\ p.error /\ p.fresh
      /\ p.env \in {EmptyEnv, page.env}
      /\ p.deployments \in {EmptyDeployments, page.deployments}
  BY <1>1, <1>2, <1>4 DEF LikePage, PageStates, PageIds
<1>6. Takes(i, p)
  BY <1>3, <1>5, PageTakesFacts
<1>7. /\ page'.fresh /\ ~Settled("env")' /\ ~Settled("deployments")'
      /\ page'.error /\ page'.project = None
  BY <1>5, <1>6 DEF Settled, Takes
<1>8. TakenSince'
  <2>1. p.env.loaded \in {page.env.loaded, None}
    BY <1>5 DEF EmptyEnv
  <2>2. p.deployments.loaded \in {page.deployments.loaded, None}
    BY <1>5 DEF EmptyDeployments
  <2> QED
    BY <1>5, <1>6, <2>1, <2>2, SinceKept
<1>9. ProjectAsked'
  BY <1>7 DEF ProjectAsked
<1>10. EnvAsked'
  BY <1>7 DEF EnvAsked
<1>11. DeploymentsAsked'
  <2>1. page'.deployments.of = page'.deployments.loaded
    BY <1>5, <1>6 DEF ProjectLive, DeploymentsAsked, EmptyDeployments, Takes
  <2> QED
    BY <1>7, <2>1 DEF DeploymentsAsked
<1>12. OwnContent'
  BY <1>1, <1>6, <1>7 DEF ProjectLive, OwnContent, EnvIsOwn, AsksLess, Takes
<1>13. Typing'
  BY <1>1 DEF Typing, Plain
<1> QED
  BY <1>1, <1>6, <1>8, <1>9, <1>10, <1>11, <1>12, <1>13, TakenInv DEF AsksLess

\* What is left to show of an answer about the env.
LEMMA EnvTakenInv ==
  ASSUME ClientOK, ProjectLive, NEW i \in DOMAIN calls, NEW e \in Editors,
         calls[i].op \in {"env", "put"}, PageTakes(i, [page EXCEPT !.env = e]),
         calls' = Without(i), UNCHANGED locked, failures' = 0 => failures = 0,
         e.loaded \in {page.env.loaded, calls[i].arg.id},
         \/ e.loaded = calls[i].arg.id /\ e.error = page.env.error
         \/ e.error /\ failures' # 0,
         e.typed => page.env.typed,
         Takes(i, [page EXCEPT !.env = e]) /\ ~page'.stray =>
           e.content \in {None, page.project, page.env.content}
  PROVE  ProjectLive'
<1> DEFINE id == calls[i].arg.id
           p == [page EXCEPT !.env = e]
<1>1. /\ page \in PageStates /\ page.deployments \in DeploymentLists
      /\ locked \subseteq Projects /\ id \in Projects /\ id # None /\ AsksLess(i, calls')
  BY AnswerFacts
<1>2. /\ LikePage(p) /\ p.project = page.project /\ p.error = page.error
      /\ p.fresh = page.fresh /\ p.env = e /\ p.deployments = page.deployments
  BY <1>1 DEF LikePage, PageStates
<1>3. Takes(i, p)
  BY <1>2, PageTakesFacts
<1> HIDE DEF p
<1>4. /\ page'.project = page.project /\ page'.tab = page.tab /\ page'.env = e
      /\ ~page'.merged => ~page.merged
      /\ ~page'.stray => ~page.stray /\ id = page.project
  BY <1>2, <1>3 DEF Takes, Strays
<1>5. e.loaded = id /\ ~page'.merged /\ Settled("env")' =>
        page.env.loaded = id /\ Settled("env")
  BY <1>1, <1>2, <1>3, EnvLoadedAnew
<1>6. TakenSince'
  BY <1>1, <1>2, <1>3, SinceKept
<1>7. ProjectAsked'
  <2>1. \A q : AskedFor(calls, {"project"}, q) => AskedFor(calls', {"project"}, q)
    BY <1>1 DEF AsksLess
  <2> QED
    BY <1>2, <1>3, <2>1, AskedKept
<1>8. EnvAsked'
  <2>1. \A ops, q : AskedFor(calls, ops, q) /\ q # id => AskedFor(calls', ops, q)
    BY <1>1 DEF AsksLess
  <2> QED
    BY <1>4, <1>5, <2>1 DEF ProjectLive, EnvAsked
<1>9. DeploymentsAsked'
  <2>1. \A ops, q : ops \subseteq {"deployments", "deploy"} /\ AskedFor(calls, ops, q)
                      => AskedFor(calls', ops, q)
    BY <1>1 DEF AsksLess
  <2> QED
    BY <1>2, <1>3, <2>1, DeploymentsKept
<1>10. OwnContent'
  <2>1. p = [page EXCEPT !.env = e]
    BY DEF p
  <2>2. ~page'.stray => e.content \in {None, page.project, page.env.content}
    BY <1>3, <2>1
  <2> QED
    BY <1>1, <1>3, <1>4, <2>2 DEF ProjectLive, OwnContent, EnvIsOwn, AsksLess, Takes
<1>11. Typing'
  <2> SUFFICES ASSUME Plain'
               PROVE  /\ Settled("env")' /\ page.tab = "env"
                           /\ page.project \notin {None, e.loaded} => e.loading
                      /\ e.typed /\ page.project # None => e.loaded = page.project
                      /\ NoneOver(calls')
    BY <1>4 DEF Typing
  <2>1. Plain /\ ~page'.merged /\ e.loaded = id /\ id = page.project
    BY <1>4 DEF Plain
  <2> QED
    BY <1>1, <2>1 DEF ProjectLive, Typing, AsksLess
<1> QED
  BY <1>1, <1>3, <1>6, <1>7, <1>8, <1>9, <1>10, <1>11, TakenInv DEF AsksLess

\* The env is there, as it is or as it was read.
LEMMA EnvLoadedInv ==
  ASSUME ClientOK, ProjectLive, NEW i \in DOMAIN calls, NEW v \in PageIds,
         Read(i, "env") \/ Ready(i, "env"),
         ~page.stray => v \in {None, calls[i].arg.id},
         PageTakes(i, [page EXCEPT !.env = EnvLoaded(calls[i], v)]),
         calls' = Without(i), UNCHANGED locked
  PROVE  ProjectLive'
<1> DEFINE id == calls[i].arg.id
           e == EnvLoaded(calls[i], v)
<1>1. /\ page.env \in Editors /\ id \in Projects /\ failures' = failures
      /\ calls[i].op = "env"
  BY AnswerFacts
<1>2. /\ e \in Editors /\ e.content = v /\ e.loaded = id /\ ~e.typed
      /\ e.error = page.env.error
  BY <1>1 DEF EnvLoaded, Editors, PageIds
<1> HIDE DEF e
<1>3. ASSUME Takes(i, [page EXCEPT !.env = e]), ~page'.stray
      PROVE  v \in {None, page.project}
  BY <1>1, <1>3 DEF Takes, Strays
<1>4. PageTakes(i, [page EXCEPT !.env = e])
  BY DEF e
<1> QED
  BY <1>1, <1>2, <1>3, <1>4, EnvTakenInv

\* What an answer brings for an env is its own.
LEMMA TakeEnvInv ==
  ASSUME ClientOK, ProjectLive, NEW i \in DOMAIN calls, TakeEnv(i)
  PROVE  ProjectLive'
<1> DEFINE c == calls[i]
<1>1. /\ page \in PageStates /\ page.env \in Editors /\ env \in [Projects -> PageIds]
      /\ c \in PageCalls /\ c.arg.id \in Projects
      /\ Fails(i, "env") => failures' # 0 /\ c.op = "env"
  BY AnswerFacts
<1>2. calls' = Without(i) /\ UNCHANGED locked
  BY DEF TakeEnv
<1>3. ~page.stray => AllOwn(calls) /\ EnvIsOwn
  BY DEF ProjectLive, OwnContent
<1>4. CASE /\ Read(i, "env")
           /\ PageTakes(i, [page EXCEPT !.env = EnvLoaded(c, env[c.arg.id])])
  <2>1. env[c.arg.id] \in PageIds /\ (~page.stray => env[c.arg.id] \in {None, c.arg.id})
    BY <1>1, <1>3 DEF EnvIsOwn
  <2> QED
    BY <1>2, <1>4, <2>1, EnvLoadedInv
<1>5. CASE /\ Ready(i, "env")
           /\ PageTakes(i, [page EXCEPT !.env = EnvLoaded(c, c.res.value)])
  <2>1. c \in EnvCalls /\ c.op = "env" /\ c.res.st = "ok"
    BY <1>1, <1>5, PageCallFacts DEF Ready
  <2>2. c.res.value \in PageIds
    BY <2>1 DEF EnvCalls, Waiting, Ok
  <2>3. ~page.stray => c.res.value \in {None, c.arg.id}
    BY <1>3, <2>1 DEF AllOwn, Own
  <2> QED
    BY <1>2, <1>5, <2>2, <2>3, EnvLoadedInv
<1>6. CASE /\ Fails(i, "env")
           /\ PageTakes(i, [page EXCEPT !.env.error = TRUE, !.env.loading = FALSE])
  <2> DEFINE e == [page.env EXCEPT !.error = TRUE, !.loading = FALSE]
  <2>1. /\ e \in Editors /\ e.content = page.env.content /\ e.error
        /\ e.typed = page.env.typed /\ e.loaded = page.env.loaded
    BY <1>1 DEF Editors
  <2>2. PageTakes(i, [page EXCEPT !.env = e])
    <3>1. [page EXCEPT !.env = e]
            = [page EXCEPT !.env.error = TRUE, !.env.loading = FALSE]
      BY <1>1 DEF PageStates, Editors
    <3> QED
      BY <1>6, <3>1
  <2> HIDE DEF e
  <2> QED
    BY <1>1, <1>2, <1>6, <2>1, <2>2, EnvTakenInv
<1> QED
  BY <1>4, <1>5, <1>6 DEF TakeEnv

\* The env is saved, and counts as loaded; or it is not.
LEMMA TakePutInv ==
  ASSUME ClientOK, ProjectLive, NEW i \in DOMAIN calls, TakePut(i)
  PROVE  ProjectLive'
<1> DEFINE id == calls[i].arg.id
<1>1. /\ page \in PageStates /\ page.env \in Editors /\ id \in Projects
      /\ Fails(i, "put") => failures' # 0 /\ calls[i].op = "put"
      /\ Ready(i, "put") => failures' = failures /\ calls[i].op = "put"
  BY AnswerFacts
<1>2. calls' = Without(i) /\ UNCHANGED locked
  BY DEF TakePut
<1>3. CASE /\ Ready(i, "put")
           /\ PageTakes(i, [page EXCEPT !.env.loaded = id, !.env.saving = FALSE,
                                        !.env.typed = @ /\ ~page.env.saving])
  <2> DEFINE t == page.env.typed /\ ~page.env.saving
             e == [page.env EXCEPT !.loaded = id, !.saving = FALSE, !.typed = t]
  <2>1. t \in BOOLEAN /\ (t => page.env.typed)
    BY <1>1 DEF Editors
  <2>2. PageTakes(i, [page EXCEPT !.env = e])
    <3>1. [page EXCEPT !.env = e]
            = [page EXCEPT !.env.loaded = id, !.env.saving = FALSE,
                           !.env.typed = @ /\ ~page.env.saving]
      BY <1>1 DEF PageStates, Editors
    <3> QED
      BY <1>3, <3>1
  <2> HIDE DEF t
  <2>3. /\ e \in Editors /\ e.content = page.env.content /\ e.error = page.env.error
        /\ e.typed = t /\ e.loaded = id
    BY <1>1, <2>1 DEF Editors, PageIds
  <2> HIDE DEF e
  <2> QED
    BY <1>1, <1>2, <1>3, <2>1, <2>2, <2>3, EnvTakenInv
<1>4. CASE /\ Fails(i, "put")
           /\ PageTakes(i, [page EXCEPT !.env.error = TRUE, !.env.saving = FALSE])
  <2> DEFINE e == [page.env EXCEPT !.error = TRUE, !.saving = FALSE]
  <2>1. /\ e \in Editors /\ e.content = page.env.content /\ e.error
        /\ e.typed = page.env.typed /\ e.loaded = page.env.loaded
    BY <1>1 DEF Editors
  <2>2. PageTakes(i, [page EXCEPT !.env = e])
    <3>1. [page EXCEPT !.env = e]
            = [page EXCEPT !.env.error = TRUE, !.env.saving = FALSE]
      BY <1>1 DEF PageStates, Editors
    <3> QED
      BY <1>4, <3>1
  <2> HIDE DEF e
  <2> QED
    BY <1>1, <1>2, <1>4, <2>1, <2>2, EnvTakenInv
<1> QED
  BY <1>3, <1>4 DEF TakePut

\* What is left to show of an answer about deployments.
LEMMA DeploymentsTakenInv ==
  ASSUME ClientOK, ProjectLive, NEW i \in DOMAIN calls, NEW d \in DeploymentLists,
         calls[i].op \in {"deployments", "deploy"},
         PageTakes(i, [page EXCEPT !.deployments = d]), calls' \in Seq(PageCalls),
         locked' \subseteq Projects, failures' = 0 => failures = 0,
         d.loaded \in {page.deployments.loaded, calls[i].arg.id},
         \A ops, q : ops \cap {"deployments", "deploy"} = {} /\ AskedFor(calls, ops, q)
                       => AskedFor(calls', ops, q),
         AllOwn(calls) => AllOwn(calls'), NoneOver(calls) => NoneOver(calls'),
         Takes(i, [page EXCEPT !.deployments = d]) => DeploymentsAsked'
  PROVE  ProjectLive'
<1> DEFINE p == [page EXCEPT !.deployments = d]
<1>1. page \in PageStates /\ calls[i].arg.id # None
  BY AnswerFacts
<1>2. /\ LikePage(p) /\ p.project = page.project /\ p.error = page.error
      /\ p.fresh = page.fresh /\ p.env = page.env /\ p.deployments = d
  BY <1>1 DEF LikePage, PageStates
<1>3. Takes(i, p) /\ DeploymentsAsked'
  BY <1>2, PageTakesFacts
<1> HIDE DEF p
<1>4. TakenSince'
  BY <1>1, <1>2, <1>3, SinceKept
<1>5. ProjectAsked'
  BY <1>2, <1>3, AskedKept
<1>6. EnvAsked'
  BY <1>2, <1>3, EnvKept
<1>7. OwnContent'
  BY <1>2, <1>3, OwnKept
<1>8. Typing'
  BY <1>2, <1>3, TypingKept
<1> QED
  BY <1>3, <1>4, <1>5, <1>6, <1>7, <1>8, TakenInv

\* The deployments are there, or not.
LEMMA TakeDeploymentsInv ==
  ASSUME ClientOK, ProjectLive, NEW i \in DOMAIN calls, TakeDeployments(i)
  PROVE  ProjectLive'
<1> DEFINE c == calls[i]
           deploying == page.deployments.deploying /\ ~c.arg.after
           ended == [page.deployments EXCEPT !.loading = FALSE, !.deploying = deploying]
           read(r) == [ended EXCEPT !.of = c.arg.id, !.loaded = c.arg.id, !.running = r]
           failed == [ended EXCEPT !.error = TRUE]
<1>1. /\ page \in PageStates /\ page.deployments \in DeploymentLists /\ c \in PageCalls
      /\ locked \subseteq Projects /\ c.arg.id \in Projects /\ c.arg.id # None
      /\ AsksLess(i, Without(i))
  BY AnswerFacts
<1>2. calls' = Without(i) /\ UNCHANGED locked
  BY DEF TakeDeployments
<1>3. deploying \in BOOLEAN /\ (c.arg.id \in locked) \in BOOLEAN
  BY <1>1 DEF DeploymentLists
<1>4. [page EXCEPT !.deployments.loading = FALSE,
                   !.deployments.deploying = @ /\ ~c.arg.after]
        = [page EXCEPT !.deployments = ended]
  BY <1>1 DEF PageStates, DeploymentLists
<1> DEFINE listed(r) == [[page EXCEPT !.deployments = ended]
                           EXCEPT !.deployments.of = c.arg.id,
                                  !.deployments.loaded = c.arg.id,
                                  !.deployments.running = r]
<1>5. \/ Read(i, "deployments") /\ PageTakes(i, listed(c.arg.id \in locked))
      \/ Ready(i, "deployments") /\ PageTakes(i, listed(c.res.value))
      \/ /\ Fails(i, "deployments")
         /\ PageTakes(i, [[page EXCEPT !.deployments = ended]
                            EXCEPT !.deployments.error = TRUE])
  BY <1>4 DEF TakeDeployments
<1> HIDE DEF deploying
<1>6. /\ ended \in DeploymentLists /\ ended.of = page.deployments.of
      /\ ended.loaded = page.deployments.loaded /\ ended.error = page.deployments.error
  BY <1>1, <1>3 DEF DeploymentLists
<1> HIDE DEF ended
<1>7. /\ \A r : listed(r) = [page EXCEPT !.deployments = read(r)]
      /\ [[page EXCEPT !.deployments = ended] EXCEPT !.deployments.error = TRUE]
           = [page EXCEPT !.deployments = failed]
  BY <1>1 DEF PageStates
<1>8. /\ \A r \in BOOLEAN : /\ read(r) \in DeploymentLists /\ read(r).of = c.arg.id
                            /\ read(r).loaded = c.arg.id
                            /\ read(r).error = page.deployments.error
      /\ failed \in DeploymentLists /\ failed.of = page.deployments.of
      /\ failed.loaded = page.deployments.loaded /\ failed.error
  BY <1>1, <1>3, <1>6 DEF DeploymentLists, PageIds
<1>9. Ready(i, "deployments") => c.res.value \in BOOLEAN
  <2>1. ASSUME Ready(i, "deployments")  PROVE c \in DeploymentsCalls /\ c.res.st = "ok"
    BY <1>1, <2>1, PageCallFacts DEF Ready
  <2>2. Ready(i, "deployments") => c.res = Ok(TRUE) \/ c.res = Ok(FALSE)
    <3>1. Ready(i, "deployments") => c.res \in {Waiting, Ok(TRUE), Ok(FALSE)}
      BY <2>1 DEF DeploymentsCalls
    <3>2. Waiting.st # "ok"
      BY DEF Waiting
    <3> QED
      BY <2>1, <3>1, <3>2
  <2>3. Ok(TRUE).value = TRUE /\ Ok(FALSE).value = FALSE
    BY Zenon DEF Ok
  <2> QED
    BY <2>2, <2>3, Zenon
<1> HIDE DEF listed, read, failed, c
<1>10. PICK d \in DeploymentLists :
         /\ PageTakes(i, [page EXCEPT !.deployments = d])
         /\ calls[i].op = "deployments"
         /\ \/ /\ d.of = c.arg.id /\ d.loaded = c.arg.id
               /\ d.error = page.deployments.error /\ failures' = failures
            \/ /\ d.of = page.deployments.of /\ d.loaded = page.deployments.loaded
               /\ d.error /\ failures' # 0
  <2>1. CASE Read(i, "deployments") /\ PageTakes(i, listed(c.arg.id \in locked))
    <3>1. failures' = failures /\ calls[i].op = "deployments"
      BY <2>1, AnswerFacts
    <3> QED
      BY <1>3, <1>7, <1>8, <2>1, <3>1
  <2>2. CASE Ready(i, "deployments") /\ PageTakes(i, listed(c.res.value))
    <3>1. failures' = failures /\ calls[i].op = "deployments"
      BY <2>2, AnswerFacts
    <3> QED
      BY <1>7, <1>8, <1>9, <2>2, <3>1
  <2>3. CASE /\ Fails(i, "deployments")
             /\ PageTakes(i, [[page EXCEPT !.deployments = ended]
                                EXCEPT !.deployments.error = TRUE])
    <3>1. failures' # 0 /\ calls[i].op = "deployments"
      BY <2>3, AnswerFacts
    <3> QED
      BY <1>7, <1>8, <2>3, <3>1
  <2> QED
    BY <1>5, <2>1, <2>2, <2>3
<1> DEFINE p == [page EXCEPT !.deployments = d]
<1>11. ASSUME Takes(i, p)  PROVE DeploymentsAsked'
  <2>1. /\ p.project = page.project /\ p.fresh = page.fresh /\ p.deployments = d
    BY <1>1 DEF PageStates
  <2> HIDE DEF p
  <2>2. /\ page'.project = page.project /\ page'.tab = page.tab
        /\ page'.deployments = d /\ (~page'.merged => ~page.merged)
        /\ ~page'.stray => ~page.stray
    BY <1>11, <2>1 DEF Takes
  <2>3. \A ops, q : AskedFor(calls, ops, q) /\ q # c.arg.id => AskedFor(calls', ops, q)
    BY <1>1, <1>2 DEF AsksLess, c
  <2>4. d.of = d.loaded
    BY <1>10 DEF ProjectLive, DeploymentsAsked
  <2>5. CASE d.loaded = c.arg.id /\ d.error = page.deployments.error /\ failures' = failures
    <3>1. ~page'.merged /\ Settled("deployments")' =>
            page.deployments.loaded = c.arg.id /\ Settled("deployments")
      BY <1>1, <1>11, <2>1, <2>5, DeploymentsLoadedAnew DEF c
    <3> QED
      BY <2>2, <2>3, <2>4, <2>5, <3>1 DEF ProjectLive, DeploymentsAsked
  <2>6. CASE d.error /\ failures' # 0
    BY <2>2, <2>4, <2>6 DEF DeploymentsAsked
  <2> QED
    BY <1>10, <2>5, <2>6
<1>12. /\ calls' \in Seq(PageCalls) /\ (failures' = 0 => failures = 0)
       /\ d.loaded \in {page.deployments.loaded, c.arg.id}
       /\ \A ops, q : ops \cap {"deployments", "deploy"} = {} /\ AskedFor(calls, ops, q)
                        => AskedFor(calls', ops, q)
       /\ AllOwn(calls) => AllOwn(calls')
       /\ NoneOver(calls) => NoneOver(calls')
  BY <1>1, <1>2, <1>10 DEF AsksLess
<1> QED
  BY <1>1, <1>2, <1>10, <1>11, <1>12, DeploymentsTakenInv DEF c

\* The project was deployed: its deployments are loaded.
LEMMA DeployedInv ==
  ASSUME ClientOK, ProjectLive, NEW i \in DOMAIN calls, Ready(i, "deploy"),
         PageTakes(i, [page EXCEPT !.deployments = DeploymentsLoading(@)]),
         calls' = Append(Without(i), DeploymentsCall(calls[i].arg.id, TRUE)),
         UNCHANGED locked
  PROVE  ProjectLive'
<1> DEFINE w == Without(i)
           id == calls[i].arg.id
           c == DeploymentsCall(id, TRUE)
           d == DeploymentsLoading(page.deployments)
           p == [page EXCEPT !.deployments = d]
<1>1. /\ page \in PageStates /\ page.deployments \in DeploymentLists
      /\ locked \subseteq Projects /\ id \in Projects /\ AsksLess(i, w)
      /\ failures' = failures /\ calls[i].op = "deploy"
  BY AnswerFacts
<1>2. c \in PageCalls /\ c.op = "deployments" /\ c.arg.id = id /\ Own(c) /\ ~Over(c)
  BY <1>1, PageCallsMade
<1>3. PageTakes(i, p)
  BY <1>1 DEF PageStates
<1>4. /\ d \in DeploymentLists /\ d.of = page.deployments.of
      /\ d.loaded = page.deployments.loaded
  BY <1>1 DEF DeploymentLists, DeploymentsLoading
<1>5. AsksMore(w, c, calls')
  <2>1. w \in Seq(PageCalls)
    BY <1>1 DEF AsksLess
  <2> HIDE DEF w, c
  <2>2. calls' = Append(w, c)
    BY DEF w, c, id
  <2> QED
    BY <1>2, <2>1, <2>2, PageAsksMore
<1> HIDE DEF w, c, id, d
<1>6. ASSUME Takes(i, p)  PROVE DeploymentsAsked'
  <2>1. p.project = page.project /\ p.fresh = page.fresh /\ p.env = page.env
        /\ p.deployments = d
    BY <1>1 DEF PageStates
  <2> HIDE DEF p
  <2>2. /\ page'.project = page.project /\ page'.tab = page.tab
        /\ page'.deployments = d /\ (~page'.merged => ~page.merged)
        /\ ~page'.stray => id = page.project
    BY <1>1, <1>6, <2>1 DEF Takes, Strays, id
  <2>3. Seen'.deployments = Seen.deployments
    BY <1>4, <1>6, <2>1 DEF Seen, Takes
  <2>4. Settled("deployments")' => Settled("deployments")
    BY <1>6, <2>1, <2>3 DEF Settled, Changed, Takes
  <2>5. CASE id = page.project
    <3>1. \A ops : "deployments" \in ops => AskedFor(calls', ops, page.project)
      BY <1>2, <1>5, <2>5 DEF AsksMore
    <3> QED
      BY <1>4, <2>2, <3>1 DEF ProjectLive, DeploymentsAsked
  <2>6. CASE id # page.project
    <3>1. \A q : AskedFor(calls, {"deployments"}, q) =>
                   AskedFor(calls', {"deployments"}, q)
      BY <1>1, <1>5 DEF AsksLess, AsksMore
    <3> QED
      BY <1>1, <1>4, <2>2, <2>4, <2>6, <3>1 DEF ProjectLive, DeploymentsAsked
  <2> QED
    BY <2>5, <2>6
<1>7. /\ calls' \in Seq(PageCalls)
      /\ \A ops, q : ops \cap {"deployments", "deploy"} = {} /\ AskedFor(calls, ops, q)
                       => AskedFor(calls', ops, q)
      /\ AllOwn(calls) => AllOwn(calls')
      /\ NoneOver(calls) => NoneOver(calls')
  BY <1>1, <1>2, <1>5 DEF AsksLess, AsksMore
<1> QED
  BY <1>1, <1>3, <1>4, <1>6, <1>7, DeploymentsTakenInv

\* The deployment failed, was refused, or its answer is lost.
LEMMA DeployLostInv ==
  ASSUME ClientOK, ProjectLive, NEW i \in DOMAIN calls,
         Fails(i, "deploy") \/ Ready(i, "deploy"),
         PageTakes(i, [page EXCEPT !.deployments.error = TRUE,
                                   !.deployments.deploying = FALSE]),
         calls' = Without(i), locked' \subseteq Projects
  PROVE  ProjectLive'
<1> DEFINE d == [page.deployments EXCEPT !.error = TRUE, !.deploying = FALSE]
           p == [page EXCEPT !.deployments = d]
<1>1. /\ page \in PageStates /\ page.deployments \in DeploymentLists
      /\ AsksLess(i, calls') /\ (failures' = 0 => failures = 0) /\ calls[i].op = "deploy"
  BY AnswerFacts
<1>2. PageTakes(i, p)
  <2>1. p = [page EXCEPT !.deployments.error = TRUE, !.deployments.deploying = FALSE]
    BY <1>1 DEF PageStates, DeploymentLists
  <2> QED
    BY <2>1
<1>3. /\ d \in DeploymentLists /\ d.of = page.deployments.of
      /\ d.loaded = page.deployments.loaded /\ d.error
  BY <1>1 DEF DeploymentLists
<1> HIDE DEF d
<1>4. ASSUME Takes(i, p)  PROVE DeploymentsAsked'
  <2>1. p.project = page.project /\ p.fresh = page.fresh /\ p.env = page.env
        /\ p.deployments = d
    BY <1>1 DEF PageStates
  <2> HIDE DEF p
  <2>2. /\ page'.project = page.project /\ page'.tab = page.tab
        /\ page'.deployments = d /\ (~page'.merged => ~page.merged)
    BY <1>4, <2>1 DEF Takes
  <2>3. Seen'.deployments = Seen.deployments
    BY <1>3, <1>4, <2>1 DEF Seen, Takes
  <2>4. Settled("deployments")' => Settled("deployments")
    BY <1>4, <2>1, <2>3 DEF Settled, Changed, Takes
  <2>5. \A q : AskedFor(calls, {"deployments"}, q) => AskedFor(calls', {"deployments"}, q)
    BY <1>1 DEF AsksLess
  <2> QED
    BY <1>1, <1>3, <2>2, <2>4, <2>5 DEF ProjectLive, DeploymentsAsked
<1>5. /\ calls' \in Seq(PageCalls)
      /\ \A ops, q : ops \cap {"deployments", "deploy"} = {} /\ AskedFor(calls, ops, q)
                       => AskedFor(calls', ops, q)
      /\ AllOwn(calls) => AllOwn(calls')
      /\ NoneOver(calls) => NoneOver(calls')
  BY <1>1 DEF AsksLess
<1> QED
  BY <1>1, <1>2, <1>3, <1>4, <1>5, DeploymentsTakenInv

\* What the page of a project does to the tokens and the failures.
LEMMA PageClient ==
  ASSUME ClientOK, ProjectReader \/ ProjectAnswer
  PROVE  ClientOK'
<1>1. /\ UNCHANGED <<token, good>>
      /\ failures' = failures \/ (failures < MaxFailures /\ failures' = failures + 1)
  <2>1. CASE ProjectReader
    BY <2>1 DEF ProjectReader, Jump, SelectTab, Type, HandleEnvSubmit, ReloadEnv,
         HandleDeploy, Act
  <2>2. CASE ProjectAnswer
    <3>1. PICK i \in DOMAIN calls :
            \/ ApiServes(i) \/ TakeProject(i) \/ TakeEnv(i) \/ TakePut(i)
            \/ TakeDeployments(i) \/ TakeDeploy(i)
      BY <2>2 DEF ProjectAnswer, ApiServes
    <3>2. CASE ApiServes(i)
      BY <3>2 DEF ApiServes, GetProjectEnv, PutProjectEnv, ListProjectDeployments,
           DeployStarts, Conflict, DeployEnds, ByTheApi
    <3>3. CASE TakeProject(i) \/ TakeEnv(i) \/ TakePut(i)
      BY <3>3 DEF TakeProject, TakeEnv, TakePut, PageTakes, Fails, Read, Ready
    <3>4. CASE TakeDeployments(i) \/ TakeDeploy(i)
      BY <3>4 DEF TakeDeployments, TakeDeploy, PageTakes, Fails, Read, Ready
    <3> QED
      BY <3>1, <3>2, <3>3, <3>4
  <2> QED
    BY <2>1, <2>2
<1>2. failures' \in 0 .. MaxFailures
  BY <1>1, ClientAssumption DEF ClientOK
<1> QED
  BY <1>1, <1>2 DEF ClientOK

\* Every step of the page keeps what is known of it.
LEMMA ProjectStepInv ==
  ASSUME ClientOK, ProjectLive, ProjectNext
  PROVE  ProjectLive' /\ ClientOK'
<1>1. CASE ProjectRender
  BY <1>1, ProjectRenderInv
<1>2. CASE ProjectReader
  BY <1>2, PageClient, JumpInv, SelectTabInv, TypeInv, HandleEnvSubmitInv, ReloadEnvInv,
     HandleDeployInv
     DEF ProjectReader
<1>3. CASE ProjectAnswer
  <2>1. PICK i \in DOMAIN calls :
          \/ ApiServes(i) \/ TakeProject(i) \/ TakeEnv(i) \/ TakePut(i)
          \/ TakeDeployments(i) \/ TakeDeploy(i)
    BY <1>3 DEF ProjectAnswer, ApiServes
  <2>2. ClientOK'
    BY <1>3, PageClient
  <2>3. CASE ApiServes(i)
    BY <2>3, ApiServesInv
  <2>4. CASE TakeProject(i)
    BY <2>2, <2>4, ProjectLoadedInv, ProjectFailedInv DEF TakeProject
  <2>5. CASE TakeEnv(i)
    BY <2>2, <2>5, TakeEnvInv
  <2>6. CASE TakePut(i)
    BY <2>2, <2>6, TakePutInv
  <2>7. CASE TakeDeployments(i)
    BY <2>2, <2>7, TakeDeploymentsInv
  <2>8. CASE TakeDeploy(i)
    <3>1. locked' \subseteq Projects
      BY <2>8 DEF TakeDeploy, ProjectLive, ProjectOK, PageTyped
    <3> QED
      BY <2>2, <2>8, <3>1, DeployedInv, DeployLostInv DEF TakeDeploy
  <2> QED
    BY <2>1, <2>3, <2>4, <2>5, <2>6, <2>7, <2>8
<1>4. CASE Retries /\ UNCHANGED projectVars
  BY <1>4, PageRetryInv DEF Retries
<1>5. CASE TokenExpires /\ UNCHANGED projectVars
  <2>1. /\ UNCHANGED <<route, calls, token, dirty, failures, page, env, locked>>
        /\ good < MaxToken /\ good' = good + 1
    BY <1>5 DEF TokenExpires, projectVars
  <2>2. ClientOK'
    BY <2>1, ClientAssumption DEF ClientOK
  <2>3. ProjectLive'
    BY <2>1
       DEF ProjectLive, ProjectOK, PageTyped, Rendered, TakenSince, ProjectAsked, EnvAsked,
           DeploymentsAsked, OwnContent, EnvIsOwn, Typing, Plain, Settled, Changed, Seen
  <2> QED
    BY <2>2, <2>3
<1> QED
  BY <1>1, <1>2, <1>3, <1>4, <1>5 DEF ProjectNext

\* So does what is known of it whichever page is mounted.
LEMMA ProjectNextInv ==
  ASSUME ProjectInv, ProjectNext
  PROVE  ProjectInv'
<1>1. ClientOK /\ ProjectLive
  BY DEF ProjectNext, ProjectInv
<1>2. ClientOK' /\ ProjectLive'
  BY <1>1, ProjectStepInv
<1> QED
  BY <1>2 DEF ProjectInv, ProjectLive, ProjectOK, OwnContent, EnvIsOwn

\* What is left of what is typed when an answer was taken.
LEMMA TakenEnv ==
  ASSUME ProjectLive, NEW i \in DOMAIN calls, NEW p, LikePage(p), PageTakes(i, p)
  PROVE  /\ page'.env = p.env /\ page'.project = p.project
         /\ ~page'.stray => ~page.stray
         /\ ~page'.merged => ~page.merged
BY PageTakesFacts DEF Takes

\* What is typed into the editor is not taken away by a step of the page.
Kept ==
  page.env.typed /\ ~page'.env.typed =>
    \/ page'.acts # page.acts \/ page'.stray \/ page'.merged
    \/ \E i \in DOMAIN calls :
         /\ calls' = Without(i)
         /\ \/ calls[i].op = "put"
            \/ /\ calls[i].op = "project"
               /\ \/ page'.project # page.project
                  \/ calls[i].arg.current # page.project
            \/ /\ calls[i].op = "env"
               /\ ~calls[i].arg.over \/ failures > 0

\* So it is when an answer for the project is taken.
LEMMA TakeProjectKeeps ==
  ASSUME ClientOK, ProjectLive, NEW i \in DOMAIN calls, TakeProject(i)
  PROVE  Kept
<1> DEFINE c == calls[i]
<1>1. page \in PageStates /\ c \in PageCalls /\ c.arg.id \in Projects
  BY AnswerFacts
<1>2. calls' = Without(i) /\ c.op = "project"
  BY DEF TakeProject, Read, Served, Fails
<1>3. EmptyEnv \in Editors /\ EmptyDeployments \in DeploymentLists
  BY DEF EmptyEnv, Editors, EmptyDeployments, DeploymentLists, PageIds
<1>4. CASE PageTakes(i, ProjectLoaded(c))
  <2> DEFINE p == ProjectLoaded(c)
  <2>1. /\ LikePage(p) /\ p.project = c.arg.id
        /\ c.arg.current = c.arg.id => p.env = page.env
    BY <1>1, <1>3 DEF ProjectLoaded, LikePage, PageStates, PageIds
  <2> HIDE DEF p
  <2>2. page'.env = p.env /\ page'.project = p.project
    BY <1>4, <2>1, TakenEnv DEF p
  <2> QED
    BY <1>2, <2>1, <2>2 DEF Kept
<1>5. CASE PageTakes(i, ProjectFailed(c))
  <2> DEFINE p == ProjectFailed(c)
  <2>1. /\ LikePage(p) /\ p.project = None
        /\ c.arg.current = None => p.env = page.env
    BY <1>1, <1>3 DEF ProjectFailed, LikePage, PageStates, PageIds
  <2> HIDE DEF p
  <2>2. page'.env = p.env /\ page'.project = p.project
    BY <1>5, <2>1, TakenEnv DEF p
  <2> QED
    BY <1>2, <2>1, <2>2 DEF Kept
<1> QED
  BY <1>4, <1>5 DEF TakeProject

\* When one for an env is, too.
LEMMA TakeEnvKeeps ==
  ASSUME ClientOK, ProjectLive, NEW i \in DOMAIN calls, TakeEnv(i)
  PROVE  Kept
<1> DEFINE c == calls[i]
<1>1. /\ page \in PageStates /\ page.env \in Editors /\ env \in [Projects -> PageIds]
      /\ c \in PageCalls /\ c.arg.id \in Projects /\ failures \in Nat
  BY AnswerFacts
<1>2. calls' = Without(i) /\ c.op = "env"
  BY DEF TakeEnv, Read, Ready, Served, Fails
<1>3. ASSUME NEW v \in PageIds, PageTakes(i, [page EXCEPT !.env = EnvLoaded(c, v)])
      PROVE  Kept
  <2> DEFINE p == [page EXCEPT !.env = EnvLoaded(c, v)]
  <2>1. EnvLoaded(c, v) \in Editors
    BY <1>1 DEF EnvLoaded, Editors, PageIds
  <2>2. LikePage(p)
    BY <1>1, <2>1 DEF LikePage, PageStates
  <2> HIDE DEF p
  <2>3. (~page'.stray => ~page.stray) /\ (~page'.merged => ~page.merged)
    BY <1>3, <2>2, TakenEnv DEF p
  <2>4. Plain => ~c.arg.over
    BY <1>2 DEF ProjectLive, Typing, NoneOver, Over
  <2> QED
    BY <1>1, <1>2, <2>3, <2>4 DEF Kept, Plain
<1>4. CASE /\ Read(i, "env")
           /\ PageTakes(i, [page EXCEPT !.env = EnvLoaded(c, env[c.arg.id])])
  BY <1>1, <1>3, <1>4
<1>5. CASE /\ Ready(i, "env")
           /\ PageTakes(i, [page EXCEPT !.env = EnvLoaded(c, c.res.value)])
  <2>1. c \in EnvCalls /\ c.res.st = "ok"
    BY <1>1, <1>2, <1>5, PageCallFacts DEF Ready
  <2>2. c.res.value \in PageIds
    BY <2>1 DEF EnvCalls, Waiting, Ok
  <2> QED
    BY <1>3, <1>5, <2>2
<1>6. CASE PageTakes(i, [page EXCEPT !.env.error = TRUE, !.env.loading = FALSE])
  <2> DEFINE p == [page EXCEPT !.env.error = TRUE, !.env.loading = FALSE]
  <2>1. LikePage(p) /\ p.env.typed = page.env.typed
    BY <1>1 DEF LikePage, PageStates, Editors
  <2> HIDE DEF p
  <2>2. page'.env = p.env
    BY <1>6, <2>1, TakenEnv DEF p
  <2> QED
    BY <2>1, <2>2 DEF Kept
<1> QED
  BY <1>4, <1>5, <1>6 DEF TakeEnv

\* Every step of the page keeps what is typed.
LEMMA ProjectNextKeeps ==
  ASSUME ProjectInv, ProjectNext
  PROVE  Kept
<1>1. ClientOK /\ ProjectLive /\ page \in PageStates
  BY DEF ProjectNext, ProjectInv, ProjectLive, ProjectOK, PageTyped
<1>2. CASE ProjectRender
  BY <1>1, <1>2, RenderedPage DEF Kept
<1>3. CASE ProjectReader
  <2>1. page.acts \in Nat
    BY <1>1, PageActsAssumption DEF PageStates
  <2>2. Acted.acts = page.acts + 1
    BY <1>1 DEF Acted, PageStates
  <2>3. page'.acts = Acted.acts
    <3>1. DOMAIN Acted = DOMAIN page /\ "acts" \in DOMAIN page
      BY <1>1 DEF Acted, PageStates
    <3> QED
      BY <1>3, <3>1 DEF ProjectReader, Jump, SelectTab, Type, HandleEnvSubmit, ReloadEnv,
           HandleDeploy
  <2> QED
    BY <2>1, <2>2, <2>3 DEF Kept
<1>4. CASE ProjectAnswer
  <2>1. PICK i \in DOMAIN calls :
          \/ ApiServes(i) \/ TakeProject(i) \/ TakeEnv(i) \/ TakePut(i)
          \/ TakeDeployments(i) \/ TakeDeploy(i)
    BY <1>4 DEF ProjectAnswer, ApiServes
  <2>2. CASE ApiServes(i)
    BY <2>2 DEF ApiServes, GetProjectEnv, PutProjectEnv, ListProjectDeployments,
         DeployStarts, Conflict, DeployEnds, ByTheApi, Kept
  <2>3. CASE TakeProject(i)
    BY <1>1, <2>3, TakeProjectKeeps
  <2>4. CASE TakeEnv(i)
    BY <1>1, <2>4, TakeEnvKeeps
  <2>5. CASE TakePut(i)
    <3>1. calls[i].op = "put" /\ calls' = Without(i)
      BY <2>5 DEF TakePut, Ready, Fails
    <3> QED
      BY <3>1 DEF Kept
  <2>6. CASE TakeDeployments(i) \/ TakeDeploy(i)
    <3>1. PICK d : PageTakes(i, [page EXCEPT !.deployments = d])
      <4>1. CASE TakeDeployments(i)
        BY <1>1, <4>1, ZenonT(40) DEF TakeDeployments, PageStates, DeploymentLists
      <4>2. CASE TakeDeploy(i)
        BY <1>1, <4>2 DEF TakeDeploy, PageStates, DeploymentLists
      <4> QED
        BY <2>6, <4>1, <4>2
    <3> DEFINE p == [page EXCEPT !.deployments = d]
    <3>2. DOMAIN p = DOMAIN page /\ p.env = page.env
      BY <1>1 DEF PageStates
    <3>3. "env" \notin {"since", "merged", "stray"} /\ "env" \in DOMAIN page
      BY <1>1 DEF PageStates
    <3>4. page'.env = p.env
      <4>1. PageTakes(i, p)
        BY <3>1
      <4> HIDE DEF p
      <4> QED
        BY <3>2, <3>3, <4>1 DEF PageTakes
    <3> QED
      BY <3>2, <3>4 DEF Kept
  <2> QED
    BY <2>1, <2>2, <2>3, <2>4, <2>5, <2>6
<1>5. CASE UNCHANGED projectVars
  BY <1>5 DEF projectVars, Kept
<1> QED
  BY <1>2, <1>3, <1>4, <1>5 DEF ProjectNext

\* The page that is mounted stays, and only its own state changes.
LEMMA OnePageSteps ==
  ASSUME Next
  PROVE  /\ route' = route
         /\ route # "audit" => UNCHANGED auditVars
         /\ route # "project" => UNCHANGED projectVars
         /\ route # "dashboard" => UNCHANGED dashVars
         /\ route \notin {"services", "domains"} => UNCHANGED tabVars
         /\ route # "projects" => UNCHANGED projectsVars
         /\ route = "audit" => AuditNext
         /\ route = "project" => ProjectNext
         /\ route = "dashboard" => DashNext
         /\ route \in {"services", "domains"} => TabNext
         /\ route = "projects" => ProjectsNext
<1>1. CASE AuditNext /\ UNCHANGED <<projectVars, tabVars, projectsVars, dashVars>>
  <2>1. route = "audit" /\ UNCHANGED <<projectVars, tabVars, projectsVars, dashVars>>
    BY <1>1 DEF AuditNext
  <2>2. route' = route
    BY <1>1 DEF AuditNext, AuditRender, AuditReader, AuditAnswer, AuditFailure,
         RowAdded, UpdateFilterState, GoToPage, OpenAuditDrawer, Back,
         CloseAuditDrawer, HandleAuditExport, Click, Count, TakeList, TakeExport,
         ListFails, ExportFails, Answer, Retries, Retry, TokenExpires, clientVars
  <2> QED
    BY <1>1, <2>1, <2>2
<1>2. CASE ProjectNext /\ UNCHANGED <<auditVars, tabVars, projectsVars, dashVars>>
  <2>1. route = "project" /\ UNCHANGED <<auditVars, tabVars, projectsVars, dashVars>>
    BY <1>2 DEF ProjectNext
  <2>2. ASSUME ProjectRender \/ ProjectReader  PROVE route' = route
    BY <2>2 DEF ProjectRender, ProjectReader, Jump, SelectTab, Type, HandleEnvSubmit,
         ReloadEnv, HandleDeploy, Act
  <2>3. ASSUME ProjectAnswer  PROVE route' = route
    <3>1. PICK i \in DOMAIN calls :
            \/ GetProjectEnv(i) \/ PutProjectEnv(i)
            \/ ListProjectDeployments(i) \/ DeployStarts(i) \/ Conflict(i) \/ DeployEnds(i)
            \/ TakeProject(i) \/ TakeEnv(i) \/ TakePut(i) \/ TakeDeployments(i)
            \/ TakeDeploy(i)
      BY <2>3 DEF ProjectAnswer
    <3>2. CASE \/ GetProjectEnv(i) \/ PutProjectEnv(i) \/ ListProjectDeployments(i)
               \/ DeployStarts(i) \/ Conflict(i) \/ DeployEnds(i)
      BY <3>2 DEF GetProjectEnv, PutProjectEnv, ListProjectDeployments, DeployStarts,
           Conflict, DeployEnds, ByTheApi
    <3>3. CASE TakeProject(i) \/ TakeEnv(i)
      BY <3>3 DEF TakeProject, TakeEnv, PageTakes
    <3>4. CASE TakePut(i) \/ TakeDeployments(i)
      BY <3>4 DEF TakePut, TakeDeployments, PageTakes
    <3>5. CASE TakeDeploy(i)
      BY <3>5 DEF TakeDeploy, PageTakes
    <3> QED
      BY <3>1, <3>2, <3>3, <3>4, <3>5
  <2>4. ASSUME Retries \/ TokenExpires  PROVE route' = route
    BY <2>4 DEF Retries, Retry, TokenExpires
  <2> QED
    BY <1>2, <2>1, <2>2, <2>3, <2>4 DEF ProjectNext
<1>3. CASE TabNext /\ UNCHANGED <<auditVars, projectVars, projectsVars, dashVars>>
  <2>1. /\ route \in {"services", "domains"}
        /\ UNCHANGED <<auditVars, projectVars, projectsVars, dashVars>>
    BY <1>3 DEF TabNext
  <2>2. route' = route
    BY <1>3 DEF TabNext, TabRender, HandleServiceAction, HandleCreateDomain,
         HandleDeleteDomain, Start, TabAnswer, ReadRows, Change, Confirm, ApiStep,
         TakeRows, TakeForm, TakeAct, TabTakes, Retries, Retry, TokenExpires
  <2> QED
    BY <1>3, <2>1, <2>2
<1>4. CASE ProjectsNext /\ UNCHANGED <<auditVars, projectVars, tabVars, dashVars>>
  <2>1. route = "projects" /\ UNCHANGED <<auditVars, projectVars, tabVars, dashVars>>
    BY <1>4 DEF ProjectsNext
  <2>2. route' = route
    BY <1>4 DEF ProjectsNext, ProjectsRender, ProjectsReader, ProjectsAnswer, Does,
         HandleOpenCreatePanel, HandleCloseCreatePanel, ChooseSource, SubmitProject,
         SubmitSource, SubmitNothing, CreateProject, GenerateUniqueProjectSlug,
         Insert, EnsureLayout, NobodyWaits, Upload, ReadProjects, TakeCreated,
         CreateLost, TakeUploaded, TakeProjects, FormWaits, FormTakes, Retries,
         Retry, TokenExpires
  <2> QED
    BY <1>4, <2>1, <2>2
<1>5. CASE DashNext /\ UNCHANGED <<auditVars, projectVars, tabVars, projectsVars>>
  <2>1. route = "dashboard" /\ UNCHANGED <<auditVars, projectVars, tabVars, projectsVars>>
    BY <1>5 DEF DashNext
  <2>2. route' = route
    BY <1>5 DEF DashNext, DashRender, Interval, TypeProject, TakeMetrics, PollFails,
         PollAborts, PollEnds, Retries, Retry, TokenExpires
  <2> QED
    BY <1>5, <2>1, <2>2
<1> QED
  BY <1>1, <1>2, <1>3, <1>4, <1>5 DEF Next

\* Requests fail one at a time, on every page.
LEMMA FailuresCounted ==
  ASSUME Next
  PROVE  failures' \in {failures, failures + 1}
<1>1. CASE AuditNext
  BY <1>1 DEF AuditNext, AuditRender, AuditReader, AuditAnswer, AuditFailure,
       RowAdded, UpdateFilterState, GoToPage, OpenAuditDrawer, Back, CloseAuditDrawer,
       HandleAuditExport, Click, Count, TakeList, TakeExport, ListFails, ExportFails,
       Answer, Retries, Retry, TokenExpires, Fails, Read, Ready, clientVars
<1>2. CASE ProjectNext
  <2>1. CASE ProjectRender
    BY <2>1 DEF ProjectRender
  <2>2. CASE ProjectReader
    BY <2>2 DEF ProjectReader, Jump, SelectTab, Type, HandleEnvSubmit, ReloadEnv,
         HandleDeploy, Act
  <2>3. CASE ProjectAnswer
    <3>1. PICK i \in DOMAIN calls :
            \/ ApiServes(i) \/ TakeProject(i) \/ TakeEnv(i) \/ TakePut(i)
            \/ TakeDeployments(i) \/ TakeDeploy(i)
      BY <2>3 DEF ProjectAnswer, ApiServes
    <3>2. CASE ApiServes(i)
      BY <3>2 DEF ApiServes, GetProjectEnv, PutProjectEnv, ListProjectDeployments,
           DeployStarts, Conflict, DeployEnds, ByTheApi
    <3>3. CASE TakeProject(i) \/ TakeEnv(i) \/ TakePut(i)
      BY <3>3 DEF TakeProject, TakeEnv, TakePut, PageTakes, Fails, Read, Ready
    <3>4. CASE TakeDeployments(i) \/ TakeDeploy(i)
      BY <3>4 DEF TakeDeployments, TakeDeploy, PageTakes, Fails, Read, Ready
    <3> QED
      BY <3>1, <3>2, <3>3, <3>4
  <2>4. CASE Retries \/ TokenExpires
    BY <2>4 DEF Retries, Retry, TokenExpires
  <2> QED
    BY <1>2, <2>1, <2>2, <2>3, <2>4 DEF ProjectNext
<1>3. CASE TabNext
  BY <1>3 DEF TabNext, TabRender, HandleServiceAction, HandleCreateDomain,
       HandleDeleteDomain, Start, TabAnswer, ReadRows, Change, Confirm, ApiStep,
       TakeRows, TakeForm, TakeAct, TabTakes, Refused, Retries, Retry, TokenExpires,
       Fails, Read, Ready
<1>4. CASE ProjectsNext
  BY <1>4 DEF ProjectsNext, ProjectsRender, ProjectsReader, ProjectsAnswer, Does,
       HandleOpenCreatePanel, HandleCloseCreatePanel, ChooseSource, SubmitProject,
       SubmitSource, SubmitNothing, CreateProject, GenerateUniqueProjectSlug, Insert,
       EnsureLayout, NobodyWaits, Upload, ReadProjects, TakeCreated, CreateLost,
       TakeUploaded, TakeProjects, FormWaits, FormTakes, Retries, Retry, TokenExpires,
       Fails, Read, Ready
<1>5. CASE DashNext
  BY <1>5 DEF DashNext, DashRender, Interval, TypeProject, TakeMetrics, PollFails,
       PollAborts, PollEnds, Retries, Retry, TokenExpires, Fails, Read, Ready
<1> QED
  BY <1>1, <1>2, <1>3, <1>4, <1>5 DEF Next

\* The first state: nothing is shown, and no request is made.
LEMMA ClientStarts ==
  ASSUME Init
  PROVE  ClientOK /\ calls = <<>> /\ dirty
BY ClientAssumption DEF Init, ClientInit, ClientOK

\* The audit log's page starts with the URL of a link, and no list.
LEMMA AuditStarts == Init => AuditInv
<1> SUFFICES ASSUME Init, route = "audit"  PROVE ClientOK /\ AuditLive
  BY DEF AuditInv
<1>1. ClientOK /\ calls = <<>> /\ dirty
  BY ClientStarts
<1>2. calls \in Seq(AuditCalls) /\ DOMAIN calls = {}
  BY <1>1, EmptySeq
<1> DEFINE list == emptyAuditLogListResponse
<1>3. PICK url \in Links :
        audit = [url |-> url, back |-> <<>>, asked |-> <<>>, list |-> list,
                 loading |-> FALSE, exporting |-> FALSE, error |-> FALSE,
                 gap |-> FALSE, clicks |-> 0]
  BY DEF Init, AuditInit
<1>4. url \in Urls
  <2>1. 0 \in 0 .. MaxRows /\ 2 \in 0 .. MaxRows
    BY AuditAssumption
  <2>2. {"all", "b"} \subseteq Filters /\ {1, 2} = PageSizes
    BY DEF Filters, Actions, defaultAuditFilterValue, PageSizes, defaultAuditPageSize
  <2> QED
    BY <2>1, <2>2
       DEF Links, DefaultUrl, Url, Urls, defaultAuditFilterValue, defaultAuditPage,
           defaultAuditPageSize
<1>5. list \in Lists /\ ListFits(list)
  <2>1. <<>> \in Seq(1 .. MaxRows) /\ Len(<<>>) = 0
    BY EmptySeq
  <2>2. list = [rows |-> <<>>, page |-> 1, size |-> 1, total |-> 0, totalPages |-> 0,
                filter |-> "all", grown |-> FALSE]
    BY DEF emptyAuditLogListResponse, defaultAuditPage, defaultAuditPageSize,
           defaultAuditFilterValue
  <2> HIDE DEF list
  <2>3. 1 \in PageSizes /\ "all" \in Filters
    BY DEF PageSizes, defaultAuditPageSize, Filters, defaultAuditFilterValue
  <2>4. list \in Lists
    BY <2>1, <2>2, <2>3 DEF Lists
  <2>5. /\ (list.page - 1) * list.size = 0 /\ Len(list.rows) = 0
        /\ list.total = 0
    BY <2>1, <2>2
  <2> QED
    BY <2>4, <2>5 DEF ListFits
<1> HIDE DEF list
<1>6. audit \in AuditStates /\ audit.asked = <<>> /\ audit.list = list
  <2>1. <<>> \in Seq(Urls) /\ 0 \in 0 .. AuditClicks
    BY EmptySeq, AuditAssumption
  <2> QED
    BY <1>3, <1>4, <1>5, <2>1 DEF AuditStates
<1>7. auditLog \in Seq(Actions) /\ Len(auditLog) <= MaxRows
  BY AuditAssumption DEF Init, AuditInit, Actions
<1> QED
  BY <1>1, <1>2, <1>5, <1>6, <1>7
     DEF AuditLive, AuditOK, AllFit, AuditShows, LateFirst, AuditRendered

\* The audit log's page keeps its invariant, whichever page is mounted.
THEOREM AuditInductive == Spec => []AuditInv
<1>1. ASSUME AuditInv, [Next]_vars  PROVE AuditInv'
  <2>1. CASE Next
    <3>1. CASE route = "audit"
      BY <1>1, <2>1, <3>1, OnePageSteps, AuditNextInv
    <3>2. CASE route # "audit"
      BY <2>1, <3>2, OnePageSteps DEF AuditInv
    <3> QED
      BY <3>1, <3>2
  <2>2. CASE UNCHANGED vars
    BY <1>1, <2>2
       DEF vars, clientVars, auditVars, AuditInv, ClientOK, AuditLive, AuditOK,
           AuditShows, AuditRendered, Asked
  <2> QED
    BY <1>1, <2>1, <2>2
<1> QED
  BY AuditStarts, <1>1, PTL DEF Spec

\* Once nothing is under way on the page of the audit log, it shows what its URL asks
\* for, unless loading failed or a list came out of order; and unless rows were added
\* between the count and the read, the page shown is one of the total's.
THEOREM AuditAlwaysAsked == Spec => []AuditShowsAsked
BY AuditInductive, AuditAtRestAsked, PTL

\* The first state of the dashboard: nothing was loaded, and nothing polls.
LEMMA DashStarts == Init => DashInv
<1> SUFFICES ASSUME Init, route = "dashboard"
             PROVE  ClientOK /\ DashOK /\ DashLive
  BY DEF DashInv
<1>1. ClientOK /\ calls = <<>> /\ dirty
  BY ClientStarts
<1>2. /\ dash \in Dashes /\ ~dash.loading /\ dash.metrics = NoMetrics
      /\ poller = <<>>
  <2>1. -1 \in -1 .. MaxToken /\ 0 \in 0 .. Keystrokes
    BY ClientAssumption, KeystrokesAssumption
  <2>2. PICK p \in {"", "p"} :
          dash = [project |-> p, metrics |-> NoMetrics, error |-> FALSE,
                  loading |-> FALSE, made |-> [project |-> "", token |-> -1],
                  keys |-> 0]
    BY DEF Init, DashInit
  <2>3. p \in Typed /\ "" \in Typed
    BY <2>2 DEF Typed
  <2> QED
    BY <2>1, <2>2, <2>3 DEF Init, DashInit, Dashes
<1>3. poller \in Seq(Controllers) /\ Len(poller) = 0 /\ DOMAIN poller = {}
  BY <1>2, EmptySeq
<1>4. calls \in Seq(PollCalls) /\ DOMAIN calls = {}
  BY <1>1, EmptySeq
<1> QED
  BY <1>1, <1>2, <1>3, <1>4
     DEF DashOK, DashLive, OneRuns, PollsOwned, DashShows, Polling, Current

\* The dashboard keeps its invariant, whichever page is mounted.
THEOREM DashInductive == Spec => []DashInv
<1>1. ASSUME DashInv, [Next]_vars  PROVE DashInv'
  <2>1. CASE Next
    <3>1. CASE route = "dashboard"
      BY <1>1, <2>1, <3>1, OnePageSteps, DashNextInv
    <3>2. CASE route # "dashboard"
      BY <2>1, <3>2, OnePageSteps DEF DashInv
    <3> QED
      BY <3>1, <3>2
  <2>2. CASE UNCHANGED vars
    BY <1>1, <2>2
       DEF vars, clientVars, dashVars, DashInv, ClientOK, DashOK, DashLive, OneRuns,
           PollsOwned, DashShows, Polling, Current, Deps
  <2> QED
    BY <1>1, <2>1, <2>2
<1> QED
  BY DashStarts, <1>1, PTL DEF Spec

\* A rendered dashboard shows the metrics of the project typed in or none, loads
\* exactly while the newest controller polls, and only that one is not stopped.
THEOREM MetricsAlwaysOwn == Spec => []MetricsAreOwn
BY DashInductive, DashLiveOwn, PTL

\* The first state of a runtime tab: rows that are not listed yet, and nothing busy.
LEMMA TabStarts == Init => TabInv
<1> SUFFICES ASSUME Init, route \in {"services", "domains"}
             PROVE  ClientOK /\ TabOK /\ TabBusy /\ TabShows
  BY DEF TabInv
<1>1. ClientOK /\ calls = <<>> /\ dirty
  BY ClientStarts
<1>2. calls \in Seq(TabCalls) /\ DOMAIN calls = {}
  BY <1>1, EmptySeq
<1>3. /\ tab \in TabStates /\ tab.active = NoRow /\ ~tab.creating /\ ~tab.loading
      /\ tab.seen = -1
  <2>1. 0 \in 0 .. TabActs /\ [r \in Rows |-> "off"] \in [Rows -> States]
    BY TabActsAssumption DEF States
  <2> QED
    BY <2>1 DEF Init, TabInit, TabStates
<1>4. table \in [Rows -> States]
  BY DEF Init, TabInit, States
<1> QED
  BY <1>1, <1>2, <1>3, <1>4 DEF TabOK, TabBusy, TabShows, LateFirst

\* The tabs keep their invariant, whichever page is mounted.
THEOREM TabInductive == Spec => []TabInv
<1>1. ASSUME TabInv, [Next]_vars  PROVE TabInv'
  <2>1. CASE Next
    <3>1. CASE route \in {"services", "domains"}
      BY <1>1, <2>1, <3>1, OnePageSteps, TabNextInv
    <3>2. CASE route \notin {"services", "domains"}
      BY <2>1, <3>2, OnePageSteps DEF TabInv
    <3> QED
      BY <3>1, <3>2
  <2>2. CASE UNCHANGED vars
    BY <1>1, <2>2
       DEF vars, clientVars, tabVars, TabInv, ClientOK, TabOK, TabBusy, TabShows, Real
  <2> QED
    BY <1>1, <2>1, <2>2
<1> QED
  BY TabStarts, <1>1, PTL DEF Spec

\* Once nothing is under way on the services or the domains tab, nothing is busy,
\* and without an error and a list out of order the rows shown are the real ones.
THEOREM RowsAlwaysReal == Spec => []RowsAreReal
BY TabInductive, TabAtRestReal, PTL

\* The first state: there is no project, and the form is closed.
LEMMA FormStarts == Init => FormInv
<1> SUFFICES ASSUME Init, route = "projects"  PROVE ClientOK /\ FormLive
  BY DEF FormInv
<1>1. ClientOK /\ calls = <<>> /\ failures = 0
  BY ClientStarts DEF Init, ClientInit
<1>2. /\ form \in FormStates /\ ~form.creating /\ ~form.loading /\ ~form.open
      /\ form.pending = NoProject /\ form.notice = "none" /\ form.told = {}
      /\ form.number = 0 /\ form.acts = 0
  <2>1. 0 \in 0 .. FormActs
    BY ProjectsAssumption
  <2> QED
    BY <2>1 DEF Init, ProjectsInit, FormStates
<1>3. projects = <<>>
  BY DEF Init, ProjectsInit
<1>4. /\ calls \in Seq(FormCallSet) /\ DOMAIN calls = {}
      /\ projects \in Seq(TableRows) /\ Len(projects) = 0 /\ DOMAIN projects = {}
  BY <1>1, <1>3, EmptySeq
<1>5. FormOK /\ SlugsDiffer /\ FormKnows
  BY <1>2, <1>4, ProjectsAssumption DEF FormOK, SlugsDiffer, FormKnows
<1>6. AllKnow(calls, projects, form.number) /\ FormBusy /\ FormLists
  BY <1>2, <1>4
     DEF AllKnow, FormBusy, OneChain, HasChain, FormLists, LateFirst, Fresh, IsNewest
<1>7. FormCounts
  <2>1. ASSUME NEW n  PROVE Made(projects, calls, n) = 0
    <3>1. RowsOf(projects, n) = {} /\ Inserting(calls, n) = {}
      BY <1>4 DEF RowsOf, Inserting
    <3> QED
      BY <3>1, FS_EmptySet DEF Made
  <2>2. \A n \in 1 .. FormActs : Made(projects, calls, n) <= 1 + failures
    BY <1>1, <2>1
  <2> QED
    BY <1>2, <2>2 DEF FormCounts, CanBeSent
<1> QED
  BY <1>1, <1>5, <1>6, <1>7 DEF FormLive

\* The page of the projects keeps its invariant, whichever page is mounted.
THEOREM FormInductive == Spec => []FormInv
<1>1. ASSUME FormInv, [Next]_vars  PROVE FormInv'
  <2>1. CASE Next
    <3>1. CASE route = "projects"
      BY <1>1, <2>1, <3>1, OnePageSteps, ProjectsNextInv
    <3>2. CASE route # "projects"
      BY <2>1, <3>2, OnePageSteps DEF FormInv
    <3> QED
      BY <3>1, <3>2
  <2>2. CASE UNCHANGED vars
    BY <1>1, <2>2
       DEF vars, clientVars, projectsVars, FormInv, ClientOK, FormLive, FormOK,
           FormKnows, FormBusy, FormCounts, CanBeSent, SlugsDiffer, FormLists, Telling
  <2> QED
    BY <1>1, <2>1, <2>2
<1> QED
  BY FormStarts, <1>1, PTL DEF Spec

\* Without the page there are no projects.
NoForm == failures \in Nat /\ (route # "projects" => projects = <<>>)

\* Nobody makes a project from another page.
LEMMA NoFormInductive == Spec => []NoForm
<1>1. Init => NoForm
  BY DEF Init, ClientInit, ProjectsInit, NoForm
<1>2. ASSUME NoForm, [Next]_vars  PROVE NoForm'
  <2>1. CASE Next
    <3>1. failures' \in Nat
      BY <1>2, <2>1, FailuresCounted DEF NoForm
    <3>2. route # "projects" => projects' = projects
      BY <2>1, OnePageSteps DEF projectsVars
    <3>3. route' = route
      BY <2>1, OnePageSteps
    <3> QED
      BY <1>2, <3>1, <3>2, <3>3 DEF NoForm
  <2>2. CASE UNCHANGED vars
    BY <1>2, <2>2 DEF vars, clientVars, projectsVars, NoForm
  <2> QED
    BY <1>2, <2>1, <2>2
<1> QED
  BY <1>1, <1>2, PTL DEF Spec

\* A form makes one project, and another only for each time it failed, though the API
\* goes on with requests nobody waits for; and slugs differ, though creations overlap.
THEOREM OneProjectAlwaysPerForm == Spec => []OneProjectPerForm
<1>1. ASSUME FormInv, NoForm  PROVE OneProjectPerForm
  <2>1. CASE route = "projects"
    BY <1>1, <2>1, FormFacts, FormCountsProperty DEF FormLive
  <2>2. CASE route # "projects"
    <3>1. projects = <<>> /\ failures \in Nat /\ DOMAIN projects = {}
      BY <1>1, <2>2 DEF NoForm
    <3>2. ASSUME NEW n
          PROVE  { id \in DOMAIN projects : projects[id].form = n } = {}
      BY <3>1
    <3>3. Cardinality({}) = 0 /\ 0 <= 1 + failures
      BY <3>1, FS_EmptySet
    <3>4. \A n \in 1 .. FormActs :
            Cardinality({ id \in DOMAIN projects : projects[id].form = n }) <= 1 + failures
      BY <3>2, <3>3
    <3>5. \A a, b \in DOMAIN projects : a # b => projects[a].slug # projects[b].slug
      BY <3>1
    <3> QED
      BY <3>4, <3>5 DEF OneProjectPerForm
  <2> QED
    BY <2>1, <2>2
<1> QED
  BY <1>1, FormInductive, NoFormInductive, PTL

\* Once nothing is under way on the page of the projects, a form that says so has made
\* its project and given it its source, and the list has every project told of, unless
\* it failed to load or lists came out of order.
THEOREM NoticesAlwaysTrue == Spec => []NoticeIsTrue
BY FormInductive, FormAtRestTrue, PTL

\* The first state of the page of a project: nothing is shown, and nothing was asked.
LEMMA ProjectStarts == Init => ProjectInv
<1> SUFFICES ASSUME Init  PROVE ProjectInv
  OBVIOUS
<1>1. ClientOK /\ calls = <<>> /\ dirty
  BY ClientStarts
<1>2. /\ page \in PageStates /\ page.project = None /\ page.seen = <<>>
      /\ page.id = "A" /\ page.env = EmptyEnv /\ page.deployments = EmptyDeployments
  <2>1. 0 \in 0 .. PageActs
    BY PageActsAssumption
  <2>2. EmptyEnv \in Editors /\ EmptyDeployments \in DeploymentLists
    BY DEF EmptyEnv, Editors, EmptyDeployments, DeploymentLists, PageIds
  <2>3. PICK t \in Tabs :
          page = [id |-> "A", tab |-> t, project |-> None, error |-> FALSE,
                  loading |-> FALSE, fresh |-> FALSE, env |-> EmptyEnv,
                  deployments |-> EmptyDeployments, seen |-> <<>>, since |-> None,
                  merged |-> FALSE, stray |-> FALSE, acts |-> 0]
    BY DEF Init, ProjectInit, Tabs
  <2> QED
    BY <2>1, <2>2, <2>3 DEF PageStates, Projects, PageIds
<1>3. PageTyped /\ EnvIsOwn
  BY <1>2 DEF Init, ProjectInit, PageTyped, PageIds, EnvIsOwn, Projects
<1>4. calls \in Seq(PageCalls) /\ DOMAIN calls = {}
  BY <1>1, EmptySeq
<1>5. ProjectOK /\ Rendered
  BY <1>1, <1>2, <1>3, <1>4 DEF ProjectOK, Rendered
<1>6. TakenSince /\ ProjectAsked
  BY <1>2 DEF TakenSince, ProjectAsked
<1>7. EnvAsked /\ DeploymentsAsked
  BY <1>2 DEF EnvAsked, DeploymentsAsked, EmptyDeployments
<1>8. OwnContent /\ Typing
  BY <1>2, <1>3, <1>4 DEF OwnContent, AllOwn, Typing, NoneOver
<1> QED
  BY <1>1, <1>3, <1>5, <1>6, <1>7, <1>8 DEF ProjectInv, ProjectLive

\* The page of a project keeps its invariant, whichever page is mounted.
THEOREM ProjectInductive == Spec => []ProjectInv
<1>1. ASSUME ProjectInv, [Next]_vars  PROVE ProjectInv'
  <2>1. CASE Next
    <3>1. CASE route = "project"
      BY <1>1, <2>1, <3>1, OnePageSteps, ProjectNextInv
    <3>2. CASE route # "project"
      BY <1>1, <2>1, <3>2, OnePageSteps DEF projectVars, ProjectInv, PageTyped, EnvIsOwn
    <3> QED
      BY <3>1, <3>2
  <2>2. CASE UNCHANGED vars
    BY <1>1, <2>2
       DEF vars, clientVars, projectVars, ProjectInv, ClientOK, ProjectLive, ProjectOK,
           PageTyped, Rendered, TakenSince, ProjectAsked, EnvAsked, DeploymentsAsked,
           OwnContent, EnvIsOwn, Typing, Plain, Settled, Changed, Seen
  <2> QED
    BY <1>1, <2>1, <2>2
<1> QED
  BY ProjectStarts, <1>1, PTL DEF Spec

\* Once nothing is under way on the page of a project, no error is shown and no answers
\* of both projects were taken between two renders, it shows the project of the URL, and
\* its env or its deployments are what is loaded in the open tab; and no env is replaced
\* with the variables of another project, unless an answer came for one not shown.
THEOREM OwnAlwaysShown == Spec => []ShownIsOwn
BY ProjectInductive, ProjectAtRestOwn, PTL

\* The page asks for no env over what is typed, so what is typed is taken away only by
\* the reader and by the answers that EditsKept lists: to a put, for a project, or to a
\* request for an env that was made before the reader typed.
THEOREM EditsAlwaysKept == Spec => EditsKept
<1>1. ASSUME ProjectInv, [Next]_vars  PROVE [Kept]_<<page, calls>>
  <2>1. CASE Next
    <3>1. CASE route = "project"
      BY <1>1, <2>1, <3>1, OnePageSteps, ProjectNextKeeps
    <3>2. CASE route # "project"
      BY <2>1, <3>2, OnePageSteps DEF projectVars, Kept
    <3> QED
      BY <3>1, <3>2
  <2>2. CASE UNCHANGED vars
    BY <2>2 DEF vars, clientVars, projectVars
  <2> QED
    BY <1>1, <2>1, <2>2
<1>2. Spec => [][Kept]_<<page, calls>>
  BY <1>1, ProjectInductive, PTL DEF Spec
<1> QED
  BY <1>2 DEF EditsKept, Kept

-----------------------------------------------------------------------------
(* Types.                                                                  *)

\* The requests were sent with a token that was issued.
Sent(cs) == \A i \in DOMAIN cs : cs[i].token \in 0 .. token
CallsSent == dirty \in BOOLEAN /\ Sent(calls)

\* So they were when one of them was taken, for those that are left.
LEMMA SentWithout ==
  ASSUME NEW S, calls \in Seq(S), HoldsLate(S), NEW i \in DOMAIN calls, Sent(calls)
  PROVE  Sent(Without(i))
<1> DEFINE w == Without(i)
<1>1. AllBut(i, w)
  BY WithoutAllBut
<1> HIDE DEF w
<1>2. \A j \in DOMAIN w : Old(i, j) \in DOMAIN calls /\ w[j].token = calls[Old(i, j)].token
  BY <1>1 DEF AllBut, SameCall
<1> QED
  BY <1>2 DEF Sent, w

\* One that is made is sent with the token of the page.
LEMMA SentAdded ==
  ASSUME token \in Nat, NEW S, NEW cs \in Seq(S), NEW c, c.token = token, Sent(cs)
  PROVE  Sent(Append(cs, c))
<1> DEFINE T == S \cup {c}
           d == Append(cs, c)
<1>1. cs \in Seq(T)
  <2>1. Len(cs) \in Nat /\ cs \in [1 .. Len(cs) -> S]
    BY LenProperties
  <2>2. cs \in [1 .. Len(cs) -> T]
    BY <2>1
  <2> HIDE DEF T
  <2> QED
    BY <2>1, <2>2, SeqDef
<1>2. /\ \A j \in DOMAIN cs : d[j] = cs[j]
      /\ d[Len(cs) + 1] = c
      /\ \A j \in DOMAIN d : j \in DOMAIN cs \/ j = Len(cs) + 1
  BY <1>1, CallAdded
<1> HIDE DEF d
<1> QED
  BY <1>2 DEF Sent, d

\* One that changes in something else was sent as it was.
LEMMA SentSame ==
  ASSUME NEW S, calls \in Seq(S), NEW i \in DOMAIN calls, NEW c,
         c.token = calls[i].token, calls' = [calls EXCEPT ![i] = c], Sent(calls)
  PROVE  Sent(calls')
<1>1. DOMAIN calls' = DOMAIN calls
  OBVIOUS
<1>2. \A j \in DOMAIN calls : calls'[j] = IF j = i THEN c ELSE calls[j]
  OBVIOUS
<1> QED
  BY <1>1, <1>2 DEF Sent

\* What was sent stays so until there is another token.
LEMMA SentStays ==
  ASSUME token' = token, Sent(calls')
  PROVE  Sent(calls)'
BY DEF Sent

\* A request that is sent again has the new token.
LEMMA RetrySent ==
  ASSUME token \in Nat, good \in Nat, token <= good, CallsSent,
         NEW i \in DOMAIN calls, "token" \in DOMAIN calls[i], Retry(i)
  PROVE  CallsSent'
<1>1. token' = good /\ dirty' /\ calls' = [calls EXCEPT ![i].token = good]
  BY DEF Retry
<1>2. DOMAIN calls' = DOMAIN calls
  BY <1>1
<1>3. \A j \in DOMAIN calls :
        calls'[j] = IF j = i THEN [calls[i] EXCEPT !.token = good] ELSE calls[j]
  BY <1>1
<1>4. ASSUME NEW j \in DOMAIN calls  PROVE calls'[j].token \in 0 .. good
  <2>1. CASE j = i
    <3>1. calls'[j] = [calls[i] EXCEPT !.token = good]
      BY <1>3, <2>1
    <3> QED
      BY <3>1
  <2>2. CASE j # i
    <3>1. calls'[j] = calls[j] /\ calls[j].token \in 0 .. token
      BY <1>3, <2>2 DEF CallsSent, Sent
    <3> QED
      BY <3>1
  <2> QED
    BY <2>1, <2>2
<1> QED
  BY <1>1, <1>2, <1>4 DEF CallsSent, Sent

\* What a page knows of its requests: when one is taken, made, or changes, what was
\* sent is sent still.
LEMMA SentSteps ==
  ASSUME CallsSent, token \in Nat, NEW S, calls \in Seq(S), HoldsLate(S)
  PROVE  /\ \A i \in DOMAIN calls : Sent(Without(i)) /\ Without(i) \in Seq(S)
         /\ \A c : c.token = token => Sent(Append(calls, c))
         /\ \A i \in DOMAIN calls : \A c :
              c.token = token => Sent(Append(Without(i), c))
<1>1. Sent(calls)
  BY DEF CallsSent
<1>2. ASSUME NEW i \in DOMAIN calls
      PROVE  Sent(Without(i)) /\ Without(i) \in Seq(S)
  BY <1>1, SentWithout, WithoutAllBut
<1>3. ASSUME NEW c, c.token = token  PROVE Sent(Append(calls, c))
  BY <1>1, <1>3, SentAdded
<1>4. ASSUME NEW i \in DOMAIN calls, NEW c, c.token = token
      PROVE  Sent(Append(Without(i), c))
  <2> DEFINE w == Without(i)
  <2>1. Sent(w) /\ w \in Seq(S)
    BY <1>2
  <2> HIDE DEF w
  <2>2. Sent(Append(w, c))
    BY <1>4, <2>1, SentAdded
  <2> QED
    BY <2>2 DEF w
<1> QED
  BY <1>2, <1>3, <1>4

\* The API changes what a request came to, and nothing else of it.
LEMMA SentAnswered ==
  ASSUME CallsSent, NEW i \in DOMAIN calls, NEW r, Answered(i, r), token' = token,
         dirty' = dirty
  PROVE  CallsSent'
<1>1. /\ DOMAIN calls' = DOMAIN calls
      /\ \A j \in DOMAIN calls :
           calls'[j] = IF j = i THEN [calls[i] EXCEPT !.res = r] ELSE calls[j]
  BY DEF Answered
<1>2. ASSUME NEW j \in DOMAIN calls  PROVE calls'[j].token = calls[j].token
  <2>1. [calls[i] EXCEPT !.res = r].token = calls[i].token
    OBVIOUS
  <2> QED
    BY <1>1, <2>1
<1> QED
  BY <1>1, <1>2 DEF CallsSent, Sent

\* The dashboard's requests.
LEMMA DashSent ==
  ASSUME DashInv, CallsSent, DashNext
  PROVE  CallsSent'
<1>1. /\ token \in Nat /\ good \in Nat /\ token <= good
      /\ calls \in Seq(PollCalls)
  BY ClientAssumption DEF DashInv, DashNext, ClientOK, DashLive, PollsOwned
<1>2. HoldsLate(PollCalls)
  BY DEF HoldsLate, LateOf, SameCall, PollCalls
<1>3. /\ \A i \in DOMAIN calls : Sent(Without(i))
      /\ \A c : c.token = token => Sent(Append(calls, c))
  BY <1>1, <1>2, SentSteps
<1>4. \A k, p : Poll(k, p).token = token
  BY DEF Poll, Call
<1>5. CASE DashRender \/ Interval \/ \E p \in Typed : TypeProject(p)
  <2>1. token' = token /\ dirty' \in BOOLEAN
    BY <1>5 DEF DashRender, Interval, TypeProject
  <2>2. calls' = calls \/ \E k, p : calls' = Append(calls, Poll(k, p))
    BY <1>5 DEF DashRender, Interval, TypeProject
  <2> QED
    BY <1>3, <1>4, <2>1, <2>2, SentStays DEF CallsSent
<1>6. CASE \E i \in DOMAIN calls : TakeMetrics(i) \/ PollFails(i) \/ PollAborts(i)
  <2>1. PICK i \in DOMAIN calls : token' = token /\ dirty' = TRUE /\ calls' = Without(i)
    BY <1>6 DEF TakeMetrics, PollFails, PollAborts, PollEnds
  <2> QED
    BY <1>3, <2>1, SentStays DEF CallsSent
<1>7. CASE TokenExpires
  BY <1>7, SentStays DEF TokenExpires, CallsSent
<1>8. CASE Retries
  <2>1. PICK i \in DOMAIN calls : Retry(i)
    BY <1>8 DEF Retries
  <2>2. "token" \in DOMAIN calls[i]
    <3>1. calls[i] \in PollCalls
      BY <1>1, LenProperties, ElementOfSeq
    <3> QED
      BY <3>1 DEF PollCalls
  <2> QED
    BY <1>1, <2>1, <2>2, RetrySent
<1> QED
  BY <1>5, <1>6, <1>7, <1>8 DEF DashNext

\* The requests of the runtime tabs.
LEMMA TabSent ==
  ASSUME TabInv, CallsSent, TabNext
  PROVE  CallsSent'
<1>1. /\ token \in Nat /\ good \in Nat /\ token <= good
      /\ calls \in Seq(TabCalls)
  BY ClientAssumption DEF TabInv, TabNext, ClientOK, TabOK
<1>2. /\ \A i \in DOMAIN calls : Sent(Without(i))
      /\ \A c : c.token = token => Sent(Append(calls, c))
      /\ \A i \in DOMAIN calls : \A c :
           c.token = token => Sent(Append(Without(i), c))
  BY <1>1, TabHoldsLate, SentSteps
<1>3. \A a : ListCall(a).token = token /\ ListProjectServices(a).token = token
  BY DEF ListCall, ListProjectServices, ListDomains, Call
<1>4. \A r, a : /\ PerformServiceAction(r, a).token = token
                /\ CreateDomainCall(r).token = token
                /\ DeleteDomainCall(r).token = token
  BY DEF PerformServiceAction, CreateDomainCall, DeleteDomainCall, Call
<1>5. CASE TabRender
  <2> DEFINE l == ListCall("none")
             s == ListProjectServices("none")
             d == Append(calls, l)
  <2>1. token' = token /\ dirty' \in BOOLEAN
    BY <1>5 DEF TabRender
  <2>2. /\ l.token = token /\ s.token = token
        /\ Sent(d)
    BY <1>2, <1>3
  <2>3. l \in TabCalls
    BY ListCallProperties DEF TabNext, TabInv, Afters
  <2> HIDE DEF l, s
  <2>4. d \in Seq(TabCalls) /\ d = calls \o <<l>>
    BY <1>1, <2>3, AppendProperties, AppendIsConcat
  <2> HIDE DEF d
  <2>5. Sent(Append(d, s))
    BY <1>1, <2>2, <2>4, SentAdded
  <2>6. Append(d, s) = d \o <<s>> /\ d \o <<>> = d
    BY <2>4, AppendIsConcat, ConcatEmptySeq
  <2>7. calls' = calls \/ calls' = d \o <<s>> \/ calls' = d \o <<>>
    BY <1>5, <2>4 DEF TabRender, l, s
  <2> QED
    BY <2>1, <2>2, <2>5, <2>6, <2>7, SentStays DEF CallsSent
<1>6. CASE HandleServiceAction \/ HandleCreateDomain \/ HandleDeleteDomain
  <2>1. PICK c : Start(c) /\ c.token = token
    BY <1>4, <1>6 DEF HandleServiceAction, HandleCreateDomain, HandleDeleteDomain
  <2>2. token' = token /\ dirty' = TRUE /\ calls' = Append(calls, c)
    BY <2>1 DEF Start
  <2> QED
    BY <1>2, <2>1, <2>2, SentStays DEF CallsSent
<1>7. CASE TabAnswer
  <2>1. PICK i \in DOMAIN calls :
          \/ ReadRows(i) \/ Change(i) \/ Confirm(i)
          \/ TakeRows(i) \/ TakeForm(i) \/ TakeAct(i)
    BY <1>7 DEF TabAnswer
  <2>2. CASE ReadRows(i) \/ Change(i) \/ Confirm(i)
    <3>1. /\ token' = token /\ dirty' = dirty
          /\ \E r : Answered(i, r)
      BY <2>2 DEF ReadRows, Change, Confirm, ApiStep
    <3> QED
      BY <3>1, SentAnswered
  <2>3. CASE TakeRows(i) \/ TakeForm(i) \/ TakeAct(i)
    <3>1. token' = token /\ dirty' = TRUE
      BY <2>3 DEF TakeRows, TakeForm, TakeAct, TabTakes
    <3>2. calls' = Without(i) \/ \E a : calls' = Append(Without(i), ListCall(a))
      BY <2>3 DEF TakeRows, TakeForm, TakeAct
    <3> QED
      BY <1>2, <1>3, <3>1, <3>2, SentStays DEF CallsSent
  <2> QED
    BY <2>1, <2>2, <2>3
<1>8. CASE TokenExpires
  BY <1>8, SentStays DEF TokenExpires, CallsSent
<1>9. CASE Retries
  <2>1. PICK i \in DOMAIN calls : Retry(i)
    BY <1>9 DEF Retries
  <2>2. "token" \in DOMAIN calls[i]
    <3>1. calls[i] \in TabCalls
      BY <1>1, LenProperties, ElementOfSeq
    <3> QED
      BY <3>1 DEF TabCalls, RowsCalls, FormCalls, ActCalls
  <2> QED
    BY <1>1, <2>1, <2>2, RetrySent
<1> QED
  BY <1>5, <1>6, <1>7, <1>8, <1>9 DEF TabNext

\* The requests of the page of the projects.
LEMMA FormSent ==
  ASSUME FormInv, CallsSent, ProjectsNext
  PROVE  CallsSent'
<1>1. /\ token \in Nat /\ good \in Nat /\ token <= good
      /\ calls \in Seq(FormCallSet)
  BY ClientAssumption DEF FormInv, ProjectsNext, ClientOK, FormLive, FormOK
<1>2. /\ \A i \in DOMAIN calls : Sent(Without(i))
      /\ \A c : c.token = token => Sent(Append(calls, c))
      /\ \A i \in DOMAIN calls : \A c :
           c.token = token => Sent(Append(Without(i), c))
  BY <1>1, FormHoldsLate, SentSteps
<1>3. \A a, n : ListProjects(a, n).token = token
  BY DEF ListProjects, Call
<1>4. CreateCall.token = token /\ UploadCall.token = token
  BY DEF CreateCall, UploadCall, Call
<1>5. CASE ProjectsRender \/ ProjectsReader
  <2>1. token' = token /\ dirty' \in BOOLEAN
    BY <1>5 DEF ProjectsRender, ProjectsReader, Does, HandleOpenCreatePanel,
         HandleCloseCreatePanel, ChooseSource, SubmitProject, SubmitSource, SubmitNothing
  <2>2. \/ calls' = calls
        \/ \E c : c.token = token /\ calls' = Append(calls, c)
    BY <1>3, <1>4, <1>5 DEF ProjectsRender, ProjectsReader, HandleOpenCreatePanel,
         HandleCloseCreatePanel, ChooseSource, SubmitProject, SubmitSource, SubmitNothing
  <2> QED
    BY <1>2, <2>1, <2>2, SentStays DEF CallsSent
<1>6. CASE ProjectsAnswer
  <2>1. PICK i \in DOMAIN calls :
          \/ CreateProject(i) \/ GenerateUniqueProjectSlug(i) \/ Insert(i)
          \/ EnsureLayout(i) \/ NobodyWaits(i) \/ Upload(i) \/ ReadProjects(i)
          \/ TakeCreated(i) \/ CreateLost(i) \/ TakeUploaded(i) \/ TakeProjects(i)
    BY <1>6 DEF ProjectsAnswer
  <2>2. CASE \/ CreateProject(i) \/ GenerateUniqueProjectSlug(i) \/ Insert(i)
             \/ EnsureLayout(i) \/ Upload(i) \/ ReadProjects(i)
    <3>1. token' = token /\ dirty' = dirty /\ \E r : Answered(i, r)
      BY <2>2 DEF CreateProject, GenerateUniqueProjectSlug, Insert, EnsureLayout, Upload,
           ReadProjects, FormWaits, Reaches
    <3> QED
      BY <3>1, SentAnswered
  <2>3. CASE NobodyWaits(i) \/ TakeCreated(i) \/ TakeUploaded(i) \/ TakeProjects(i)
    <3>1. token' = token /\ dirty' \in {dirty, TRUE}
      BY <2>3 DEF NobodyWaits, TakeCreated, TakeUploaded, TakeProjects, FormWaits, FormTakes
    <3>2. \/ calls' = Without(i)
          \/ \E a, n : calls' = Append(Without(i), ListProjects(a, n))
      BY <2>3 DEF NobodyWaits, TakeCreated, TakeUploaded, TakeProjects
    <3> QED
      BY <1>2, <1>3, <3>1, <3>2, SentStays DEF CallsSent
  <2>4. CASE CreateLost(i)
    <3>1. token' = token /\ dirty' = TRUE
      BY <2>4 DEF CreateLost, FormTakes
    <3>2. calls' = Without(i) \/ calls' = [calls EXCEPT ![i].op = "orphan"]
      BY <2>4 DEF CreateLost
    <3> DEFINE c == [calls[i] EXCEPT !.op = "orphan"]
    <3>3. c.token = calls[i].token
      OBVIOUS
    <3>4. calls' = [calls EXCEPT ![i].op = "orphan"] => calls' = [calls EXCEPT ![i] = c]
      OBVIOUS
    <3> HIDE DEF c
    <3> QED
      BY <1>1, <1>2, <3>1, <3>2, <3>3, <3>4, SentSame, SentStays DEF CallsSent
  <2> QED
    BY <2>1, <2>2, <2>3, <2>4
<1>7. CASE TokenExpires
  BY <1>7, SentStays DEF TokenExpires, CallsSent
<1>8. CASE Retries
  <2>1. PICK i \in DOMAIN calls : Retry(i)
    BY <1>8 DEF Retries
  <2>2. "token" \in DOMAIN calls[i]
    <3>1. calls[i] \in FormCallSet
      BY <1>1, LenProperties, ElementOfSeq
    <3> QED
      BY <3>1 DEF FormCallSet, ListCalls, CreateCalls, UploadCalls
  <2> QED
    BY <1>1, <2>1, <2>2, RetrySent
<1> QED
  BY <1>5, <1>6, <1>7, <1>8 DEF ProjectsNext

\* The requests of the audit log's page.
LEMMA AuditSent ==
  ASSUME AuditInv, CallsSent, AuditNext
  PROVE  CallsSent'
<1>1. /\ token \in Nat /\ good \in Nat /\ token <= good
      /\ calls \in Seq(AuditCalls)
  BY ClientAssumption DEF AuditInv, AuditNext, ClientOK, AuditLive, AuditOK
<1>2. /\ \A i \in DOMAIN calls : Sent(Without(i))
      /\ \A c : c.token = token => Sent(Append(calls, c))
  BY <1>1, AuditHoldsLate, SentSteps
<1>3. \A op, arg : Call(op, arg).token = token
  BY DEF Call
<1>4. CASE AuditRender \/ AuditReader \/ RowAdded
  <2>1. token' = token /\ dirty' \in BOOLEAN
    BY <1>4 DEF AuditRender, AuditReader, RowAdded, UpdateFilterState, GoToPage,
         OpenAuditDrawer, Back, CloseAuditDrawer, HandleAuditExport, Click, clientVars,
         CallsSent
  <2>2. calls' = calls \/ \E op, arg : calls' = Append(calls, Call(op, arg))
    BY <1>4 DEF AuditRender, AuditReader, RowAdded, UpdateFilterState, GoToPage,
         OpenAuditDrawer, Back, CloseAuditDrawer, HandleAuditExport, clientVars
  <2> QED
    BY <1>2, <1>3, <2>1, <2>2, SentStays DEF CallsSent
<1>5. CASE AuditAnswer \/ AuditFailure
  <2>1. PICK i \in DOMAIN calls :
          \/ Count(i) \/ TakeList(i) \/ TakeExport(i) \/ ListFails(i) \/ ExportFails(i)
    BY <1>5 DEF AuditAnswer, AuditFailure
  <2>2. CASE Count(i)
    <3>1. token' = token /\ dirty' = dirty /\ \E r : Answered(i, r)
      BY <2>2 DEF Count
    <3> QED
      BY <3>1, SentAnswered
  <2>3. CASE TakeList(i) \/ TakeExport(i) \/ ListFails(i) \/ ExportFails(i)
    <3>1. token' = token /\ dirty' = TRUE /\ calls' = Without(i)
      BY <2>3 DEF TakeList, TakeExport, ListFails, ExportFails, Answer
    <3> QED
      BY <1>2, <3>1, SentStays DEF CallsSent
  <2> QED
    BY <2>1, <2>2, <2>3
<1>6. CASE TokenExpires
  BY <1>6, SentStays DEF TokenExpires, CallsSent
<1>7. CASE Retries
  <2>1. PICK i \in DOMAIN calls : Retry(i)
    BY <1>7 DEF Retries
  <2>2. "token" \in DOMAIN calls[i]
    <3>1. calls[i] \in AuditCalls
      BY <1>1, LenProperties, ElementOfSeq
    <3> QED
      BY <3>1 DEF AuditCalls, ListReqs, ExportReqs
  <2> QED
    BY <1>1, <2>1, <2>2, RetrySent
<1> QED
  BY <1>4, <1>5, <1>6, <1>7 DEF AuditNext

\* The requests of the page of a project.
LEMMA PageSent ==
  ASSUME ProjectInv, CallsSent, ProjectNext
  PROVE  CallsSent'
<1>1. /\ token \in Nat /\ good \in Nat /\ token <= good
      /\ calls \in Seq(PageCalls) /\ ClientOK /\ page \in PageStates
  BY ClientAssumption
     DEF ProjectInv, ProjectNext, ClientOK, ProjectLive, ProjectOK, PageTyped
<1>2. /\ \A i \in DOMAIN calls : Sent(Without(i))
      /\ \A c : c.token = token => Sent(Append(calls, c))
      /\ \A i \in DOMAIN calls : \A c :
           c.token = token => Sent(Append(Without(i), c))
  BY <1>1, PageHoldsLate, SentSteps
<1>3. /\ ProjectCall.token = token /\ PutCall.token = token /\ DeployCall.token = token
      /\ \A over : EnvCall(over).token = token
      /\ \A id, after : DeploymentsCall(id, after).token = token
  BY DEF ProjectCall, EnvCall, PutCall, DeployCall, DeploymentsCall, Call
<1>4. CASE ProjectRender
  <2> DEFINE p == ProjectCall
             e == EnvCall(page.env.typed)
             l == DeploymentsCall(page.project, FALSE)
             c1 == calls \o (IF LoadsProject THEN <<p>> ELSE <<>>)
             c2 == c1 \o (IF LoadsEnv THEN <<e>> ELSE <<>>)
             c3 == c2 \o (IF LoadsDeployments THEN <<l>> ELSE <<>>)
  <2>1. /\ p \in PageCalls
        /\ LoadsEnv => e \in PageCalls
        /\ LoadsDeployments => l \in PageCalls
    <3>1. /\ page.id \in Projects /\ (page.project # None => page.project \in Projects)
          /\ page.env.typed \in BOOLEAN
      BY <1>1 DEF PageStates, PageIds, Editors
    <3>2. (LoadsEnv => page.project # None) /\ (LoadsDeployments => page.project # None)
      BY DEF LoadsEnv, LoadsDeployments
    <3> QED
      BY <1>1, <3>1, <3>2, PageCallsMade DEF PageCalls
  <2>2. calls' = c3 /\ token' = token /\ dirty' \in BOOLEAN
    BY <1>4 DEF ProjectRender
  <2>3. ASSUME NEW cs \in Seq(PageCalls), NEW c, c.token = token, NEW b \in BOOLEAN,
               b => c \in PageCalls, Sent(cs)
        PROVE  LET ds == cs \o (IF b THEN <<c>> ELSE <<>>)
               IN  ds \in Seq(PageCalls) /\ Sent(ds)
    <3>1. CASE b
      <4>1. Append(cs, c) = cs \o <<c>> /\ Append(cs, c) \in Seq(PageCalls)
        BY <2>3, <3>1, AppendIsConcat, AppendProperties
      <4>2. Sent(Append(cs, c))
        BY <1>1, <2>3, SentAdded
      <4> QED
        BY <3>1, <4>1, <4>2
    <3>2. CASE ~b
      <4>1. cs \o <<>> = cs
        BY <2>3, ConcatEmptySeq
      <4> QED
        BY <2>3, <3>2, <4>1
    <3> QED
      BY <3>1, <3>2
  <2>4. /\ LoadsProject \in BOOLEAN /\ LoadsEnv \in BOOLEAN /\ LoadsDeployments \in BOOLEAN
        /\ p.token = token /\ e.token = token /\ l.token = token
    BY <1>3 DEF LoadsProject, LoadsEnv, LoadsDeployments, Changed
  <2> HIDE DEF p, e, l
  <2>5. c1 \in Seq(PageCalls) /\ Sent(c1)
    BY <1>1, <2>1, <2>3, <2>4 DEF CallsSent
  <2> HIDE DEF c1
  <2>6. c2 \in Seq(PageCalls) /\ Sent(c2)
    BY <2>1, <2>3, <2>4, <2>5
  <2> HIDE DEF c2
  <2>7. Sent(c3)
    BY <2>1, <2>3, <2>4, <2>6
  <2> HIDE DEF c3
  <2> QED
    BY <2>2, <2>7, SentStays DEF CallsSent
<1>5. CASE ProjectReader
  <2>1. token' = token /\ dirty' = TRUE
    BY <1>5 DEF ProjectReader, Jump, SelectTab, Type, HandleEnvSubmit, ReloadEnv,
         HandleDeploy, Act
  <2>2. \/ calls' = calls
        \/ \E c : c.token = token /\ calls' = Append(calls, c)
    BY <1>3, <1>5 DEF ProjectReader, Jump, SelectTab, Type, HandleEnvSubmit, ReloadEnv,
         HandleDeploy
  <2> QED
    BY <1>2, <2>1, <2>2, SentStays DEF CallsSent
<1>6. CASE ProjectAnswer
  <2>1. PICK i \in DOMAIN calls :
          \/ ApiServes(i) \/ TakeProject(i) \/ TakeEnv(i) \/ TakePut(i)
          \/ TakeDeployments(i) \/ TakeDeploy(i)
    BY <1>6 DEF ProjectAnswer, ApiServes
  <2>2. CASE ApiServes(i)
    <3>1. token' = token /\ dirty' = dirty /\ \E r : Answered(i, r)
      BY <2>2 DEF ApiServes, GetProjectEnv, PutProjectEnv, ListProjectDeployments,
           DeployStarts, Conflict, DeployEnds, ByTheApi
    <3> QED
      BY <3>1, SentAnswered
  <2>3. CASE \/ TakeProject(i) \/ TakeEnv(i) \/ TakePut(i) \/ TakeDeployments(i)
             \/ TakeDeploy(i)
    <3>1. token' = token /\ dirty' = TRUE
      BY <2>3 DEF TakeProject, TakeEnv, TakePut, TakeDeployments, TakeDeploy, PageTakes
    <3>2. \/ calls' = Without(i)
          \/ \E id, after : calls' = Append(Without(i), DeploymentsCall(id, after))
      BY <2>3 DEF TakeProject, TakeEnv, TakePut, TakeDeployments, TakeDeploy
    <3> QED
      BY <1>2, <1>3, <3>1, <3>2, SentStays DEF CallsSent
  <2> QED
    BY <2>1, <2>2, <2>3
<1>7. CASE TokenExpires
  BY <1>7, SentStays DEF TokenExpires, CallsSent
<1>8. CASE Retries
  <2>1. PICK i \in DOMAIN calls : Retry(i)
    BY <1>8 DEF Retries
  <2>2. "token" \in DOMAIN calls[i]
    <3>1. calls[i] \in PageCalls
      BY <1>1, LenProperties, ElementOfSeq
    <3> QED
      BY <3>1 DEF PageCalls, GetCalls, EnvCalls, PutCalls, DeploymentsCalls, DeployCalls
  <2> QED
    BY <1>1, <2>1, <2>2, RetrySent
<1> QED
  BY <1>4, <1>5, <1>6, <1>7, <1>8 DEF ProjectNext

\* A request that looks for a slug has found the lower ones taken.
Probing(c, rows) ==
  c.op \in {"create", "orphan"} /\ c.res.st = "read" /\ c.res.at \in {"slug", "insert"} =>
    /\ c.res.n \in Nat \ {0}
    /\ \A k \in 1 .. c.res.n - 1 : \E id \in DOMAIN rows : rows[id].slug = k
AllProbe(cs, rows) == \A i \in DOMAIN cs : Probing(cs[i], rows)

\* So the slugs are the first numbers, and fit the table.
SlugInv ==
  route = "projects" =>
    /\ AllProbe(calls, projects)
    /\ \A id \in DOMAIN projects : projects[id].slug \in Ids

\* As many rows are needed as slugs are taken.
LEMMA SlugsFit ==
  ASSUME projects \in Seq(TableRows), NEW n \in Nat,
         \A k \in 1 .. n : \E id \in DOMAIN projects : projects[id].slug = k
  PROVE  n <= Len(projects)
<1> DEFINE f == [k \in 1 .. n |-> CHOOSE id \in DOMAIN projects : projects[id].slug = k]
<1>1. DOMAIN projects = 1 .. Len(projects) /\ Len(projects) \in Nat
  BY LenProperties
<1>2. \A k \in 1 .. n : f[k] \in DOMAIN projects /\ projects[f[k]].slug = k
  OBVIOUS
<1>3. f \in Injection(1 .. n, DOMAIN projects)
  <2>1. f \in [1 .. n -> DOMAIN projects]
    BY <1>2
  <2> HIDE DEF f
  <2> QED
    BY <1>2, <2>1 DEF Injection, IsInjective
<1> HIDE DEF f
<1>4. Cardinality(1 .. n) <= Cardinality(DOMAIN projects)
  <2>1. IsFiniteSet(DOMAIN projects)
    BY <1>1, FS_Interval
  <2> QED
    BY <1>3, <2>1, FS_Injection
<1>5. Cardinality(1 .. n) = n /\ Cardinality(1 .. Len(projects)) = Len(projects)
  <2>1. 1 \in Int /\ n \in Int /\ Len(projects) \in Int
    BY <1>1
  <2>2. Cardinality(1 .. n) = IF 1 > n THEN 0 ELSE n - 1 + 1
    BY <2>1, FS_Interval
  <2>3. Cardinality(1 .. Len(projects)) =
          IF 1 > Len(projects) THEN 0 ELSE Len(projects) - 1 + 1
    BY <2>1, FS_Interval
  <2> QED
    BY <1>1, <2>2, <2>3
<1> QED
  BY <1>1, <1>4, <1>5

\* The table keeps its slugs, and what a request found taken stays taken.
SlugsKept(rows, more) ==
  \A id \in DOMAIN rows : id \in DOMAIN more /\ more[id].slug = rows[id].slug

\* What requests found taken is taken in a table that keeps its slugs.
LEMMA ProbingKept ==
  ASSUME NEW cs, NEW rows, NEW more, AllProbe(cs, rows), SlugsKept(rows, more)
  PROVE  AllProbe(cs, more)
BY DEF AllProbe, Probing, SlugsKept

\* When a request is taken, the others know what they knew.
LEMMA ProbesWithout ==
  ASSUME calls \in Seq(FormCallSet), NEW i \in DOMAIN calls, NEW rows,
         AllProbe(calls, rows)
  PROVE  AllProbe(Without(i), rows) /\ Without(i) \in Seq(FormCallSet)
<1> DEFINE w == Without(i)
<1>1. AllBut(i, w) /\ w \in Seq(FormCallSet)
  BY FormHoldsLate, WithoutAllBut
<1> HIDE DEF w
<1>2. \A j \in DOMAIN w : /\ Old(i, j) \in DOMAIN calls
                          /\ w[j].op = calls[Old(i, j)].op
                          /\ w[j].res = calls[Old(i, j)].res
  BY <1>1 DEF AllBut, SameCall
<1>3. AllProbe(w, rows)
  BY <1>2 DEF AllProbe, Probing
<1> QED
  BY <1>1, <1>3 DEF w

\* A request that is made knows nothing yet.
LEMMA ProbesAdded ==
  ASSUME NEW cs \in Seq(FormCallSet), NEW c \in FormCallSet, NEW rows,
         AllProbe(cs, rows), Probing(c, rows)
  PROVE  AllProbe(Append(cs, c), rows)
<1> DEFINE d == Append(cs, c)
<1>1. /\ \A j \in DOMAIN cs : d[j] = cs[j]
      /\ d[Len(cs) + 1] = c
      /\ \A j \in DOMAIN d : j \in DOMAIN cs \/ j = Len(cs) + 1
  BY CallAdded
<1> HIDE DEF d
<1>2. AllProbe(d, rows)
  BY <1>1 DEF AllProbe
<1> QED
  BY <1>2 DEF d

\* One that the API goes on with has found the slugs below its own taken.
LEMMA ProbesAnswered ==
  ASSUME calls \in Seq(FormCallSet), NEW i \in DOMAIN calls, NEW r, NEW rows,
         Answered(i, r), AllProbe(calls, rows),
         calls[i].op \in {"create", "orphan"} /\ r.st = "read"
           /\ r.at \in {"slug", "insert"} =>
           /\ r.n \in Nat \ {0}
           /\ \A k \in 1 .. r.n - 1 : \E id \in DOMAIN rows : rows[id].slug = k
  PROVE  AllProbe(calls', rows)
<1>1. calls[i] \in FormCallSet
  BY LenProperties, ElementOfSeq
<1> DEFINE c == [calls[i] EXCEPT !.res = r]
<1>2. c.op = calls[i].op /\ c.res = r
  BY <1>1 DEF FormCallSet, ListCalls, CreateCalls, UploadCalls
<1>3. calls' = [calls EXCEPT ![i] = c]
  BY DEF Answered
<1> HIDE DEF c
<1>4. Probing(c, rows)
  BY <1>2 DEF Probing
<1>5. /\ DOMAIN calls' = DOMAIN calls
      /\ \A j \in DOMAIN calls : calls'[j] = IF j = i THEN c ELSE calls[j]
  BY <1>3
<1> QED
  BY <1>4, <1>5 DEF AllProbe

\* A project gets the first slug that is free.
LEMMA SlugNextInv ==
  ASSUME FormInv, SlugInv, ProjectsNext
  PROVE  SlugInv'
<1>1. /\ route = "projects" /\ ClientOK /\ FormOK /\ AllProbe(calls, projects)
      /\ \A id \in DOMAIN projects : projects[id].slug \in Ids
      /\ calls \in Seq(FormCallSet) /\ projects \in Seq(TableRows)
      /\ Len(projects) <= MaxProjects
  BY DEF FormInv, SlugInv, ProjectsNext, FormLive, FormOK
<1>2. ASSUME UNCHANGED projects, AllProbe(calls', projects)
      PROVE  SlugInv'
  BY <1>1, <1>2 DEF SlugInv
<1>3. \A c : c.op \in {"projects", "upload"} \/ c.res = Waiting => Probing(c, projects)
  BY DEF Probing, Waiting
<1>4. CASE ProjectsRender \/ ProjectsReader
  <2>1. projects' = projects
    BY <1>4 DEF ProjectsRender, ProjectsReader, Does, HandleOpenCreatePanel,
         HandleCloseCreatePanel, ChooseSource, SubmitProject, SubmitSource, SubmitNothing
  <2>2. \/ calls' = calls
        \/ \E op, arg : calls' = Append(calls, Call(op, arg))
    BY <1>4 DEF ProjectsRender, ProjectsReader, HandleOpenCreatePanel,
         HandleCloseCreatePanel, ChooseSource, SubmitProject, SubmitSource, SubmitNothing,
         ListProjects, CreateCall, UploadCall
  <2>3. ASSUME NEW op, NEW arg, calls' = Append(calls, Call(op, arg))
        PROVE  AllProbe(calls', projects)
    <3> DEFINE c == Call(op, arg)
    <3>1. Probing(c, projects)
      BY <1>3 DEF Call
    <3> HIDE DEF c
    <3>2. calls' = Append(calls, c)
      BY <2>3 DEF c
    <3>3. calls \in Seq(FormCallSet \cup {c})
      <4>1. Len(calls) \in Nat /\ calls \in [1 .. Len(calls) -> FormCallSet]
        BY <1>1, LenProperties
      <4>2. calls \in [1 .. Len(calls) -> FormCallSet \cup {c}]
        BY <4>1
      <4> QED
        BY <4>1, <4>2, SeqDef
    <3>4. /\ \A j \in DOMAIN calls : calls'[j] = calls[j]
          /\ calls'[Len(calls) + 1] = c
          /\ \A j \in DOMAIN calls' : j \in DOMAIN calls \/ j = Len(calls) + 1
      BY <3>2, <3>3, CallAdded
    <3> QED
      BY <1>1, <3>1, <3>4 DEF AllProbe
  <2> QED
    BY <1>1, <1>2, <2>1, <2>2, <2>3
<1>5. CASE ProjectsAnswer
  <2>1. PICK i \in DOMAIN calls :
          \/ CreateProject(i) \/ GenerateUniqueProjectSlug(i) \/ Insert(i)
          \/ EnsureLayout(i) \/ NobodyWaits(i) \/ Upload(i) \/ ReadProjects(i)
          \/ TakeCreated(i) \/ CreateLost(i) \/ TakeUploaded(i) \/ TakeProjects(i)
    BY <1>5 DEF ProjectsAnswer
  <2>2. calls[i] \in FormCallSet /\ Probing(calls[i], projects)
    BY <1>1, LenProperties, ElementOfSeq DEF AllProbe
  <2>3. /\ AllProbe(Without(i), projects) /\ Without(i) \in Seq(FormCallSet)
    BY <1>1, ProbesWithout
  <2>4. CASE CreateProject(i)
    <3>1. Answered(i, [st |-> "read", at |-> "slug", n |-> 1]) /\ projects' = projects
      BY <2>4 DEF CreateProject, Reaches
    <3>2. AllProbe(calls', projects)
      BY <1>1, <3>1, ProbesAnswered
    <3> QED
      BY <1>2, <3>1, <3>2
  <2>5. CASE GenerateUniqueProjectSlug(i)
    <3> DEFINE n == calls[i].res.n
    <3>1. /\ n \in Nat \ {0} /\ projects' = projects
          /\ \A k \in 1 .. n - 1 : \E id \in DOMAIN projects : projects[id].slug = k
      BY <2>2, <2>5 DEF GenerateUniqueProjectSlug, At, Probing
    <3>2. IF n \in Slugs THEN Answered(i, [st |-> "read", at |-> "slug", n |-> n + 1])
          ELSE Answered(i, [st |-> "read", at |-> "insert", n |-> n])
      BY <2>5 DEF GenerateUniqueProjectSlug, Reaches
    <3> HIDE DEF n
    <3>3. CASE n \in Slugs
      <4>1. \A k \in 1 .. n : \E id \in DOMAIN projects : projects[id].slug = k
        <5>1. \E id \in DOMAIN projects : projects[id].slug = n
          BY <3>3 DEF Slugs
        <5>2. \A k \in 1 .. n : k = n \/ k \in 1 .. n - 1
          BY <3>1
        <5> QED
          BY <3>1, <5>1, <5>2
      <4>2. n + 1 \in Nat \ {0} /\ n + 1 - 1 = n
        BY <3>1
      <4> DEFINE r == [st |-> "read", at |-> "slug", n |-> n + 1]
      <4>3. Answered(i, r) /\ r.n = n + 1
        BY <3>2, <3>3
      <4> HIDE DEF r
      <4>4. /\ r.n \in Nat \ {0}
            /\ \A k \in 1 .. r.n - 1 : \E id \in DOMAIN projects : projects[id].slug = k
        <5>1. r.n \in Nat \ {0} /\ r.n - 1 = n
          BY <3>1, <4>2, <4>3
        <5> QED
          BY <4>1, <5>1
      <4>5. AllProbe(calls', projects)
        BY <1>1, <4>3, <4>4, ProbesAnswered
      <4> QED
        BY <1>2, <3>1, <4>5
    <3>4. CASE n \notin Slugs
      <4>1. AllProbe(calls', projects)
        BY <1>1, <3>1, <3>2, <3>4, ProbesAnswered
      <4> QED
        BY <1>2, <3>1, <4>1
    <3> QED
      BY <3>3, <3>4
  <2>6. CASE Insert(i)
    <3> DEFINE n == calls[i].res.n
    <3>1. /\ n \in Nat \ {0} /\ Len(projects) < MaxProjects
          /\ \A k \in 1 .. n - 1 : \E id \in DOMAIN projects : projects[id].slug = k
          /\ calls[i].op \in {"create", "orphan"} /\ route' = route
      BY <2>2, <2>6 DEF Insert, At, Probing, FormWaits
    <3>2. CASE n \in Slugs
      <4>1. Answered(i, Ok(NoProject)) /\ projects' = projects
        BY <2>6, <3>2 DEF Insert
      <4>2. Ok(NoProject).st = "ok"
        BY DEF Ok
      <4>3. AllProbe(calls', projects)
        BY <1>1, <4>1, <4>2, ProbesAnswered
      <4> QED
        BY <1>2, <4>1, <4>3
    <3>3. CASE n \notin Slugs
      <4> DEFINE r == [st |-> "read", at |-> "layout", n |-> Len(projects) + 1]
                 row == Row(i)
      <4>1. Answered(i, r) /\ projects' = Append(projects, row)
        BY <2>6, <3>3 DEF Insert, Reaches
      <4>2. r.st = "read" /\ r.at = "layout"
        OBVIOUS
      <4>3. row.slug = n /\ row \in TableRows
        <5>1. calls[i] \in CreateCalls
          BY <2>2, <3>1 DEF FormCallSet, ListCalls, UploadCalls, CreateCalls
        <5> QED
          BY <3>1, <5>1 DEF Row, TableRows, CreateCalls
      <4> HIDE DEF r, row
      <4>4. /\ DOMAIN projects = 1 .. Len(projects) /\ Len(projects) \in Nat
            /\ \A id \in DOMAIN projects : id \in DOMAIN projects'
                                           /\ projects'[id] = projects[id]
            /\ \A id \in DOMAIN projects' : id \in DOMAIN projects
                                            \/ projects'[id] = row
        BY <1>1, <4>1, <4>3, CallAdded
      <4>5. AllProbe(calls', projects)
        BY <1>1, <4>1, <4>2, ProbesAnswered
      <4>6. AllProbe(calls', projects')
        BY <4>4, <4>5, ProbingKept DEF SlugsKept
      <4>7. n - 1 <= Len(projects)
        <5>1. n - 1 \in Nat
          BY <3>1
        <5> QED
          BY <1>1, <3>1, <5>1, SlugsFit
      <4>8. n \in Ids
        BY <3>1, <4>4, <4>7, ProjectsAssumption DEF Ids
      <4> QED
        BY <1>1, <3>1, <4>3, <4>4, <4>6, <4>8 DEF SlugInv
    <3> QED
      BY <3>2, <3>3
  <2>7. CASE EnsureLayout(i) \/ Upload(i) \/ ReadProjects(i)
    <3>1. PICK r :
            /\ Answered(i, r) /\ route' = route
            /\ r.st = "ok"
      BY <2>7 DEF EnsureLayout, Upload, ReadProjects, FormWaits, Ok
    <3>2. AllProbe(calls', projects)
      BY <1>1, <3>1, ProbesAnswered
    <3>3. /\ DOMAIN projects' = DOMAIN projects
          /\ \A id \in DOMAIN projects : projects'[id].slug = projects[id].slug
      <4>1. \A id \in DOMAIN projects : projects[id] \in TableRows
        BY <1>1, LenProperties, ElementOfSeq
      <4>2. \/ projects' = projects
            \/ projects' = [projects EXCEPT ![calls[i].res.n].layout = TRUE]
            \/ projects' = [projects EXCEPT ![calls[i].arg.id].layout = TRUE,
                                           ![calls[i].arg.id].source = TRUE]
        BY <2>7 DEF EnsureLayout, Upload, ReadProjects
      <4>3. ASSUME NEW k, projects' = [projects EXCEPT ![k].layout = TRUE]
            PROVE  /\ DOMAIN projects' = DOMAIN projects
                   /\ \A id \in DOMAIN projects :
                        projects'[id].slug = projects[id].slug
        BY <4>1, <4>3 DEF TableRows
      <4>4. ASSUME NEW k, projects' = [projects EXCEPT ![k].layout = TRUE,
                                                       ![k].source = TRUE]
            PROVE  /\ DOMAIN projects' = DOMAIN projects
                   /\ \A id \in DOMAIN projects :
                        projects'[id].slug = projects[id].slug
        BY <4>1, <4>4 DEF TableRows
      <4> QED
        BY <4>2, <4>3, <4>4
    <3>4. AllProbe(calls', projects')
      BY <3>2, <3>3, ProbingKept DEF SlugsKept
    <3> QED
      BY <1>1, <3>1, <3>3, <3>4 DEF SlugInv
  <2>8. CASE NobodyWaits(i) \/ TakeCreated(i) \/ TakeUploaded(i) \/ TakeProjects(i)
    <3>1. projects' = projects
      BY <2>8 DEF NobodyWaits, TakeCreated, TakeUploaded, TakeProjects, FormWaits, FormTakes
    <3>2. \/ calls' = Without(i)
          \/ \E a \in {"create", "upload"}, n \in Ids :
               calls' = Append(Without(i), ListProjects(a, n))
      <4>1. TakeCreated(i) =>
              calls' = Without(i) \/ /\ calls[i].res.value \in Ids
                                     /\ calls' = Append(Without(i),
                                          ListProjects("create", calls[i].res.value))
        BY <2>2 DEF TakeCreated, Ready, FormCallSet, ListCalls, CreateCalls, UploadCalls,
             Ok, Waiting, Working
      <4>2. TakeUploaded(i) =>
              calls' = Without(i) \/ /\ calls[i].arg.id \in Ids
                                     /\ calls' = Append(Without(i),
                                          ListProjects("upload", calls[i].arg.id))
        BY <2>2 DEF TakeUploaded, Ready, FormCallSet, ListCalls, CreateCalls, UploadCalls
      <4> QED
        BY <2>8, <4>1, <4>2 DEF NobodyWaits, TakeProjects
    <3>3. ASSUME NEW a \in {"create", "upload"}, NEW n \in Ids
          PROVE  /\ ListProjects(a, n) \in FormCallSet
                 /\ Probing(ListProjects(a, n), projects)
      BY <1>1 DEF ListProjects, Call, FormCallSet, ListCalls, ClientOK, Probing
    <3>4. AllProbe(calls', projects)
      <4> DEFINE w == Without(i)
      <4>1. AllProbe(w, projects) /\ w \in Seq(FormCallSet)
        BY <2>3
      <4> HIDE DEF w
      <4>2. \A a \in {"create", "upload"}, n \in Ids :
              AllProbe(Append(w, ListProjects(a, n)), projects)
        BY <3>3, <4>1, ProbesAdded
      <4> QED
        BY <2>3, <3>2, <4>2 DEF w
    <3> QED
      BY <1>2, <3>1, <3>4
  <2>9. CASE CreateLost(i)
    <3>1. projects' = projects
      BY <2>9 DEF CreateLost, FormTakes
    <3>2. CASE calls' = Without(i)
      BY <1>2, <2>3, <3>1, <3>2
    <3>3. CASE calls' = [calls EXCEPT ![i].op = "orphan"]
      <4>1. calls[i].op = "create" /\ calls[i] \in CreateCalls
        BY <2>2, <2>9
           DEF CreateLost, Fails, FormCallSet, ListCalls, CreateCalls, UploadCalls
      <4> DEFINE c == [calls[i] EXCEPT !.op = "orphan"]
      <4>2. c.res = calls[i].res
        BY <4>1 DEF CreateCalls
      <4>3. /\ DOMAIN calls' = DOMAIN calls
            /\ \A j \in DOMAIN calls : calls'[j] = IF j = i THEN c ELSE calls[j]
        BY <3>3
      <4> HIDE DEF c
      <4>4. \A j \in DOMAIN calls' :
              /\ j \in DOMAIN calls /\ calls'[j].res = calls[j].res
              /\ calls'[j].op = calls[j].op \/ calls[j].op = "create"
        BY <4>1, <4>2, <4>3
      <4>5. AllProbe(calls', projects)
        BY <1>1, <4>4 DEF AllProbe, Probing
      <4> QED
        BY <1>2, <3>1, <4>5
    <3> QED
      BY <2>9, <3>2, <3>3 DEF CreateLost
  <2> QED
    BY <2>1, <2>4, <2>5, <2>6, <2>7, <2>8, <2>9
<1>6. CASE Retries /\ UNCHANGED projectsVars
  <2>1. PICK i \in DOMAIN calls : calls' = [calls EXCEPT ![i].token = good]
    BY <1>6 DEF Retries, Retry
  <2>2. \A j \in DOMAIN calls' :
          j \in DOMAIN calls /\ calls'[j].res = calls[j].res /\ calls'[j].op = calls[j].op
    BY <2>1
  <2>3. AllProbe(calls', projects)
    BY <1>1, <2>2 DEF AllProbe, Probing
  <2> QED
    BY <1>2, <1>6, <2>3 DEF projectsVars
<1>7. CASE TokenExpires /\ UNCHANGED projectsVars
  BY <1>1, <1>2, <1>7 DEF TokenExpires, projectsVars
<1> QED
  BY <1>4, <1>5, <1>6, <1>7 DEF ProjectsNext

\* What a page knows of its requests gives them the type they share.
CallsTyped ==
  \A i \in DOMAIN calls :
    calls[i].late \in BOOLEAN /\ calls[i].res.st \in {"waiting", "read", "ok"}

\* A set of requests that have it is enough.
LEMMA MountedCallsTyped ==
  ASSUME NEW S, calls \in Seq(S),
         \A c \in S : c.late \in BOOLEAN /\ c.res.st \in {"waiting", "read", "ok"}
  PROVE  CallsTyped
BY LenProperties, ElementOfSeq DEF CallsTyped

\* The audit log's page while it is mounted.
LEMMA AuditMounted ==
  ASSUME AuditInv, route = "audit"
  PROVE  ClientOK /\ CallsTyped /\ AuditTypeOK
<1>1. ClientOK /\ AuditOK
  BY DEF AuditInv, AuditLive
<1>2. CallsTyped
  <2>1. \A c \in AuditCalls :
          c.late \in BOOLEAN /\ c.res.st \in {"waiting", "read", "ok"}
    BY DEF AuditCalls, ListReqs, ExportReqs, Waiting
  <2> QED
    BY <1>1, <2>1, MountedCallsTyped DEF AuditOK
<1>3. auditLog \in UNION { [1 .. n -> Actions] : n \in 0 .. MaxRows }
  <2>1. /\ Len(auditLog) \in Nat /\ Len(auditLog) <= MaxRows
        /\ auditLog \in [1 .. Len(auditLog) -> Actions]
    BY <1>1, LenProperties DEF AuditOK
  <2> QED
    BY <2>1, AuditAssumption
<1>4. /\ audit.url \in Urls /\ audit.list \in Lists
      /\ audit.loading \in BOOLEAN /\ audit.exporting \in BOOLEAN
      /\ audit.error \in BOOLEAN /\ audit.gap \in BOOLEAN
      /\ audit.clicks \in 0 .. AuditClicks
  BY <1>1 DEF AuditOK, AuditStates
<1> QED
  BY <1>1, <1>2, <1>3, <1>4 DEF AuditTypeOK, Urls, Lists

\* The dashboard while it is mounted.
LEMMA DashMounted ==
  ASSUME DashInv, route = "dashboard"
  PROVE  ClientOK /\ CallsTyped /\ DashTypeOK
<1>1. ClientOK /\ DashOK /\ calls \in Seq(PollCalls)
  BY DEF DashInv, DashLive, PollsOwned
<1>2. CallsTyped
  <2>1. \A c \in PollCalls :
          c.late \in BOOLEAN /\ c.res.st \in {"waiting", "read", "ok"}
    BY DEF PollCalls, Waiting
  <2> QED
    BY <1>1, <2>1, MountedCallsTyped
<1>3. \A k \in DOMAIN poller : poller[k] \in Controllers
  BY <1>1, LenProperties, ElementOfSeq DEF DashOK
<1> QED
  BY <1>1, <1>2, <1>3 DEF DashTypeOK, DashOK, Dashes, Controllers

\* A runtime tab while it is mounted.
LEMMA TabMounted ==
  ASSUME TabInv, route \in {"services", "domains"}
  PROVE  ClientOK /\ CallsTyped /\ TabTypeOK
<1>1. ClientOK /\ TabOK
  BY DEF TabInv
<1>2. CallsTyped
  <2>1. \A c \in TabCalls :
          c.late \in BOOLEAN /\ c.res.st \in {"waiting", "read", "ok"}
    BY DEF TabCalls, RowsCalls, FormCalls, ActCalls, Waiting, Ok
  <2> QED
    BY <1>1, <2>1, MountedCallsTyped DEF TabOK
<1> QED
  BY <1>1, <1>2 DEF TabTypeOK, TabOK, TabStates

\* The page of the projects while it is mounted: the slugs of the rows are numbers
\* of rows.
LEMMA FormMounted ==
  ASSUME FormInv, SlugInv, route = "projects"
  PROVE  ClientOK /\ CallsTyped /\ ProjectsTypeOK
<1>1. ClientOK /\ FormOK /\ \A id \in DOMAIN projects : projects[id].slug \in Ids
  BY DEF FormInv, FormLive, SlugInv
<1>2. CallsTyped
  <2>1. \A c \in FormCallSet :
          c.late \in BOOLEAN /\ c.res.st \in {"waiting", "read", "ok"}
    BY DEF FormCallSet, ListCalls, CreateCalls, UploadCalls, Working, Waiting, Ok
  <2> QED
    BY <1>1, <2>1, MountedCallsTyped DEF FormOK
<1> DEFINE T == [slug : Ids, form : 1 .. FormActs, layout : BOOLEAN, source : BOOLEAN]
<1>3. projects \in Seq(T)
  <2>1. Len(projects) \in Nat /\ projects \in [1 .. Len(projects) -> TableRows]
    BY <1>1, LenProperties DEF FormOK
  <2>2. \A id \in DOMAIN projects : projects[id] \in T
    BY <1>1, <2>1 DEF TableRows
  <2>3. projects \in [1 .. Len(projects) -> T]
    BY <2>1, <2>2
  <2> HIDE DEF T
  <2> QED
    BY <2>1, <2>3, SeqDef
<1> QED
  BY <1>1, <1>2, <1>3 DEF ProjectsTypeOK, FormOK, FormStates

\* The page of a project, wherever the reader is.
LEMMA PageTypedProject == ASSUME PageTyped PROVE ProjectTypeOK
<1> DEFINE p == [f \in DOMAIN page \ {"seen"} |-> page[f]]
<1>1. DOMAIN page \ {"seen"} =
        {"id", "tab", "project", "error", "loading", "fresh", "env", "deployments",
         "since", "merged", "stray", "acts"}
  BY DEF PageTyped, PageStates
<1>2. p = [id |-> page.id, tab |-> page.tab, project |-> page.project,
           error |-> page.error, loading |-> page.loading, fresh |-> page.fresh,
           env |-> page.env, deployments |-> page.deployments, since |-> page.since,
           merged |-> page.merged, stray |-> page.stray, acts |-> page.acts]
  BY <1>1
<1> HIDE DEF p
<1>3. p \in ProjectPages
  BY <1>2 DEF PageTyped, PageStates, ProjectPages, Editors, DeploymentLists, PageIds
<1> QED
  BY <1>3 DEF ProjectTypeOK, PageTyped, PageIds, p

\* Its requests while it is mounted.
LEMMA ProjectMounted ==
  ASSUME ProjectInv, route = "project"
  PROVE  ClientOK /\ CallsTyped
<1>1. ClientOK /\ ProjectOK
  BY DEF ProjectInv, ProjectLive
<1>2. \A c \in PageCalls : c.late \in BOOLEAN /\ c.res.st \in {"waiting", "read", "ok"}
  BY DEF PageCalls, GetCalls, EnvCalls, PutCalls, DeploymentsCalls, DeployCalls, Waiting,
     Ok
<1> QED
  BY <1>1, <1>2, MountedCallsTyped DEF ProjectOK
\* The pages that are not mounted, and what types need besides the pages' invariants.
PagesTyped ==
  /\ route \in Pages /\ CallsSent /\ SlugInv
  /\ route # "audit" => AuditTypeOK
  /\ route # "dashboard" => DashTypeOK
  /\ route \notin {"services", "domains"} => TabTypeOK
  /\ route # "projects" => ProjectsTypeOK

\* The invariants of the pages, of which each speaks of its own.
PagesInv == AuditInv /\ DashInv /\ TabInv /\ FormInv /\ ProjectInv

\* With the invariants of the pages the types follow.
LEMMA PagesTypedFit == ASSUME PagesInv, PagesTyped PROVE PagesTypeOK
<1>1. ClientOK /\ CallsTyped
  BY AuditMounted, DashMounted, TabMounted, FormMounted, ProjectMounted
     DEF PagesInv, PagesTyped, Pages
<1>2. AuditTypeOK /\ DashTypeOK /\ TabTypeOK /\ ProjectsTypeOK
  BY AuditMounted, DashMounted, TabMounted, FormMounted DEF PagesInv, PagesTyped
<1>3. ProjectTypeOK
  BY PageTypedProject DEF PagesInv, ProjectInv
<1>4. ClientTypeOK
  BY <1>1 DEF ClientTypeOK, ClientOK, CallsTyped, PagesTyped, CallsSent, Sent
<1> QED
  BY <1>2, <1>3, <1>4 DEF PagesTypeOK, PagesTyped

\* The first state.
LEMMA TypesStart == Init => PagesTyped
<1> SUFFICES ASSUME Init  PROVE PagesTyped
  OBVIOUS
<1>1. /\ route \in Pages /\ calls = <<>> /\ dirty = TRUE /\ projects = <<>>
  BY DEF Init, ClientInit, ProjectsInit
<1>2. DOMAIN calls = {} /\ DOMAIN projects = {}
  BY <1>1, EmptySeq
<1>3. CallsSent /\ SlugInv
  BY <1>1, <1>2 DEF CallsSent, Sent, SlugInv, AllProbe
<1>4. ASSUME route # "audit"  PROVE AuditTypeOK
  <2>1. auditLog \in UNION { [1 .. n -> Actions] : n \in 0 .. MaxRows }
    <3>1. 2 \in 0 .. MaxRows
      BY AuditAssumption
    <3>2. auditLog \in [1 .. 2 -> Actions]
      BY DEF Init, AuditInit, Actions
    <3> QED
      BY <3>1, <3>2
  <2>2. DefaultUrl \in Urls
    BY AuditAssumption
       DEF DefaultUrl, Url, Urls, defaultAuditFilterValue, defaultAuditPage,
           defaultAuditPageSize, Filters, PageSizes
  <2>3. <<>> \in Seq(1 .. MaxRows) /\ 0 \in 0 .. AuditClicks
    BY EmptySeq, AuditAssumption
  <2>4. audit = [url |-> DefaultUrl, back |-> <<>>, asked |-> <<>>,
                 list |-> emptyAuditLogListResponse, loading |-> FALSE,
                 exporting |-> FALSE, error |-> FALSE, gap |-> FALSE, clicks |-> 0]
    BY <1>4 DEF Init, AuditInit
  <2>5. audit.list.rows = <<>>
    BY <2>4 DEF emptyAuditLogListResponse
  <2> QED
    BY <2>1, <2>2, <2>3, <2>4, <2>5 DEF AuditTypeOK, Urls
<1>5. ASSUME route # "dashboard"  PROVE DashTypeOK
  <2>1. -1 \in -1 .. MaxToken /\ 0 \in 0 .. Keystrokes
    BY ClientAssumption, KeystrokesAssumption
  <2>2. DOMAIN poller = {}
    <3>1. poller = <<>>
      BY DEF Init, DashInit
    <3> QED
      BY <3>1, EmptySeq
  <2>3. dash = [project |-> "", metrics |-> NoMetrics, error |-> FALSE,
                loading |-> FALSE, made |-> [project |-> "", token |-> -1], keys |-> 0]
    BY <1>5 DEF Init, DashInit
  <2> QED
    BY <2>1, <2>2, <2>3 DEF DashTypeOK, Typed
<1>6. TabTypeOK
  <2>1. 0 \in 0 .. TabActs /\ [r \in Rows |-> "off"] \in [Rows -> States]
    BY TabActsAssumption DEF States
  <2>2. table \in [Rows -> States]
    BY DEF Init, TabInit, States
  <2> QED
    BY <2>1, <2>2 DEF Init, TabInit, TabTypeOK
<1>7. ProjectsTypeOK
  <2>1. 0 \in 0 .. FormActs /\ Len(projects) = 0 /\ 0 <= MaxProjects
    BY <1>1, ProjectsAssumption, EmptySeq
  <2>2. projects \in Seq([slug : Ids, form : 1 .. FormActs, layout : BOOLEAN,
                          source : BOOLEAN])
    BY <1>1, EmptySeq
  <2>3. form \in FormStates
    BY <2>1 DEF Init, ProjectsInit, FormStates
  <2> QED
    BY <2>1, <2>2, <2>3 DEF ProjectsTypeOK, FormStates
<1> QED
  BY <1>1, <1>3, <1>4, <1>5, <1>6, <1>7 DEF PagesTyped

\* A step of a page leaves the types of the others, and sends with the page's token.
LEMMA TypesStay ==
  ASSUME PagesInv, PagesTyped, [Next]_vars
  PROVE  PagesTyped'
<1>1. CASE Next
  <2>1. route' = route /\ route \in Pages
    BY <1>1, OnePageSteps DEF PagesTyped
  <2>2. CallsSent'
    <3>1. CallsSent /\ AuditInv /\ DashInv /\ TabInv /\ FormInv /\ ProjectInv
      BY DEF PagesTyped, PagesInv
    <3>2. CASE route = "audit"
      BY <1>1, <3>1, <3>2, OnePageSteps, AuditSent
    <3>3. CASE route = "dashboard"
      BY <1>1, <3>1, <3>3, OnePageSteps, DashSent
    <3>4. CASE route \in {"services", "domains"}
      BY <1>1, <3>1, <3>4, OnePageSteps, TabSent
    <3>5. CASE route = "projects"
      BY <1>1, <3>1, <3>5, OnePageSteps, FormSent
    <3>6. CASE route = "project"
      BY <1>1, <3>1, <3>6, OnePageSteps, PageSent
    <3> QED
      BY <2>1, <3>2, <3>3, <3>4, <3>5, <3>6 DEF Pages
  <2>3. SlugInv'
    <3>1. CASE route = "projects"
      BY <1>1, <3>1, OnePageSteps, SlugNextInv DEF PagesInv, PagesTyped
    <3>2. CASE route # "projects"
      BY <2>1, <3>2 DEF SlugInv
    <3> QED
      BY <3>1, <3>2
  <2>4. (route # "audit" => AuditTypeOK)'
    <3>1. ASSUME route # "audit"  PROVE AuditTypeOK'
      <4>1. AuditTypeOK /\ audit' = audit /\ auditLog' = auditLog
        BY <1>1, <3>1, OnePageSteps DEF PagesTyped, auditVars
      <4> QED
        BY <4>1 DEF AuditTypeOK
    <3> QED
      BY <2>1, <3>1
  <2>5. (route # "dashboard" => DashTypeOK)'
    <3>1. ASSUME route # "dashboard"  PROVE DashTypeOK'
      <4>1. DashTypeOK /\ dash' = dash /\ poller' = poller
        BY <1>1, <3>1, OnePageSteps DEF PagesTyped, dashVars
      <4> QED
        BY <4>1 DEF DashTypeOK
    <3> QED
      BY <2>1, <3>1
  <2>6. (route \notin {"services", "domains"} => TabTypeOK)'
    <3>1. ASSUME route \notin {"services", "domains"}  PROVE TabTypeOK'
      <4>1. TabTypeOK /\ tab' = tab /\ table' = table
        BY <1>1, <3>1, OnePageSteps DEF PagesTyped, tabVars
      <4> QED
        BY <4>1 DEF TabTypeOK
    <3> QED
      BY <2>1, <3>1
  <2>7. (route # "projects" => ProjectsTypeOK)'
    <3>1. ASSUME route # "projects"  PROVE ProjectsTypeOK'
      <4>1. ProjectsTypeOK /\ form' = form /\ projects' = projects
        BY <1>1, <3>1, OnePageSteps DEF PagesTyped, projectsVars
      <4> QED
        BY <4>1 DEF ProjectsTypeOK
    <3> QED
      BY <2>1, <3>1
  <2> QED
    BY <2>1, <2>2, <2>3, <2>4, <2>5, <2>6, <2>7 DEF PagesTyped
<1>2. CASE UNCHANGED vars
  <2>1. UNCHANGED <<clientVars, auditVars, tabVars, projectsVars, dashVars>>
    BY <1>2 DEF vars
  <2>2. /\ route' = route /\ calls' = calls /\ token' = token /\ dirty' = dirty
        /\ projects' = projects
    BY <2>1 DEF clientVars, projectsVars
  <2>3. CallsSent' /\ SlugInv'
    BY <2>2 DEF PagesTyped, CallsSent, Sent, SlugInv, AllProbe, Probing
  <2>4. /\ (AuditTypeOK => AuditTypeOK') /\ (DashTypeOK => DashTypeOK')
        /\ (TabTypeOK => TabTypeOK') /\ (ProjectsTypeOK => ProjectsTypeOK')
    BY <2>1 DEF auditVars, dashVars, tabVars, projectsVars, AuditTypeOK, DashTypeOK,
         TabTypeOK, ProjectsTypeOK
  <2> QED
    BY <2>2, <2>3, <2>4 DEF PagesTyped
<1> QED
  BY <1>1, <1>2

\* Whatever happens on a page, its state has its type, each of its requests was sent
\* with a token that was issued, and every project got a slug of the table's.
THEOREM PagesAlwaysTyped == Spec => []PagesTypeOK
<1>1. Spec => []PagesInv
  BY AuditInductive, DashInductive, TabInductive, FormInductive, ProjectInductive, PTL
     DEF PagesInv
<1>2. Spec => []PagesTyped
  BY TypesStart, TypesStay, <1>1, PTL DEF Spec
<1> QED
  BY PagesTypedFit, <1>1, <1>2, PTL
=============================================================================

---------------------------- MODULE ReportProofs -----------------------------
(***************************************************************************)
(* Proofs about the numbers of a call: the limits that an upload keeps to  *)
(* and what DeliveryReport tells the user, for every set of calls, every   *)
(* disk, any limits and any size of a megabyte.                            *)
(*                                                                         *)
(* The code adds numbers up, file by file and operation by operation; the  *)
(* properties count things: files, and units of storage.  TotalOfParts     *)
(* says that a sum counts what its terms count when they count no thing    *)
(* twice, and everything about a call follows from what ManifestInv says   *)
(* of one operation.                                                       *)
(***************************************************************************)
EXTENDS DeliveryRunProofs, DeliveryReport

-----------------------------------------------------------------------------
(***************************************************************************)
(* Sums.                                                                   *)
(***************************************************************************)
\* A claim that holds at 0 and goes on to hold, holds at the end.
LEMMA HoldsAtTheEnd ==
  ASSUME NEW N \in Nat, NEW Failures, Failures \subseteq 0..N, 0 \notin Failures,
         \A n \in 1..N : n \in Failures => n - 1 \in Failures
  PROVE  N \notin Failures
  BY NoFirstFailure

\* The function that the recursion of Total defines, up to N.
Adds(upto, N, f) ==
    upto = [n \in 0..N |-> IF n = 0 THEN 0 ELSE upto[n - 1] + f[n]]

\* upto[n] is the sum of the first n of N numbers.
UpTo(upto, N, f) ==
    /\ upto \in [0..N -> Nat]
    /\ upto[0] = 0
    /\ \A n \in 1..N : upto[n] = upto[n - 1] + f[n]

\* The recursion of Total defines a function: the sums of the first numbers.
LEMMA TotalDefined ==
  ASSUME NEW N \in Nat, NEW f \in [1..N -> Nat]
  PROVE  \E upto : UpTo(upto, N, f) /\ Total(f) = upto[N]
<1>1. Len(f) = N
  OBVIOUS
<1> DEFINE Failures ==
             {n \in 0..N : ~ \E upto : upto \in [0..n -> Nat] /\ Adds(upto, n, f)}
<1>2. 0 \notin Failures
  <2>1. [n \in 0..0 |-> 0] \in [0..0 -> Nat] /\ Adds([n \in 0..0 |-> 0], 0, f)
    BY DEF Adds
  <2> QED
    BY <2>1
<1>3. ASSUME NEW n \in 1..N, n - 1 \notin Failures PROVE n \notin Failures
  <2>1. PICK upto : upto \in [0..(n - 1) -> Nat] /\ Adds(upto, n - 1, f)
    BY <1>3
  <2> DEFINE more == [i \in 0..n |-> IF i < n THEN upto[i] ELSE upto[n - 1] + f[n]]
  <2>2. more \in [0..n -> Nat]
    BY <2>1
  <2>3. ASSUME NEW i \in 0..n
        PROVE  more[i] = IF i = 0 THEN 0 ELSE more[i - 1] + f[i]
    BY <2>1 DEF Adds
  <2> HIDE DEF more
  <2>4. Adds(more, n, f)
    BY <2>2, <2>3 DEF Adds
  <2> QED
    BY <2>2, <2>4
<1>4. N \notin Failures
  <2>1. Failures \subseteq 0..N
    OBVIOUS
  <2> HIDE DEF Failures
  <2> QED
    BY <1>2, <1>3, <2>1, HoldsAtTheEnd
<1>5. PICK any : any \in [0..N -> Nat] /\ Adds(any, N, f)
  BY <1>4
<1>6. PICK upto : upto = CHOOSE u : Adds(u, N, f)
  OBVIOUS
<1>7. Adds(upto, N, f)
  BY <1>5, <1>6
<1>8. Total(f) = upto[N]
  BY <1>1, <1>6 DEF Total, Adds
<1>9. upto[0] = 0 /\ \A n \in 1..N : upto[n] = upto[n - 1] + f[n]
  BY <1>7 DEF Adds
<1>10. upto \in [0..N -> Nat]
  <2> DEFINE Wrong == {n \in 0..N : upto[n] \notin Nat}
  <2>1. 0 \notin Wrong /\ Wrong \subseteq 0..N
    BY <1>9
  <2>2. \A n \in 1..N : n \in Wrong => n - 1 \in Wrong
    BY <1>9
  <2> HIDE DEF Wrong
  <2>3. Wrong = {}
    BY <2>1, <2>2, NoFirstFailure
  <2>4. \A n \in 0..N : upto[n] \in Nat
    BY <2>3 DEF Wrong
  <2> QED
    BY <1>7, <2>4 DEF Adds
<1> QED
  BY <1>8, <1>9, <1>10 DEF UpTo

\* The number of elements of sets that have none in common, all of them.
LEMMA TotalOfParts ==
  ASSUME NEW N \in Nat, NEW part,
         \A n \in 1..N : IsFiniteSet(part[n]),
         \A m, n \in 1..N : m # n => part[m] \cap part[n] = {}
  PROVE  /\ IsFiniteSet(UNION {part[n] : n \in 1..N})
         /\ Cardinality(UNION {part[n] : n \in 1..N}) =
               Total([n \in 1..N |-> Cardinality(part[n])])
<1> DEFINE size == [n \in 1..N |-> Cardinality(part[n])]
           whole(n) == UNION {part[m] : m \in 1..n}
<1>1. size \in [1..N -> Nat]
  BY FS_CardinalityType
<1>2. PICK upto : UpTo(upto, N, size) /\ Total(size) = upto[N]
  <2> HIDE DEF size
  <2> QED
    BY <1>1, TotalDefined
<1> DEFINE Failures ==
             {n \in 0..N : ~ /\ IsFiniteSet(whole(n))
                             /\ Cardinality(whole(n)) = upto[n]}
<1>3. 0 \notin Failures
  <2>1. whole(0) = {}
    OBVIOUS
  <2> QED
    BY <1>2, <2>1, FS_EmptySet DEF UpTo
<1>4. ASSUME NEW n \in 1..N, n - 1 \notin Failures PROVE n \notin Failures
  <2>1. n - 1 \in 0..N
    OBVIOUS
  <2>2. IsFiniteSet(whole(n - 1)) /\ Cardinality(whole(n - 1)) = upto[n - 1]
    BY <1>4, <2>1
  <2>3. 1..n = 1..(n - 1) \cup {n}
    OBVIOUS
  <2>4. whole(n) = whole(n - 1) \cup part[n]
    BY <2>3
  <2>5. whole(n - 1) \cap part[n] = {}
    OBVIOUS
  <2>6. IsFiniteSet(part[n]) /\ Cardinality(part[n]) \in Nat
    BY FS_CardinalityType
  <2>7. upto[n] = upto[n - 1] + Cardinality(part[n]) /\ upto[n - 1] \in Nat
    BY <1>2, <2>1 DEF UpTo
  <2>8. /\ IsFiniteSet(whole(n))
        /\ Cardinality(whole(n)) = Cardinality(whole(n - 1))
              + Cardinality(part[n]) - Cardinality(whole(n - 1) \cap part[n])
    <3> HIDE DEF whole
    <3> QED
      BY <2>2, <2>4, <2>6, FS_Union
  <2>9. Cardinality(whole(n - 1) \cap part[n]) = 0
    BY <2>5, FS_EmptySet
  <2>10. IsFiniteSet(whole(n)) /\ Cardinality(whole(n)) = upto[n]
    BY <2>2, <2>6, <2>7, <2>8, <2>9
  <2> QED
    BY <2>10
<1>5. N \notin Failures
  <2>1. Failures \subseteq 0..N
    OBVIOUS
  <2> HIDE DEF Failures
  <2> QED
    BY <1>3, <1>4, <2>1, HoldsAtTheEnd
<1>6. IsFiniteSet(whole(N)) /\ Cardinality(whole(N)) = upto[N]
  BY <1>5
<1> QED
  BY <1>2, <1>6

\* A sum is a number, and 0 when all its terms are.
LEMMA TotalOfNothing ==
  ASSUME NEW N \in Nat, NEW f \in [1..N -> Nat]
  PROVE  Total(f) \in Nat /\ (Total(f) = 0 <=> \A n \in 1..N : f[n] = 0)
<1>1. PICK upto : UpTo(upto, N, f) /\ Total(f) = upto[N]
  BY TotalDefined
<1> DEFINE Failures ==
             {n \in 0..N : ~(upto[n] = 0 <=> \A m \in 1..n : f[m] = 0)}
<1>2. 0 \notin Failures
  BY <1>1 DEF UpTo
<1>3. ASSUME NEW n \in 1..N, n - 1 \notin Failures PROVE n \notin Failures
  <2>1. upto[n - 1] = 0 <=> \A m \in 1..(n - 1) : f[m] = 0
    BY <1>3
  <2>2. upto[n - 1] \in Nat /\ f[n] \in Nat /\ upto[n] = upto[n - 1] + f[n]
    BY <1>1 DEF UpTo
  <2>3. 1..n = 1..(n - 1) \cup {n}
    OBVIOUS
  <2> QED
    BY <2>1, <2>2, <2>3
<1>4. N \notin Failures
  <2>1. Failures \subseteq 0..N
    OBVIOUS
  <2> HIDE DEF Failures
  <2> QED
    BY <1>2, <1>3, <2>1, HoldsAtTheEnd
<1>5. upto[N] \in Nat /\ (upto[N] = 0 <=> \A n \in 1..N : f[n] = 0)
  BY <1>1, <1>4 DEF UpTo
<1> QED
  BY <1>1, <1>5, Zenon

\* The sums of the terms of two sequences are that of the sums of their terms.
LEMMA TotalOfSums ==
  ASSUME NEW N \in Nat, NEW f \in [1..N -> Nat], NEW g \in [1..N -> Nat],
         NEW h \in [1..N -> Nat], \A n \in 1..N : h[n] = f[n] + g[n]
  PROVE  Total(h) = Total(f) + Total(g)
<1>1. PICK u : UpTo(u, N, f) /\ Total(f) = u[N]
  BY TotalDefined
<1>2. PICK v : UpTo(v, N, g) /\ Total(g) = v[N]
  BY TotalDefined
<1>3. PICK w : UpTo(w, N, h) /\ Total(h) = w[N]
  BY TotalDefined
<1> DEFINE Failures == {n \in 0..N : w[n] # u[n] + v[n]}
<1>4. 0 \notin Failures
  BY <1>1, <1>2, <1>3 DEF UpTo
<1>5. ASSUME NEW n \in 1..N, n - 1 \notin Failures PROVE n \notin Failures
  <2>1. n - 1 \in 0..N /\ w[n - 1] = u[n - 1] + v[n - 1]
    BY <1>5
  <2>3. u[n - 1] \in Nat /\ v[n - 1] \in Nat /\ f[n] \in Nat /\ g[n] \in Nat
    BY <1>1, <1>2, <2>1 DEF UpTo
  <2>2. /\ u[n] = u[n - 1] + f[n] /\ v[n] = v[n - 1] + g[n]
        /\ w[n] = w[n - 1] + (f[n] + g[n])
    BY <1>1, <1>2, <1>3 DEF UpTo
  <2> QED
    BY <2>1, <2>2, <2>3
<1>6. N \notin Failures
  <2>1. Failures \subseteq 0..N
    OBVIOUS
  <2> HIDE DEF Failures
  <2> QED
    BY <1>4, <1>5, <2>1, HoldsAtTheEnd
<1>7. w[N] = u[N] + v[N]
  BY <1>6
<1> QED
  BY <1>1, <1>2, <1>3, <1>7, Zenon

\* b is U times a and a rest for each of n things, which is less than U.
Rounded(U, a, b, n) == U * a <= b /\ b + n <= U * a + U * n

\* Two things that were rounded are one that was.
LEMMA RoundedTwice ==
  ASSUME NEW U \in Nat,
         NEW a \in Nat, NEW b \in Nat, NEW n \in Nat, Rounded(U, a, b, n),
         NEW c \in Nat, NEW d \in Nat, NEW m \in Nat, Rounded(U, c, d, m)
  PROVE  Rounded(U, a + c, b + d, n + m)
<1>1. U * (a + c) = U * a + U * c /\ U * (n + m) = U * n + U * m
  OBVIOUS
<1>2. U * a \in Nat /\ U * c \in Nat /\ U * n \in Nat /\ U * m \in Nat
  OBVIOUS
<1> QED
  BY <1>1, <1>2 DEF Rounded

\* The sum of rounded numbers is short by less than U for each of them.
LEMMA TotalOfRounded ==
  ASSUME NEW U \in Nat, NEW N \in Nat,
         NEW f \in [1..N -> Nat], NEW g \in [1..N -> Nat],
         NEW c \in [1..N -> Nat],
         \A n \in 1..N : Rounded(U, f[n], g[n], c[n])
  PROVE  Rounded(U, Total(f), Total(g), Total(c))
<1>1. PICK u : UpTo(u, N, f) /\ Total(f) = u[N]
  BY TotalDefined
<1>2. PICK v : UpTo(v, N, g) /\ Total(g) = v[N]
  BY TotalDefined
<1>3. PICK w : UpTo(w, N, c) /\ Total(c) = w[N]
  BY TotalDefined
<1> DEFINE Failures == {n \in 0..N : ~Rounded(U, u[n], v[n], w[n])}
<1>4. 0 \notin Failures
  BY <1>1, <1>2, <1>3 DEF Rounded, UpTo
<1>5. ASSUME NEW n \in 1..N, n - 1 \notin Failures PROVE n \notin Failures
  <2>1. n - 1 \in 0..N /\ Rounded(U, u[n - 1], v[n - 1], w[n - 1])
    BY <1>5
  <2>2. /\ u[n] = u[n - 1] + f[n] /\ v[n] = v[n - 1] + g[n]
        /\ w[n] = w[n - 1] + c[n]
    BY <1>1, <1>2, <1>3 DEF UpTo
  <2>3. /\ u[n - 1] \in Nat /\ v[n - 1] \in Nat /\ w[n - 1] \in Nat
        /\ f[n] \in Nat /\ g[n] \in Nat /\ c[n] \in Nat
    BY <1>1, <1>2, <1>3, <2>1 DEF UpTo
  <2>4. Rounded(U, f[n], g[n], c[n])
    OBVIOUS
  <2>5. Rounded(U, u[n - 1] + f[n], v[n - 1] + g[n], w[n - 1] + c[n])
    BY <2>1, <2>3, <2>4, RoundedTwice
  <2> QED
    BY <2>2, <2>5
<1>6. N \notin Failures
  <2>1. Failures \subseteq 0..N
    OBVIOUS
  <2> HIDE DEF Failures
  <2> QED
    BY <1>4, <1>5, <2>1, HoldsAtTheEnd
<1>7. Rounded(U, u[N], v[N], w[N])
  BY <1>6
<1> QED
  BY <1>1, <1>2, <1>3, <1>7, Zenon
-----------------------------------------------------------------------------
(***************************************************************************)
(* The files of a delivery, and the units that they take.                  *)
(***************************************************************************)
\* As many pairs with one first element as second ones.
LEMMA PairsCounted ==
  ASSUME NEW at, NEW n \in Nat
  PROVE  /\ IsFiniteSet({<<at, j>> : j \in 1..n})
         /\ Cardinality({<<at, j>> : j \in 1..n}) = n
<1> DEFINE Pairs == {<<at, j>> : j \in 1..n}
           pair == [j \in 1..n |-> <<at, j>>]
<1>1. pair \in Bijection(1..n, Pairs)
  BY DEF Bijection, Injection, Surjection, IsInjective
<1>2. ExistsBijection(1..n, Pairs)
  BY <1>1 DEF ExistsBijection
<1>3. IsFiniteSet(1..n) /\ Cardinality(1..n) = n
  BY FS_Interval
<1> HIDE DEF Pairs
<1>4. IsFiniteSet(Pairs) /\ Cardinality(Pairs) = n
  BY <1>2, <1>3, FS_Bijection
<1> QED
  BY <1>4 DEF Pairs

\* N operations, each with a sequence of files.
Shaped(ops, N) ==
    /\ N \in Nat
    /\ DOMAIN ops = 1..N
    /\ \A i \in 1..N : /\ Len(ops[i].files) \in Nat
                       /\ DOMAIN ops[i].files = 1..Len(ops[i].files)

\* The numbers of files of the upload operations add up to that of their
\* places.
LEMMA PlacesCounted ==
  ASSUME NEW ops, NEW N, Shaped(ops, N)
  PROVE  /\ IsFiniteSet(Places(ops))
         /\ Cardinality(Places(ops)) =
               TotalOfKind("upload", ops, FileCounts(ops))
<1> DEFINE up(i) == ops[i].kind = "upload"
           count(i) == Len(ops[i].files)
           part == [i \in 1..N |-> IF up(i) THEN {<<i, j>> : j \in 1..count(i)}
                                   ELSE {}]
           size == [i \in 1..N |-> IF up(i) THEN count(i) ELSE 0]
<1>1. N \in Nat /\ \A i \in 1..N : count(i) \in Nat
  BY DEF Shaped
<1>2. Places(ops) = UNION {part[i] : i \in 1..N}
  BY DEF Shaped, Places, Uploads
<1>3. TotalOfKind("upload", ops, FileCounts(ops)) = Total(size)
  <2>1. [i \in DOMAIN ops |->
            IF ops[i].kind = "upload" THEN FileCounts(ops)[i] ELSE 0] = size
    BY DEF Shaped, FileCounts
  <2> QED
    BY <2>1 DEF TotalOfKind
<1> HIDE DEF up, count
<1>4. ASSUME NEW i \in 1..N
      PROVE  IsFiniteSet(part[i]) /\ Cardinality(part[i]) = size[i]
  <2>1. CASE ~up(i)
    BY <2>1, FS_EmptySet
  <2>2. CASE up(i)
    <3>1. part[i] = {<<i, j>> : j \in 1..count(i)} /\ size[i] = count(i)
      BY <2>2
    <3>2. count(i) \in Nat
      BY <1>1
    <3>3. /\ IsFiniteSet({<<i, j>> : j \in 1..count(i)})
          /\ Cardinality({<<i, j>> : j \in 1..count(i)}) = count(i)
      BY <3>2, PairsCounted
    <3> HIDE DEF part, size
    <3> QED
      BY <3>1, <3>3
  <2> QED
    BY <2>1, <2>2
<1>5. \A m, n \in 1..N : m # n => part[m] \cap part[n] = {}
  OBVIOUS
<1>6. [i \in 1..N |-> Cardinality(part[i])] = size
  BY <1>4
<1> HIDE DEF part, size
<1> QED
  BY <1>1, <1>2, <1>3, <1>4, <1>5, <1>6, TotalOfParts

\* The sizes of the files, added up in each upload operation.
UploadSizes(ops, file) ==
    [i \in DOMAIN ops |->
        IF ops[i].kind = "upload"
        THEN Total([j \in DOMAIN ops[i].files |-> SizeOf(file[<<i, j>>])])
        ELSE 0]

\* They add up to the number of units that the files take.
LEMMA UnitsCounted ==
  ASSUME NEW ops, NEW N, Shaped(ops, N),
         NEW file, DOMAIN file = Places(ops),
         \A at \in Places(ops) : SizeOf(file[at]) \in Nat
  PROVE  /\ IsFiniteSet(Units(file))
         /\ Cardinality(Units(file)) = Total(UploadSizes(ops, file))
         /\ UploadSizes(ops, file) \in [1..N -> Nat]
<1> DEFINE up(i) == ops[i].kind = "upload"
           count(i) == Len(ops[i].files)
           size(i, j) == SizeOf(file[<<i, j>>])
           units(i, j) == {<<<<i, j>>, n>> : n \in 1..size(i, j)}
           part == [i \in 1..N |-> IF up(i) THEN UNION {units(i, j) : j \in 1..count(i)}
                                   ELSE {}]
<1>1. N \in Nat /\ \A i \in 1..N : count(i) \in Nat
  BY DEF Shaped
<1>2. \A i \in 1..N : up(i) => \A j \in 1..count(i) : size(i, j) \in Nat
  BY DEF Shaped, Places, Uploads
<1>3. Units(file) = UNION {part[i] : i \in 1..N}
  <2>1. Places(ops) = UNION {{<<i, j>> : j \in 1..count(i)} : i \in {k \in 1..N : up(k)}}
    BY DEF Shaped, Places, Uploads
  <2>2. Units(file) = UNION {{<<at, n>> : n \in 1..SizeOf(file[at])} : at \in Places(ops)}
    BY DEF Units
  <2> HIDE DEF up, count
  <2>3. ASSUME NEW u \in Units(file) PROVE \E i \in 1..N : u \in part[i]
    <3>1. PICK at \in Places(ops) : u \in {<<at, n>> : n \in 1..SizeOf(file[at])}
      BY <2>2
    <3>2. PICK i \in 1..N : up(i) /\ \E j \in 1..count(i) : at = <<i, j>>
      BY <2>1
    <3>3. PICK j \in 1..count(i) : at = <<i, j>>
      BY <3>2
    <3>4. u \in units(i, j)
      BY <3>1, <3>3
    <3> HIDE DEF units
    <3> QED
      BY <3>2, <3>4
  <2>4. ASSUME NEW i \in 1..N, NEW u \in part[i] PROVE u \in Units(file)
    <3>1. PICK j \in 1..count(i) : up(i) /\ u \in units(i, j)
      <4> HIDE DEF units
      <4> QED
        OBVIOUS
    <3>2. <<i, j>> \in Places(ops)
      BY <2>1, <3>1
    <3> QED
      BY <2>2, <3>1, <3>2
  <2> HIDE DEF part
  <2> QED
    BY <2>3, <2>4
<1>4. UploadSizes(ops, file) =
         [i \in 1..N |-> IF up(i) THEN Total([j \in 1..count(i) |-> size(i, j)])
                         ELSE 0]
  BY DEF Shaped, UploadSizes
<1> HIDE DEF up, count, size
<1>5. ASSUME NEW i \in 1..N
      PROVE  /\ IsFiniteSet(part[i])
             /\ Cardinality(part[i]) = UploadSizes(ops, file)[i]
  <2>1. CASE ~up(i)
    BY <1>4, <2>1, FS_EmptySet
  <2>2. CASE up(i)
    <3> DEFINE n == count(i)
               unit == [j \in 1..n |-> units(i, j)]
    <3>1. n \in Nat
      BY <1>1
    <3>2. \A j \in 1..n : IsFiniteSet(unit[j]) /\ Cardinality(unit[j]) = size(i, j)
      BY <1>2, <2>2, PairsCounted
    <3>3. \A j, k \in 1..n : j # k => unit[j] \cap unit[k] = {}
      OBVIOUS
    <3>4. part[i] = UNION {unit[j] : j \in 1..n}
      BY <2>2
    <3>5. UploadSizes(ops, file)[i] = Total([j \in 1..n |-> Cardinality(unit[j])])
      BY <1>4, <2>2, <3>2
    <3> HIDE DEF n, unit, part
    <3> QED
      BY <3>1, <3>2, <3>3, <3>4, <3>5, TotalOfParts
  <2> QED
    BY <2>1, <2>2
<1>6. \A m, n \in 1..N : m # n => part[m] \cap part[n] = {}
  OBVIOUS
<1> HIDE DEF part
<1>7. UploadSizes(ops, file) = [i \in 1..N |-> Cardinality(part[i])]
  BY <1>4, <1>5
<1>8. UploadSizes(ops, file) \in [1..N -> Nat]
  BY <1>5, <1>7, FS_CardinalityType
<1>9. /\ IsFiniteSet(UNION {part[i] : i \in 1..N})
      /\ Cardinality(UNION {part[i] : i \in 1..N}) =
            Total([i \in 1..N |-> Cardinality(part[i])])
  <2>1. \A i \in 1..N : IsFiniteSet(part[i])
    BY <1>5
  <2> QED
    BY <1>1, <1>6, <2>1, TotalOfParts
<1> QED
  BY <1>3, <1>7, <1>8, <1>9, Zenon

-----------------------------------------------------------------------------
(***************************************************************************)
(* The limits.                                                             *)
(***************************************************************************)
\* The operations of a call have files.
LEMMA RequestShaped ==
  ASSUME request \in Request
  PROVE  Shaped(request.operations, Len(request.operations))
<1>1. request.operations \in Seq(PendingOperation)
  BY RequestAssumption
<1>2. /\ Len(request.operations) \in Nat
      /\ DOMAIN request.operations = 1..Len(request.operations)
  BY <1>1
<1> QED
  BY <1>2, OperationShape DEF Shaped

\* The files that the validation let through have sizes.
LEMMA AcceptedSizes ==
  ASSUME ValidOperations(request.operations, request.product, request.dataset),
         NEW i \in Uploads(request.operations),
         NEW j \in DOMAIN request.operations[i].files
  PROVE  SizeOf(request.operations[i].files[j]) \in Nat
<1> DEFINE op == request.operations[i]
<1>1. InvalidReason(op.files[j], op.anchor, request.product, request.dataset)
         = "none"
  BY DEF ValidOperations, ValidOperation, ValidUploadFiles, Uploads
<1>2. PathOf(op.files[j]) \in DOMAIN Disk
  BY <1>1, FileAccepted DEF FileExists
<1> QED
  BY <1>2, LimitAssumption DEF SizeOf

\* The files of a list of operations, by their places.
FilesAt(ops) == [at \in Places(ops) |-> ops[at[1]].files[at[2]]]

LEMMA FileAt ==
  ASSUME NEW ops, NEW i \in Uploads(ops), NEW j \in DOMAIN ops[i].files
  PROVE  <<i, j>> \in Places(ops) /\ FilesAt(ops)[<<i, j>>] = ops[i].files[j]
<1>1. <<i, j>> \in Places(ops)
  BY DEF Places
<1> QED
  BY <1>1 DEF FilesAt

\* validate_delivery_sizes adds up the files of the uploads and the units of
\* storage that they take.
LEMMA SizesAdded ==
  ASSUME ManifestInv,
         ValidOperations(request.operations, request.product, request.dataset),
         ValidSizes(request.operations)
  PROVE  LET file == FilesAt(request.operations)
         IN  /\ IsFiniteSet(Units(file))
             /\ Cardinality(DOMAIN file) <= MaxNumberOfFiles
             /\ Cardinality(Units(file)) <= MaxDeliverySize
             /\ \A at \in DOMAIN file : SizeOf(file[at]) <= MaxFileSize
<1> DEFINE ops == request.operations
           file == FilesAt(ops)
           sizes == [i \in DOMAIN ops |-> TotalSize(ops[i].files)]
<1>1. Shaped(ops, Len(ops))
  BY RequestShaped DEF ManifestInv, CallInv
<1>2. \A at \in Places(ops) : \E i \in Uploads(ops) :
         \E j \in DOMAIN ops[i].files : at = <<i, j>>
  BY DEF Places
<1>3. \A i \in Uploads(ops) : \A j \in DOMAIN ops[i].files :
         file[<<i, j>>] = ops[i].files[j]
  BY FileAt
<1>4. DOMAIN file = Places(ops)
  BY DEF FilesAt
<1> HIDE DEF file
<1>5. \A at \in Places(ops) : SizeOf(file[at]) \in Nat
  BY <1>2, <1>3, AcceptedSizes
<1>6. TotalOfKind("upload", ops, sizes) = Total(UploadSizes(ops, file))
  <2>1. ASSUME NEW i \in DOMAIN ops, ops[i].kind = "upload"
        PROVE  sizes[i] =
                  Total([j \in DOMAIN ops[i].files |-> SizeOf(file[<<i, j>>])])
    <3>1. [j \in DOMAIN ops[i].files |-> SizeOf(ops[i].files[j])] =
             [j \in DOMAIN ops[i].files |-> SizeOf(file[<<i, j>>])]
      BY <1>3, <2>1 DEF Uploads
    <3> QED
      BY <3>1 DEF TotalSize
  <2> HIDE DEF ops, sizes
  <2>2. [i \in DOMAIN ops |-> IF ops[i].kind = "upload" THEN sizes[i] ELSE 0] =
           UploadSizes(ops, file)
    BY <2>1 DEF UploadSizes
  <2> QED
    BY <2>2 DEF TotalOfKind
<1>7. /\ TotalOfKind("upload", ops, FileCounts(ops)) <= MaxNumberOfFiles
      /\ TotalOfKind("upload", ops, sizes) <= MaxDeliverySize
      /\ \A i \in Uploads(ops) : \A j \in DOMAIN ops[i].files :
            SizeOf(ops[i].files[j]) <= MaxFileSize
  BY DEF ValidSizes, Uploads
<1> HIDE DEF ops, sizes
<1>8. Cardinality(DOMAIN file) <= MaxNumberOfFiles
  BY <1>1, <1>4, <1>7, PlacesCounted
<1>9. /\ IsFiniteSet(Units(file))
      /\ Cardinality(Units(file)) = Total(UploadSizes(ops, file))
  BY <1>1, <1>4, <1>5, UnitsCounted
<1>10. \A at \in DOMAIN file : SizeOf(file[at]) <= MaxFileSize
  BY <1>2, <1>3, <1>4, <1>7
<1> QED
  BY <1>6, <1>7, <1>8, <1>9, <1>10 DEF ops, file

\* Nothing reaches the bucket when the uploads of the whole call exceed a
\* limit, whatever each of them does: what is written was checked, and the
\* sums that were checked count all the files and all their units.
THEOREM LimitsAreKept == RunSpec => []LimitsKept
<1>1. ManifestInv => LimitsKept
  <2> SUFFICES ASSUME ManifestInv, \E k \in Key : bucket[k] # NoObject
               PROVE  LimitsKept
    BY DEF LimitsKept
  <2>1. ValidOperations(request.operations, request.product, request.dataset)
    BY WrittenIsChecked
  <2>2. ValidSizes(request.operations)
    BY DEF ManifestInv, NothingBeforeChecks, ChecksPassed
  <2> QED
    BY <2>1, <2>2, SizesAdded DEF LimitsKept, FilesAt
<1> QED
  BY <1>1, ManifestInvariant, PTL

-----------------------------------------------------------------------------
(***************************************************************************)
(* What the response and the delivery count.                               *)
(***************************************************************************)
\* When its operations are done, a call has an entry of the manifest and of
\* the response for each of them.
LEMMA OperationsWhole ==
  ASSUME ManifestInv, Passed("operations")
  PROVE  /\ index \in Nat
         /\ DOMAIN operations = 1..index
         /\ DOMAIN responses = 1..index
         /\ Shaped(request.operations, index)
         /\ DOMAIN request.operations = 1..index
         /\ ValidOperations(request.operations, request.product, request.dataset)
<1>1. index = Len(request.operations)
  BY DEF ManifestInv, ChecksPassed
<1>2. Shaped(request.operations, index)
  BY <1>1, RequestShaped DEF ManifestInv, CallInv
<1>3. ValidOperations(request.operations, request.product, request.dataset)
  BY StagesPassed DEF ManifestInv, CallInv, ChecksPassed
<1>4. DOMAIN operations = 1..index /\ DOMAIN responses = 1..index
  BY DEF ManifestInv, Sequences
<1> QED
  BY <1>2, <1>3, <1>4 DEF Shaped

\* An upload that is done, with the paths that were uploaded.
LEMMA UploadDone ==
  ASSUME ManifestInv, NEW i \in 1..index, i \in Uploads(request.operations)
  PROVE  \E won \in SUBSET DOMAIN MappingOf(request.operations[i]) :
            DoneWith(i, won) /\ (~request.dry => Won(i, won))
  BY DEF ManifestInv, ManifestSoFar, Uploads

\* A delete that is done.
LEMMA DeleteDone ==
  ASSUME ManifestInv, NEW i \in 1..index, i \in DOMAIN request.operations,
         i \notin Uploads(request.operations)
  PROVE  operations[i].kind = "delete" /\ responses[i] = operations[i]
<1>1. request.operations[i].kind = "delete"
  BY OperationShape DEF ManifestInv, CallInv, Uploads
<1>2. /\ operations[i] = DeleteOperation(request.operations[i])
      /\ responses[i] = operations[i]
  BY <1>1 DEF ManifestInv, ManifestSoFar
<1>3. DeleteOperation(request.operations[i]).kind = "delete"
  BY DEF DeleteOperation
<1> QED
  BY <1>2, <1>3

\* The delivery has an upload for each one that was asked for.
LEMMA SameUploads ==
  ASSUME ManifestInv, Passed("operations")
  PROVE  Uploads(operations) = Uploads(request.operations)
<1>1. DOMAIN operations = 1..index /\ DOMAIN request.operations = 1..index
  BY OperationsWhole
<1>2. ASSUME NEW i \in 1..index
      PROVE  operations[i].kind = "upload" <=> i \in Uploads(request.operations)
  <2>1. i \in Uploads(request.operations) => operations[i].kind = "upload"
    BY UploadDone DEF DoneWith
  <2>2. i \notin Uploads(request.operations) => operations[i].kind = "delete"
    BY <1>1, DeleteDone
  <2> QED
    BY <2>1, <2>2
<1> QED
  BY <1>1, <1>2 DEF Uploads

\* The wanted elements of a sequence without duplicates have none.
LEMMA OnlyDistinct ==
  ASSUME NEW S, NEW seq \in Seq(S), NEW wanted, ~HasDuplicates(seq)
  PROVE  Only(seq, wanted) \in Seq(S) /\ ~HasDuplicates(Only(seq, wanted))
<1> DEFINE only == Only(seq, wanted)
<1>1. only \in Seq(S)
  BY OnlyLists
<1>2. PICK place : Lists(only, place, Len(seq), seq, wanted)
  BY OnlyLists
<1>3. DOMAIN only = 1..Len(only) /\ DOMAIN seq = 1..Len(seq) /\ Len(only) \in Nat
  BY <1>1
<1> HIDE DEF only
<1>4. ASSUME NEW j \in DOMAIN only, NEW k \in DOMAIN only, j < k
      PROVE  only[j] # only[k]
  <2>1. /\ place[j] \in DOMAIN seq /\ place[k] \in DOMAIN seq
        /\ place[j] < place[k]
        /\ only[j] = seq[place[j]] /\ only[k] = seq[place[k]]
    BY <1>2, <1>3, <1>4 DEF Lists
  <2>2. place[j] # place[k]
    BY <1>3, <2>1
  <2> QED
    BY <2>1, <2>2 DEF HasDuplicates
<1>5. ~HasDuplicates(only)
  <2> SUFFICES ASSUME NEW j \in DOMAIN only, NEW k \in DOMAIN only, j # k
               PROVE  only[j] # only[k]
    BY DEF HasDuplicates
  <2>1. j < k \/ k < j
    BY <1>3
  <2> QED
    BY <1>4, <2>1
<1> QED
  BY <1>1, <1>5 DEF only

\* The files of an upload that is done are counted once each, in the delivery
\* or among the failed ones.
LEMMA UploadCounted ==
  ASSUME ManifestInv, PathsNormalised, Passed("operations"),
         NEW i \in Uploads(request.operations)
  PROVE  /\ operations[i].kind = "upload" /\ responses[i].kind = "upload"
         /\ Len(operations[i].files) \in Nat
         /\ Cardinality(responses[i].uploaded) = Len(operations[i].files)
         /\ IsFiniteSet(responses[i].failed)
         /\ Cardinality(responses[i].failed) \in Nat
         /\ Cardinality(responses[i].uploaded)
               + Cardinality(responses[i].failed) =
               Len(request.operations[i].files)
<1> DEFINE op == request.operations[i]
           asked == op.files
           m == MappingOf(op)
<1>1. i \in 1..index /\ i \in DOMAIN request.operations /\ op.kind = "upload"
  BY OperationsWhole DEF Uploads
<1>2. PICK won \in SUBSET DOMAIN m : DoneWith(i, won)
  BY <1>1, UploadDone
<1> DEFINE files == Only(asked, won)
<1>3. asked \in Seq(RawPath) /\ ~HasDuplicates(asked)
  <2>1. ValidOperation(op, request.product, request.dataset)
    BY <1>1, OperationsWhole DEF ValidOperations
  <2> QED
    BY <1>1, <2>1, OperationShape
    DEF ManifestInv, CallInv, ValidOperation, ValidUploadFiles
<1>4. /\ DOMAIN m = ToSet(asked)
      /\ {files[j] : j \in DOMAIN files} = won
  BY NormalisedFiles
<1>5. /\ operations[i].kind = "upload" /\ responses[i].kind = "upload"
      /\ DOMAIN operations[i].files = DOMAIN files
      /\ responses[i].uploaded = {<<p, ResponseSuffix(m[p])>> : p \in won}
      /\ responses[i].failed = DOMAIN m \ won
  BY <1>2 DEF DoneWith
<1> HIDE DEF op, asked, m
<1>6. files \in Seq(RawPath) /\ ~HasDuplicates(files)
  BY <1>3, OnlyDistinct
<1>7. IsFiniteSet(DOMAIN m) /\ Cardinality(DOMAIN m) = Len(asked)
  BY <1>3, <1>4, DistinctFiles
<1>8. Cardinality(won) = Len(files)
  <2>1. ToSet(files) = won
    BY <1>4 DEF ToSet
  <2> HIDE DEF files
  <2> QED
    BY <1>6, <2>1, DistinctFiles
<1>9. Len(operations[i].files) = Len(files) /\ Len(files) \in Nat
  <2>1. DOMAIN files = 1..Len(files) /\ Len(files) \in Nat
    <3> HIDE DEF files
    <3> QED
      BY <1>6
  <2>2. operations[i].files =
           [j \in DOMAIN files |-> operations[i].files[j]]
    BY <1>2 DEF DoneWith, asked, op
  <2> HIDE DEF files
  <2> QED
    BY <2>1, <2>2
<1> HIDE DEF files
<1>10. Cardinality(responses[i].uploaded) = Cardinality(won)
  <2> DEFINE pair == [p \in won |-> <<p, ResponseSuffix(m[p])>>]
  <2>1. pair \in Bijection(won, responses[i].uploaded)
    BY <1>5 DEF Bijection, Injection, Surjection, IsInjective
  <2>2. IsFiniteSet(won) /\ ExistsBijection(won, responses[i].uploaded)
    <3> HIDE DEF pair
    <3> QED
      BY <1>7, <2>1, FS_Subset DEF ExistsBijection
  <2> QED
    BY <2>2, FS_Bijection
<1>11. /\ IsFiniteSet(DOMAIN m \ won)
       /\ Cardinality(DOMAIN m \ won) \in Nat
       /\ Cardinality(won) + Cardinality(DOMAIN m \ won) = Cardinality(DOMAIN m)
  <2>1. IsFiniteSet(won) /\ IsFiniteSet(DOMAIN m \ won)
    BY <1>7, FS_Subset
  <2>2. Cardinality(won) \in Nat /\ Cardinality(DOMAIN m \ won) \in Nat
    BY <2>1, FS_CardinalityType
  <2>3. won \cup (DOMAIN m \ won) = DOMAIN m /\ won \cap (DOMAIN m \ won) = {}
    OBVIOUS
  <2>4. Cardinality(DOMAIN m) =
           Cardinality(won) + Cardinality(DOMAIN m \ won) - Cardinality({})
    BY <2>1, <2>3, FS_Union
  <2> QED
    BY <2>1, <2>2, <2>4, FS_EmptySet
<1> QED
  BY <1>5, <1>7, <1>8, <1>9, <1>10, <1>11 DEF asked, op

\* What the response counts of each operation, and what the delivery counts.
LEMMA ResponseCounted ==
  ASSUME ManifestInv, PathsNormalised, Passed("operations"), NEW i \in 1..index
  PROVE  LET counts == ResponseCounts(responses[i])
             up == i \in Uploads(request.operations)
         IN  /\ counts.uploads \in Nat /\ counts.failed_uploads \in Nat
             /\ counts.uploads = IF operations[i].kind = "upload"
                                 THEN Len(operations[i].files) ELSE 0
             /\ counts.deletes = IF operations[i].kind = "delete"
                                 THEN Len(operations[i].files) ELSE 0
             /\ counts.uploads + counts.failed_uploads =
                   IF up THEN Len(request.operations[i].files) ELSE 0
             /\ counts.failed_uploads =
                   IF up THEN Cardinality(responses[i].failed) ELSE 0
<1>1. CASE i \in Uploads(request.operations)
  <2>1. /\ operations[i].kind = "upload" /\ responses[i].kind = "upload"
        /\ Len(operations[i].files) \in Nat
        /\ Cardinality(responses[i].uploaded) = Len(operations[i].files)
        /\ Cardinality(responses[i].failed) \in Nat
        /\ Cardinality(responses[i].uploaded)
              + Cardinality(responses[i].failed) =
              Len(request.operations[i].files)
    BY <1>1, UploadCounted
  <2> QED
    BY <1>1, <2>1 DEF ResponseCounts
<1>2. CASE i \notin Uploads(request.operations)
  <2>1. operations[i].kind = "delete" /\ responses[i] = operations[i]
    BY <1>2, OperationsWhole, DeleteDone
  <2> QED
    BY <1>2, <2>1 DEF ResponseCounts
<1> QED
  BY <1>1, <1>2

\* The response counts what the delivery contains, and with the failed uploads
\* every file that the user gave.
THEOREM CountsDoAgree == RunSpec => []CountsAgree
<1>1. ManifestInv => CountsAgree
  <2> SUFFICES ASSUME ManifestInv, outcome = "done", PathsNormalised
               PROVE  CountsAgree
    BY DEF CountsAgree
  <2>1. Passed("operations")
    BY DEF ManifestInv, ChecksPassed
  <2> DEFINE ops == request.operations
             uploads == [i \in 1..index |-> ResponseCounts(responses[i]).uploads]
             lost ==
                 [i \in 1..index |-> ResponseCounts(responses[i]).failed_uploads]
             deletes == [i \in 1..index |-> ResponseCounts(responses[i]).deletes]
             asked == [i \in 1..index |-> IF ops[i].kind = "upload"
                                          THEN Len(ops[i].files) ELSE 0]
  <2>2. /\ index \in Nat
        /\ DOMAIN operations = 1..index /\ DOMAIN responses = 1..index
        /\ Shaped(ops, index) /\ DOMAIN ops = 1..index
    BY <2>1, OperationsWhole
  <2>3. /\ ResponseSummary.uploads = Total(uploads)
        /\ ResponseSummary.failed_uploads = Total(lost)
        /\ ResponseSummary.deletes = Total(deletes)
    <3> DEFINE counts == [i \in DOMAIN responses |-> ResponseCounts(responses[i])]
    <3>1. /\ [i \in DOMAIN counts |-> counts[i].uploads] = uploads
          /\ [i \in DOMAIN counts |-> counts[i].failed_uploads] = lost
          /\ [i \in DOMAIN counts |-> counts[i].deletes] = deletes
      BY <2>2
    <3> HIDE DEF uploads, lost, deletes
    <3> QED
      BY <3>1 DEF ResponseSummary
  <2>4. /\ DeliverySummary.total_uploads = Total(uploads)
        /\ DeliverySummary.total_deletes = Total(deletes)
    <3>1. [i \in DOMAIN operations |->
              IF operations[i].kind = "upload" THEN FileCounts(operations)[i]
              ELSE 0] = uploads
      BY <2>1, <2>2, ResponseCounted DEF FileCounts
    <3>2. [i \in DOMAIN operations |->
              IF operations[i].kind = "delete" THEN FileCounts(operations)[i]
              ELSE 0] = deletes
      BY <2>1, <2>2, ResponseCounted DEF FileCounts
    <3> HIDE DEF uploads, deletes
    <3> QED
      BY <3>1, <3>2 DEF DeliverySummary, TotalOfKind
  <2>5. Total(uploads) + Total(lost) = Total(asked)
    <3>1. ASSUME NEW i \in 1..index
          PROVE  /\ uploads[i] \in Nat /\ lost[i] \in Nat
                 /\ asked[i] = uploads[i] + lost[i]
      <4>1. i \in Uploads(ops) <=> ops[i].kind = "upload"
        BY <2>2 DEF Uploads
      <4> QED
        BY <2>1, <4>1, ResponseCounted
    <3>2. /\ uploads \in [1..index -> Nat] /\ lost \in [1..index -> Nat]
          /\ asked \in [1..index -> Nat]
      BY <2>2, <3>1 DEF Shaped
    <3> HIDE DEF uploads, lost, asked
    <3> QED
      BY <2>2, <3>1, <3>2, TotalOfSums
  <2>6. Total(asked) = Cardinality(Places(ops))
    <3>1. [i \in DOMAIN ops |->
              IF ops[i].kind = "upload" THEN FileCounts(ops)[i] ELSE 0] = asked
      BY <2>2 DEF FileCounts
    <3> HIDE DEF asked, ops
    <3>2. TotalOfKind("upload", ops, FileCounts(ops)) = Total(asked)
      BY <3>1 DEF TotalOfKind
    <3> QED
      BY <2>2, <3>2, PlacesCounted
  <2> HIDE DEF uploads, lost, deletes, asked
  <2> QED
    BY <2>3, <2>4, <2>5, <2>6 DEF CountsAgree
<1> QED
  BY <1>1, ManifestInvariant, PTL

-----------------------------------------------------------------------------
(***************************************************************************)
(* The warning that files are missing.                                     *)
(***************************************************************************)
\* A call is said to have completed with errors when one of its uploads has
\* lost a file.
LEMMA ErrorsAreFailures ==
  ASSUME ManifestInv, PathsNormalised, Passed("operations")
  PROVE  CompletedWithErrors <=>
            \E i \in Uploads(request.operations) : responses[i].failed # {}
<1> DEFINE lost == [i \in 1..index |->
                       ResponseCounts(responses[i]).failed_uploads]
<1>1. /\ index \in Nat
      /\ DOMAIN responses = 1..index /\ DOMAIN request.operations = 1..index
  BY OperationsWhole
<1>2. ASSUME NEW i \in 1..index
      PROVE  /\ lost[i] \in Nat
             /\ lost[i] # 0 <=> /\ i \in Uploads(request.operations)
                                /\ responses[i].failed # {}
  <2>1. /\ lost[i] \in Nat
        /\ lost[i] = IF i \in Uploads(request.operations)
                     THEN Cardinality(responses[i].failed) ELSE 0
    BY ResponseCounted
  <2>2. i \in Uploads(request.operations) => IsFiniteSet(responses[i].failed)
    BY UploadCounted
  <2> HIDE DEF lost
  <2> QED
    BY <2>1, <2>2, FS_EmptySet
<1>3. ResponseSummary.failed_uploads = Total(lost)
  <2> DEFINE counts == [i \in DOMAIN responses |-> ResponseCounts(responses[i])]
  <2>1. [i \in DOMAIN counts |-> counts[i].failed_uploads] = lost
    BY <1>1
  <2> HIDE DEF lost
  <2> QED
    BY <2>1 DEF ResponseSummary
<1>4. lost \in [1..index -> Nat]
  BY <1>2
<1> HIDE DEF lost
<1>5. Total(lost) \in Nat /\ (Total(lost) = 0 <=> \A i \in 1..index : lost[i] = 0)
  BY <1>1, <1>4, TotalOfNothing
<1>6. Uploads(request.operations) \subseteq 1..index
  BY <1>1 DEF Uploads
<1> QED
  BY <1>2, <1>3, <1>5, <1>6 DEF CompletedWithErrors

\* The key_suffix of a file that was uploaded is that of no other file of the
\* operation, even one that obstore would not take.
LEMMA OthersDiffer ==
  ASSUME ManifestInv, PathsNormalised, UniqueKeys,
         ValidOperations(request.operations, request.product, request.dataset),
         NEW i \in Uploads(request.operations),
         NEW p \in DOMAIN MappingOf(request.operations[i]),
         NEW q \in DOMAIN MappingOf(request.operations[i]),
         MappingOf(request.operations[i])[q] \in LegalKey,
         ManifestSuffix(MappingOf(request.operations[i])[p], request.dataset) =
             ManifestSuffix(MappingOf(request.operations[i])[q], request.dataset)
  PROVE  p = q
<1> DEFINE op == request.operations[i]
           m == MappingOf(op)
           did == DeliveryId
           pid == request.product
           ds == request.dataset
<1>1. i \in DOMAIN request.operations /\ op.kind = "upload"
  BY DEF Uploads
<1>2. /\ op.files \in Seq(RawPath)
      /\ DOMAIN op.files = 1..Len(op.files) /\ Len(op.files) \in Nat
      /\ \A j \in DOMAIN op.files : op.files[j] \in Seq(STRING) \ {<<>>}
  BY <1>1, OperationShape DEF ManifestInv, CallInv
<1>3. ASSUME NEW j \in DOMAIN op.files
      PROVE  LET suffix == LocalPathToKeySuffix(op.files[j], op.anchor)
             IN  /\ suffix \in Seq(STRING) /\ suffix # <<>>
                 /\ \/ suffix = <<".">>
                    \/ \A n \in DOMAIN suffix : suffix[n] \in Meaningful
  <2>1. InvalidReason(op.files[j], op.anchor, pid, ds) = "none"
    BY <1>1 DEF ValidOperations, ValidOperation, ValidUploadFiles
  <2>2. op.anchor = NoAnchor \/ HasPart(op.files[j], op.anchor)
    BY <2>1, AnchorAccepted
  <2>3. op.anchor = NoAnchor => ~AnchorGiven(op.anchor)
    BY Zenon DEF AnchorGiven
  <2>4. op.anchor = NoAnchor => ~IsAbsolute(op.files[j])
    BY <2>1, <2>3, FileAccepted
  <2>5. PathOf(op.files[j]) = op.files[j]
    BY DEF PathsNormalised
  <2> HIDE DEF op
  <2>6. LocalPathToKeySuffix(op.files[j], op.anchor) \in Seq(STRING) \ {<<>>}
    BY <1>2, <2>2, KeySuffixType
  <2>7. \/ LocalPathToKeySuffix(op.files[j], op.anchor) = <<".">>
        \/ \A n \in DOMAIN LocalPathToKeySuffix(op.files[j], op.anchor) :
              LocalPathToKeySuffix(op.files[j], op.anchor)[n] \in Meaningful
    BY <1>2, <2>2, <2>4, <2>5, CleanSuffix
  <2> QED
    BY <2>6, <2>7, Zenon
<1> HIDE DEF op
<1>4. PICK j \in DOMAIN op.files :
         m[p] = KeyOf(LocalPathToKeySuffix(op.files[j], op.anchor))
  BY <1>2, MappingOfPath DEF op
<1>5. PICK k \in DOMAIN op.files :
         m[q] = KeyOf(LocalPathToKeySuffix(op.files[k], op.anchor))
  BY <1>2, MappingOfPath DEF op
<1> DEFINE other == LocalPathToKeySuffix(op.files[j], op.anchor)
           clean == LocalPathToKeySuffix(op.files[k], op.anchor)
<1>6. /\ other \in Seq(STRING)
      /\ other = <<".">> \/ \A n \in DOMAIN other : other[n] \in Meaningful
  BY <1>3, Zenon
<1>7. clean \in Seq(STRING) /\ clean # <<>>
  BY <1>3, Zenon
<1>8. \A n \in DOMAIN m[q] : m[q][n] \in Meaningful
  BY LegalKeyAssumption DEF op
<1>9. /\ did \in STRING /\ pid \in STRING /\ ds \in STRING /\ "data" \in STRING
      /\ ds # NoAnchor
  BY RequestAssumption, StringAssumption DEF ManifestInv, CallInv
<1>10. m[p] # m[q] => p # q
  OBVIOUS
<1>11. m[p] = m[q] => p = q
  BY DEF UniqueKeys, op
<1>12. ManifestSuffix(m[p], ds) = ManifestSuffix(m[q], ds)
  BY DEF op
<1> HIDE DEF m, did, pid, ds, other, clean
<1>13. m[p] = S3Key(did, pid, ds, other) /\ m[q] = S3Key(did, pid, ds, clean)
  BY <1>4, <1>5, Zenon DEF KeyOf, did, pid, ds, other, clean
<1>14. /\ did \in Meaningful /\ pid \in Meaningful /\ ds \in Meaningful
       /\ "data" \in Meaningful
       /\ \A n \in DOMAIN clean : clean[n] \in Meaningful
  <2> DEFINE key == S3Key(did, pid, ds, clean)
  <2>1. /\ key \in Seq(STRING) /\ Len(key) = Len(clean) + 4
        /\ key[1] = "data" /\ key[2] = did /\ key[3] = pid /\ key[4] = ds
        /\ \A n \in 1..Len(clean) : key[n + 4] = clean[n]
    BY <1>7, <1>9, KeyShape
  <2>2. \A n \in DOMAIN key : key[n] \in Meaningful
    BY <1>8, <1>13
  <2> HIDE DEF key
  <2>3. /\ {1, 2, 3, 4} \subseteq DOMAIN key
        /\ DOMAIN clean = 1..Len(clean)
        /\ \A n \in 1..Len(clean) : n + 4 \in DOMAIN key
    BY <1>7, <2>1
  <2>4. \A n \in DOMAIN clean : clean[n] \in Meaningful
    BY <2>1, <2>2, <2>3
  <2> QED
    BY <2>1, <2>2, <2>3, <2>4
<1>15. other = clean
  BY <1>6, <1>7, <1>9, <1>12, <1>13, <1>14, SuffixesDiffer
<1> QED
  BY <1>11, <1>13, <1>15

\* A file that is missing from the delivery is warned of; and a warning means
\* that a file is missing, when no two files have one key.
THEOREM MissingIsWarned == RunSpec => []IncompleteIsWarned
<1>1. ManifestInv => IncompleteIsWarned
  <2> SUFFICES ASSUME ManifestInv, outcome = "done", PathsNormalised
               PROVE  IncompleteIsWarned
    BY DEF IncompleteIsWarned
  <2> DEFINE ops == request.operations
             m(i) == MappingOf(ops[i])
             suffix(i, p) == ManifestSuffix(m(i)[p], request.dataset)
             Missing(i, file) ==
                 \A j \in DOMAIN operations[i].files :
                    operations[i].files[j].key_suffix # suffix(i, PathOf(file))
  <2>1. Passed("operations")
    BY DEF ManifestInv, ChecksPassed
  <2>2. /\ DOMAIN operations = 1..index /\ DOMAIN ops = 1..index
        /\ ValidOperations(ops, request.product, request.dataset)
    BY <2>1, OperationsWhole
  <2>3. Uploads(operations) = Uploads(ops)
    BY <2>1, SameUploads
  <2>4. ASSUME NEW i \in Uploads(ops), NEW file \in ToSet(ops[i].files),
               Missing(i, file)
        PROVE  responses[i].failed # {}
    <3>1. i \in 1..index
      BY <2>2 DEF Uploads
    <3>2. PICK won \in SUBSET DOMAIN m(i) : DoneWith(i, won)
      BY <3>1, UploadDone
    <3> DEFINE files == Only(ops[i].files, won)
    <3>3. /\ file \in DOMAIN m(i) /\ PathOf(file) = file
          /\ {files[j] : j \in DOMAIN files} = won
      BY NormalisedFiles
    <3>4. /\ DOMAIN operations[i].files = DOMAIN files
          /\ \A j \in DOMAIN files :
                operations[i].files[j].key_suffix = suffix(i, files[j])
          /\ responses[i].failed = DOMAIN m(i) \ won
      BY <3>2 DEF DoneWith
    <3> HIDE DEF files, suffix, m
    <3>5. file \notin won
      BY <2>4, <3>3, <3>4
    <3> QED
      BY <3>3, <3>4, <3>5
  <2>5. ASSUME UniqueKeys, NEW i \in Uploads(ops), responses[i].failed # {}
        PROVE  \E file \in ToSet(ops[i].files) : Missing(i, file)
    <3>1. i \in 1..index
      BY <2>2 DEF Uploads
    <3>2. PICK won \in SUBSET DOMAIN m(i) :
             DoneWith(i, won) /\ (~request.dry => Won(i, won))
      BY <3>1, UploadDone
    <3> DEFINE files == Only(ops[i].files, won)
    <3>3. /\ DOMAIN m(i) = ToSet(ops[i].files)
          /\ \A f \in ToSet(ops[i].files) : PathOf(f) = f
          /\ {files[j] : j \in DOMAIN files} = won
      BY NormalisedFiles
    <3>4. /\ DOMAIN operations[i].files = DOMAIN files
          /\ \A j \in DOMAIN files :
                operations[i].files[j].key_suffix = suffix(i, files[j])
          /\ responses[i].failed = DOMAIN m(i) \ won
          /\ request.dry => won = DOMAIN m(i)
      BY <3>2 DEF DoneWith
    <3>5. PICK p \in DOMAIN m(i) : p \notin won
      BY <2>5, <3>4
    <3>6. \A q \in won : m(i)[q] \in LegalKey
      BY <3>2, <3>4, <3>5 DEF Won
    <3>7. \A q \in won : suffix(i, p) # suffix(i, q)
      BY <2>2, <2>5, <3>5, <3>6, OthersDiffer
    <3> HIDE DEF files, suffix, m
    <3>8. Missing(i, p)
      BY <3>3, <3>4, <3>5, <3>7
    <3> QED
      BY <3>3, <3>5, <3>8
  <2>6. CompletedWithErrors <=>
           \E i \in Uploads(ops) : responses[i].failed # {}
    BY <2>1, ErrorsAreFailures
  <2>7. /\ (\E i \in Uploads(ops) : \E file \in ToSet(ops[i].files) :
               Missing(i, file)) => CompletedWithErrors
        /\ UniqueKeys /\ CompletedWithErrors =>
               \E i \in Uploads(ops) : \E file \in ToSet(ops[i].files) :
                  Missing(i, file)
    <3> HIDE DEF Missing
    <3> QED
      BY <2>4, <2>5, <2>6
  <2> QED
    BY <2>3, <2>7 DEF IncompleteIsWarned
<1> QED
  BY <1>1, ManifestInvariant, PTL

-----------------------------------------------------------------------------
(***************************************************************************)
(* The volume that is declared.                                            *)
(***************************************************************************)
\* Whole megabytes are rounded down.
LEMMA MegabytesRounded ==
  ASSUME NEW U \in Nat \ {0}, NEW size \in Nat
  PROVE  size \div U \in Nat /\ Rounded(U, size \div U, size, 1)
<1>1. /\ size \div U \in Nat
      /\ U * (size \div U) <= size
      /\ size < U * (size \div U) + U
  OBVIOUS
<1>2. U * (size \div U) \in Nat /\ U * 1 = U
  BY <1>1
<1> QED
  BY <1>1, <1>2 DEF Rounded

\* As many ones as there are add up to their number.
LEMMA TotalOfOnes ==
  ASSUME NEW N \in Nat
  PROVE  Total([n \in 1..N |-> 1]) = N
<1> DEFINE part == [n \in 1..N |-> {n}]
<1>1. /\ \A n \in 1..N : IsFiniteSet(part[n]) /\ Cardinality(part[n]) = 1
      /\ \A m, n \in 1..N : m # n => part[m] \cap part[n] = {}
  BY FS_Singleton
<1>2. UNION {part[n] : n \in 1..N} = 1..N
  OBVIOUS
<1>3. Cardinality(1..N) = N
  BY FS_Interval
<1> HIDE DEF part
<1>4. Cardinality(UNION {part[n] : n \in 1..N}) =
         Total([n \in 1..N |-> Cardinality(part[n])])
  BY <1>1, TotalOfParts
<1>5. [n \in 1..N |-> Cardinality(part[n])] = [n \in 1..N |-> 1]
  BY <1>1
<1> QED
  BY <1>2, <1>3, <1>4, <1>5, Zenon

\* Where the files of an upload stood among those that were asked for, and
\* what is declared of each.
Stood(i, place) ==
    LET done == operations[i].files
        asked == request.operations[i].files
    IN  /\ place \in [1..Len(done) -> 1..Len(asked)]
        /\ \A j, k \in 1..Len(done) : place[j] = place[k] => j = k
        /\ \A j \in 1..Len(done) :
              /\ done[j].checksum = asked[place[j]]
              /\ done[j].file_size_mb = SizeOf(asked[place[j]]) \div UnitsPerMB

LEMMA UploadStood ==
  ASSUME ManifestInv, Passed("operations"), ~request.dry,
         NEW i \in Uploads(request.operations)
  PROVE  /\ Len(operations[i].files) \in Nat
         /\ DOMAIN operations[i].files = 1..Len(operations[i].files)
         /\ \E place : Stood(i, place)
<1> DEFINE asked == request.operations[i].files
           done == operations[i].files
<1>1. i \in 1..index /\ i \in DOMAIN request.operations
  BY OperationsWhole DEF Uploads
<1>2. PICK won : DoneWith(i, won)
  BY <1>1, UploadDone
<1> DEFINE files == Only(asked, won)
<1>3. asked \in Seq(RawPath) /\ Len(asked) \in Nat
  BY <1>1, OperationShape DEF ManifestInv, CallInv
<1>4. /\ done = [j \in DOMAIN files |-> done[j]]
      /\ \A j \in DOMAIN files :
            /\ done[j].checksum = files[j]
            /\ done[j].file_size_mb = SizeOf(files[j]) \div UnitsPerMB
  BY <1>2 DEF DoneWith
<1> HIDE DEF asked, done
<1>5. files \in Seq(RawPath)
  BY <1>3, OnlyLists
<1>6. PICK place : Lists(files, place, Len(asked), asked, won)
  BY <1>3, OnlyLists
<1> HIDE DEF files
<1>7. DOMAIN files = 1..Len(files) /\ Len(files) \in Nat
  BY <1>5
<1>8. Len(done) = Len(files) /\ DOMAIN done = 1..Len(done)
  BY <1>4, <1>7
<1>9. /\ place \in [1..Len(files) -> 1..Len(asked)]
      /\ \A j \in 1..Len(files) : files[j] = asked[place[j]]
      /\ \A j, k \in 1..Len(files) : j < k => place[j] < place[k]
  BY <1>6 DEF Lists
<1>10. \A j, k \in 1..Len(files) : place[j] = place[k] => j = k
  <2> SUFFICES ASSUME NEW j \in 1..Len(files), NEW k \in 1..Len(files), j # k
               PROVE  place[j] # place[k]
    OBVIOUS
  <2>1. j < k \/ k < j
    BY <1>7
  <2>2. place[j] \in 1..Len(asked) /\ place[k] \in 1..Len(asked)
    BY <1>9
  <2> QED
    BY <1>3, <1>9, <2>1, <2>2
<1>11. Stood(i, place)
  BY <1>4, <1>7, <1>8, <1>9, <1>10 DEF Stood, asked, done
<1> QED
  BY <1>7, <1>8, <1>11 DEF done

\* The operations of the manifest have files, too.
LEMMA ManifestShaped ==
  ASSUME ManifestInv, Passed("operations"), ~request.dry
  PROVE  Shaped(operations, index)
<1>1. index \in Nat /\ DOMAIN operations = 1..index
      /\ DOMAIN request.operations = 1..index
  BY OperationsWhole
<1>2. ASSUME NEW i \in 1..index
      PROVE  /\ Len(operations[i].files) \in Nat
             /\ DOMAIN operations[i].files = 1..Len(operations[i].files)
  <2>1. CASE i \in Uploads(request.operations)
    BY <2>1, UploadStood
  <2>2. CASE i \notin Uploads(request.operations)
    <3> DEFINE asked == request.operations[i].files
               done == operations[i].files
    <3>1. Len(asked) \in Nat /\ DOMAIN asked = 1..Len(asked)
      BY <1>1, OperationShape DEF ManifestInv, CallInv
    <3>2. request.operations[i].kind = "delete"
      BY <1>1, <2>2, OperationShape DEF ManifestInv, CallInv, Uploads
    <3>3. operations[i] = DeleteOperation(request.operations[i])
      BY <3>2 DEF ManifestInv, ManifestSoFar
    <3>4. done = [j \in DOMAIN asked |-> [key_suffix |-> asked[j]]]
      BY <3>3 DEF DeleteOperation
    <3> HIDE DEF asked, done
    <3>5. Len(done) \in Nat /\ DOMAIN done = 1..Len(done)
      BY <3>1, <3>4
    <3> QED
      BY <3>5 DEF done
  <2> QED
    BY <2>1, <2>2
<1> QED
  BY <1>1, <1>2 DEF Shaped

\* The checksums that are declared, by the places of their files.
ChecksumAt ==
    [at \in Places(operations) |-> operations[at[1]].files[at[2]].checksum]

\* A place among the uploads, and the units there.
LEMMA AtPlace ==
  ASSUME NEW ops, NEW file, DOMAIN file = Places(ops)
  PROVE  /\ \A at \in Places(ops) : \E i \in Uploads(ops) :
               \E j \in DOMAIN ops[i].files : at = <<i, j>>
         /\ \A u \in Units(file) : \E i \in Uploads(ops) :
               \E j \in DOMAIN ops[i].files :
                  \E n \in 1..SizeOf(file[<<i, j>>]) : u = <<<<i, j>>, n>>
         /\ \A i \in Uploads(ops) : \A j \in DOMAIN ops[i].files :
               \A n \in 1..SizeOf(file[<<i, j>>]) : <<<<i, j>>, n>> \in Units(file)
<1>1. \A at \in Places(ops) : \E i \in Uploads(ops) :
         \E j \in DOMAIN ops[i].files : at = <<i, j>>
  BY DEF Places
<1>2. ASSUME NEW u \in Units(file)
      PROVE  \E i \in Uploads(ops) : \E j \in DOMAIN ops[i].files :
                \E n \in 1..SizeOf(file[<<i, j>>]) : u = <<<<i, j>>, n>>
  <2>1. PICK at \in Places(ops) : u \in {<<at, n>> : n \in 1..SizeOf(file[at])}
    BY DEF Units
  <2>2. PICK i \in Uploads(ops) : \E j \in DOMAIN ops[i].files : at = <<i, j>>
    BY <1>1
  <2>3. PICK j \in DOMAIN ops[i].files : at = <<i, j>>
    BY <2>2
  <2> QED
    BY <2>1, <2>3
<1>3. ASSUME NEW i \in Uploads(ops), NEW j \in DOMAIN ops[i].files,
             NEW n \in 1..SizeOf(file[<<i, j>>])
      PROVE  <<<<i, j>>, n>> \in Units(file)
  <2>1. <<i, j>> \in DOMAIN file
    BY DEF Places
  <2> QED
    BY <2>1 DEF Units
<1> QED
  BY <1>1, <1>2, <1>3

\* What is declared of a place among the uploads.
LEMMA Declared ==
  ASSUME ManifestInv, Passed("operations"), ~request.dry,
         NEW i \in Uploads(operations), NEW j \in DOMAIN operations[i].files,
         NEW place, Stood(i, place)
  PROVE  LET asked == request.operations[i].files
         IN  /\ i \in Uploads(request.operations)
             /\ place[j] \in DOMAIN asked
             /\ ChecksumAt[<<i, j>>] = asked[place[j]]
             /\ operations[i].files[j].file_size_mb =
                   SizeOf(asked[place[j]]) \div UnitsPerMB
             /\ SizeOf(asked[place[j]]) \in Nat
<1>1. /\ i \in Uploads(request.operations) /\ i \in DOMAIN request.operations
      /\ ValidOperations(request.operations, request.product, request.dataset)
  BY SameUploads, OperationsWhole DEF Uploads
<1>2. j \in 1..Len(operations[i].files)
  BY <1>1, UploadStood
<1>3. DOMAIN request.operations[i].files = 1..Len(request.operations[i].files)
  BY <1>1, OperationShape DEF ManifestInv, CallInv
<1>4. /\ place[j] \in DOMAIN request.operations[i].files
      /\ operations[i].files[j].checksum = request.operations[i].files[place[j]]
      /\ operations[i].files[j].file_size_mb =
            SizeOf(request.operations[i].files[place[j]]) \div UnitsPerMB
  BY <1>2, <1>3 DEF Stood
<1>5. <<i, j>> \in Places(operations)
  BY DEF Places
<1>6. ChecksumAt[<<i, j>>] = operations[i].files[j].checksum
  BY <1>5 DEF ChecksumAt
<1>7. SizeOf(request.operations[i].files[place[j]]) \in Nat
  BY <1>1, <1>4, AcceptedSizes
<1> QED
  BY <1>1, <1>4, <1>6, <1>7

\* What is stored takes units that were counted against the limit, each of
\* them once.
LEMMA StoredWasCounted ==
  ASSUME ManifestInv, Passed("operations"), ~request.dry,
         IsFiniteSet(Units(FilesAt(request.operations)))
  PROVE  Cardinality(Units(ChecksumAt)) <=
             Cardinality(Units(FilesAt(request.operations)))
<1> DEFINE ops == request.operations
           file == FilesAt(ops)
           place(i) == CHOOSE place : Stood(i, place)
           back == [u \in Units(ChecksumAt) |->
                       <<<<u[1][1], place(u[1][1])[u[1][2]]>>, u[2]>>]
           Moves(u, i, j, n) == /\ u = <<<<i, j>>, n>>
                                /\ back[u] = <<<<i, place(i)[j]>>, n>>
<1>1. \A i \in Uploads(operations) : Stood(i, place(i))
  BY SameUploads, UploadStood
<1> HIDE DEF place
<1>0. \A u \in Units(ChecksumAt) : \E i \in Uploads(operations) :
         \E j \in DOMAIN operations[i].files :
            \E n \in 1..SizeOf(ChecksumAt[<<i, j>>]) : u = <<<<i, j>>, n>>
  <2>1. DOMAIN ChecksumAt = Places(operations)
    BY DEF ChecksumAt
  <2> QED
    BY <2>1, AtPlace
<1>2. ASSUME NEW u \in Units(ChecksumAt)
      PROVE  \E i \in Uploads(operations) : \E j \in DOMAIN operations[i].files :
                \E n \in 1..SizeOf(ChecksumAt[<<i, j>>]) :
                   Moves(u, i, j, n) /\ back[u] \in Units(file)
  <2>1. PICK i \in Uploads(operations) : \E j \in DOMAIN operations[i].files :
           \E n \in 1..SizeOf(ChecksumAt[<<i, j>>]) : u = <<<<i, j>>, n>>
    BY <1>0
  <2>2. PICK j \in DOMAIN operations[i].files :
           \E n \in 1..SizeOf(ChecksumAt[<<i, j>>]) : u = <<<<i, j>>, n>>
    BY <2>1
  <2>3. PICK n \in 1..SizeOf(ChecksumAt[<<i, j>>]) : u = <<<<i, j>>, n>>
    BY <2>2
  <2>4. back[u] = <<<<i, place(i)[j]>>, n>>
    BY <2>3
  <2>5. /\ i \in Uploads(ops)
        /\ place(i)[j] \in DOMAIN ops[i].files
        /\ ChecksumAt[<<i, j>>] = ops[i].files[place(i)[j]]
    BY <1>1, Declared
  <2>6. file[<<i, place(i)[j]>>] = ops[i].files[place(i)[j]]
    BY <2>5, FileAt
  <2>7. n \in 1..SizeOf(file[<<i, place(i)[j]>>])
    BY <2>3, <2>5, <2>6
  <2>8. <<<<i, place(i)[j]>>, n>> \in Units(file)
    <3>1. DOMAIN file = Places(ops)
      BY DEF FilesAt
    <3> HIDE DEF file, ops
    <3> QED
      BY <2>5, <2>7, <3>1, AtPlace
  <2> HIDE DEF back, file, ops
  <2> QED
    BY <2>3, <2>4, <2>8
<1> HIDE DEF file, ops
<1>3. ASSUME NEW u \in Units(ChecksumAt), NEW v \in Units(ChecksumAt),
             back[u] = back[v]
      PROVE  u = v
  <2> HIDE DEF back, Moves
  <2>1. PICK i \in Uploads(operations) : \E j \in DOMAIN operations[i].files :
           \E n : Moves(u, i, j, n)
    BY <1>2
  <2>2. PICK j \in DOMAIN operations[i].files : \E n :
           Moves(u, i, j, n)
    BY <2>1
  <2>3. PICK n : Moves(u, i, j, n)
    BY <2>2
  <2>4. PICK k \in Uploads(operations) : \E l \in DOMAIN operations[k].files :
           \E m : Moves(v, k, l, m)
    BY <1>2
  <2>5. PICK l \in DOMAIN operations[k].files : \E m :
           Moves(v, k, l, m)
    BY <2>4
  <2>6. PICK m : Moves(v, k, l, m)
    BY <2>5
  <2>7. i = k /\ n = m /\ place(i)[j] = place(i)[l]
    BY <1>3, <2>3, <2>6 DEF Moves
  <2>8. j \in 1..Len(operations[i].files) /\ l \in 1..Len(operations[i].files)
    BY <2>7, SameUploads, UploadStood
  <2>9. j = l
    BY <1>1, <2>7, <2>8 DEF Stood
  <2> QED
    BY <2>3, <2>6, <2>7, <2>9 DEF Moves
<1>4. back \in Injection(Units(ChecksumAt), Units(file))
  <2>1. back \in [Units(ChecksumAt) -> Units(file)]
    BY <1>2
  <2> HIDE DEF back
  <2> QED
    BY <1>3, <2>1 DEF Injection, IsInjective
<1> HIDE DEF back
<1> QED
  BY <1>4, FS_Injection DEF file, ops

\* The volume of one upload is that of its files, rounded down for each.
LEMMA UploadRounded ==
  ASSUME ManifestInv, Passed("operations"), ~request.dry,
         NEW i \in Uploads(operations)
  PROVE  LET files == operations[i].files
             stored == Total([j \in DOMAIN files |-> SizeOf(ChecksumAt[<<i, j>>])])
         IN  /\ TotalMB(operations[i]) \in Nat
             /\ stored \in Nat
             /\ Rounded(UnitsPerMB, TotalMB(operations[i]), stored, Len(files))
<1> DEFINE files == operations[i].files
           N == Len(files)
           mbs == [j \in 1..N |-> files[j].file_size_mb]
           sizes == [j \in 1..N |-> SizeOf(ChecksumAt[<<i, j>>])]
           ones == [j \in 1..N |-> 1]
<1>1. N \in Nat /\ DOMAIN files = 1..N /\ \E place : Stood(i, place)
  BY SameUploads, UploadStood
<1>2. UnitsPerMB \in Nat \ {0}
  BY LimitAssumption
<1>3. PICK place : Stood(i, place)
  BY <1>1
<1>4. ASSUME NEW j \in 1..N
      PROVE  /\ mbs[j] \in Nat /\ sizes[j] \in Nat
             /\ Rounded(UnitsPerMB, mbs[j], sizes[j], ones[j])
  <2> DEFINE size == SizeOf(request.operations[i].files[place[j]])
  <2>1. j \in DOMAIN operations[i].files
    BY <1>1
  <2>2. /\ files[j].file_size_mb = size \div UnitsPerMB
        /\ SizeOf(ChecksumAt[<<i, j>>]) = size
        /\ size \in Nat
    BY <1>3, <2>1, Declared
  <2>3. mbs[j] = size \div UnitsPerMB /\ sizes[j] = size /\ ones[j] = 1
    BY <2>2
  <2> HIDE DEF size, mbs, sizes, ones
  <2>4. /\ size \div UnitsPerMB \in Nat
        /\ Rounded(UnitsPerMB, size \div UnitsPerMB, size, 1)
    BY <1>2, <2>2, MegabytesRounded
  <2> QED
    BY <2>2, <2>3, <2>4
<1>5. Total(ones) = N
  BY <1>1, TotalOfOnes
<1>6. mbs \in [1..N -> Nat] /\ sizes \in [1..N -> Nat] /\ ones \in [1..N -> Nat]
  BY <1>4
<1>7. /\ TotalMB(operations[i]) = Total(mbs)
      /\ [j \in DOMAIN files |-> SizeOf(ChecksumAt[<<i, j>>])] = sizes
  BY <1>1 DEF TotalMB
<1> HIDE DEF mbs, sizes, ones, N
<1>8. Rounded(UnitsPerMB, Total(mbs), Total(sizes), Total(ones))
  BY <1>1, <1>2, <1>4, <1>6, TotalOfRounded
<1>9. Total(mbs) \in Nat /\ Total(sizes) \in Nat
  BY <1>1, <1>6, TotalOfNothing
<1> QED
  BY <1>5, <1>7, <1>8, <1>9 DEF N

\* So is that of the delivery, of which the bucket has all the units.
LEMMA DeliveryRounded ==
  ASSUME ManifestInv, Passed("operations"), ~request.dry
  PROVE  LET stored == Cardinality(Units(ChecksumAt))
             files == Cardinality(Places(operations))
             volume == DeliverySummary.total_volumes
         IN  /\ volume \in Nat /\ stored \in Nat /\ files \in Nat
             /\ Rounded(UnitsPerMB, volume, stored, files)
<1> DEFINE ops == operations
           N == index
           mbs == [i \in 1..N |-> IF ops[i].kind = "upload" THEN TotalMB(ops[i])
                                  ELSE 0]
           sizes == UploadSizes(ops, ChecksumAt)
           counts == [i \in 1..N |-> IF ops[i].kind = "upload"
                                     THEN Len(ops[i].files) ELSE 0]
<1>1. N \in Nat /\ DOMAIN ops = 1..N /\ Shaped(ops, N)
  BY ManifestShaped, OperationsWhole
<1>2. UnitsPerMB \in Nat
  BY LimitAssumption
<1>3. DOMAIN ChecksumAt = Places(ops)
  BY DEF ChecksumAt
<1>4. \A at \in Places(ops) : SizeOf(ChecksumAt[at]) \in Nat
  <2> SUFFICES ASSUME NEW at \in Places(ops) PROVE SizeOf(ChecksumAt[at]) \in Nat
    OBVIOUS
  <2>1. PICK i \in Uploads(ops) : \E j \in DOMAIN ops[i].files : at = <<i, j>>
    BY <1>3, AtPlace
  <2>2. PICK j \in DOMAIN ops[i].files : at = <<i, j>>
    BY <2>1
  <2>3. PICK place : Stood(i, place)
    BY SameUploads, UploadStood
  <2>4. /\ ChecksumAt[<<i, j>>] = request.operations[i].files[place[j]]
        /\ SizeOf(request.operations[i].files[place[j]]) \in Nat
    BY <2>3, Declared
  <2> QED
    BY <2>2, <2>4
<1>5. /\ IsFiniteSet(Units(ChecksumAt))
      /\ Cardinality(Units(ChecksumAt)) = Total(sizes)
      /\ sizes \in [1..N -> Nat]
  BY <1>1, <1>3, <1>4, UnitsCounted
<1>6. /\ IsFiniteSet(Places(ops))
      /\ Cardinality(Places(ops)) = TotalOfKind("upload", ops, FileCounts(ops))
  BY <1>1, PlacesCounted
<1>7. TotalOfKind("upload", ops, FileCounts(ops)) = Total(counts)
  <2>1. [i \in DOMAIN ops |->
            IF ops[i].kind = "upload" THEN FileCounts(ops)[i] ELSE 0] = counts
    BY <1>1 DEF FileCounts
  <2> HIDE DEF counts, ops
  <2> QED
    BY <2>1 DEF TotalOfKind
<1>8. DeliverySummary.total_volumes = Total(mbs)
  <2> DEFINE volumes == [i \in DOMAIN ops |-> TotalMB(ops[i])]
  <2>1. [i \in DOMAIN ops |->
            IF ops[i].kind = "upload" THEN volumes[i] ELSE 0] = mbs
    BY <1>1
  <2>2. DeliverySummary.total_volumes = TotalOfKind("upload", ops, volumes)
    BY DEF DeliverySummary
  <2> HIDE DEF volumes, mbs, ops
  <2> QED
    BY <2>1, <2>2 DEF TotalOfKind
<1>9. ASSUME NEW i \in 1..N
      PROVE  /\ mbs[i] \in Nat /\ counts[i] \in Nat
             /\ Rounded(UnitsPerMB, mbs[i], sizes[i], counts[i])
  <2>1. CASE ops[i].kind = "upload"
    <3>1. i \in Uploads(ops)
      BY <1>1, <2>1 DEF Uploads
    <3>2. sizes[i] = Total([j \in DOMAIN ops[i].files |->
                               SizeOf(ChecksumAt[<<i, j>>])])
      BY <1>1, <2>1 DEF UploadSizes
    <3>3. mbs[i] = TotalMB(ops[i]) /\ counts[i] = Len(ops[i].files)
      BY <2>1
    <3>4. Len(ops[i].files) \in Nat
      BY <1>1 DEF Shaped
    <3> HIDE DEF mbs, sizes, counts
    <3> QED
      BY <3>1, <3>2, <3>3, <3>4, UploadRounded
  <2>2. CASE ops[i].kind # "upload"
    <3>1. mbs[i] = 0 /\ counts[i] = 0 /\ sizes[i] = 0
      BY <1>1, <2>2 DEF UploadSizes
    <3> HIDE DEF mbs, sizes, counts
    <3> QED
      BY <1>2, <3>1 DEF Rounded
  <2> QED
    BY <2>1, <2>2
<1>10. mbs \in [1..N -> Nat] /\ counts \in [1..N -> Nat]
  BY <1>9
<1> HIDE DEF mbs, sizes, counts
<1>11. Rounded(UnitsPerMB, Total(mbs), Total(sizes), Total(counts))
  BY <1>1, <1>2, <1>5, <1>9, <1>10, TotalOfRounded
<1>12. Total(mbs) \in Nat /\ Total(sizes) \in Nat /\ Total(counts) \in Nat
  BY <1>1, <1>5, <1>10, TotalOfNothing
<1> QED
  BY <1>5, <1>6, <1>7, <1>8, <1>11, <1>12

\* What is stored keeps to the limit that was checked.
LEMMA StoredKeepsLimit ==
  ASSUME ManifestInv, Passed("operations"), ~request.dry
  PROVE  Cardinality(Units(ChecksumAt)) <= MaxDeliverySize
<1> DEFINE file == FilesAt(request.operations)
<1>1. ValidOperations(request.operations, request.product, request.dataset)
  BY OperationsWhole
<1>2. MaxDeliverySize \in Nat
  BY LimitAssumption
<1>3. Cardinality(Units(ChecksumAt)) \in Nat
  BY DeliveryRounded
<1>4. CASE Passed("sizes")
  <2>1. ValidSizes(request.operations)
    BY <1>4 DEF ManifestInv, ChecksPassed
  <2>2. IsFiniteSet(Units(file)) /\ Cardinality(Units(file)) <= MaxDeliverySize
    BY <1>1, <2>1, SizesAdded
  <2>3. Cardinality(Units(ChecksumAt)) <= Cardinality(Units(file))
    BY <2>2, StoredWasCounted
  <2>4. Cardinality(Units(file)) \in Nat
    BY <2>2, FS_CardinalityType
  <2> HIDE DEF file
  <2> QED
    BY <1>2, <1>3, <2>2, <2>3, <2>4
<1>5. CASE ~Passed("sizes")
  <2>1. request.entry = "delete"
    BY <1>5, StagesPassed DEF ManifestInv, CallInv
  <2>2. /\ Len(request.operations) = 1
        /\ request.operations[1].kind = "delete"
    BY <2>1, RequestAssumption DEF ManifestInv, CallInv
  <2>3. DOMAIN request.operations = {1}
    BY <2>2, OperationsWhole, RequestShaped DEF ManifestInv, CallInv, Shaped
  <2>4. Uploads(operations) = {}
    BY <2>2, <2>3, SameUploads DEF Uploads
  <2>5. Units(ChecksumAt) = {}
    BY <2>4 DEF Units, ChecksumAt, Places
  <2> QED
    BY <1>2, <2>5, FS_EmptySet
<1> QED
  BY <1>4, <1>5

\* The declared volume never exceeds what is stored nor the limit, and is short
\* of what is stored by less than a megabyte for each file.
THEOREM VolumesDeclared == RunSpec => []VolumeDeclared
<1>1. ManifestInv => VolumeDeclared
  <2> SUFFICES ASSUME ManifestInv, registered # <<>> PROVE VolumeDeclared
    BY DEF VolumeDeclared
  <2>1. Passed("operations") /\ ~request.dry
    BY DEF ManifestInv, RegisteredIsManifest
  <2> DEFINE stored == Cardinality(Units(ChecksumAt))
             files == Cardinality(Places(operations))
             volume == DeliverySummary.total_volumes
  <2>2. /\ volume \in Nat /\ stored \in Nat /\ files \in Nat
        /\ Rounded(UnitsPerMB, volume, stored, files)
    BY <2>1, DeliveryRounded
  <2>3. stored <= MaxDeliverySize
    BY <2>1, StoredKeepsLimit
  <2>4. UnitsPerMB \in Nat /\ MaxDeliverySize \in Nat
    BY LimitAssumption
  <2>5. DOMAIN ChecksumAt = Places(operations)
    BY DEF ChecksumAt
  <2> HIDE DEF stored, files, volume
  <2>6. /\ UnitsPerMB * volume = volume * UnitsPerMB
        /\ UnitsPerMB * volume \in Nat /\ UnitsPerMB * files \in Nat
    BY <2>2, <2>4
  <2>7. /\ volume * UnitsPerMB <= stored
        /\ volume * UnitsPerMB <= MaxDeliverySize
        /\ files > 0 => stored < volume * UnitsPerMB + UnitsPerMB * files
    BY <2>2, <2>3, <2>4, <2>6 DEF Rounded
  <2> QED
    BY <2>5, <2>7 DEF VolumeDeclared, ChecksumAt, stored, files, volume
<1> QED
  BY <1>1, ManifestInvariant, PTL
=============================================================================

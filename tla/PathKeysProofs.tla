--------------------------- MODULE PathKeysProofs ---------------------------
(***************************************************************************)
(* Proofs about PathKeys, for paths, keys and suffixes of any length.      *)
(*                                                                         *)
(* Only is a recursive function, and what it computes is proved by         *)
(* induction over the positions of the sequence.  The induction theorems   *)
(* of the library take an operator; NoFirstFailure states the principle    *)
(* for the set of the positions where a claim fails.                       *)
(***************************************************************************)
EXTENDS PathKeys, WellFoundedInduction, TLAPS

\* A claim that holds at 0, and at n when it holds at n - 1, fails nowhere.
LEMMA NoFirstFailure ==
  ASSUME NEW N \in Nat, NEW Failures, Failures \subseteq 0..N, 0 \notin Failures,
         \A n \in 1..N : n \in Failures => n - 1 \in Failures
  PROVE  Failures = {}
<1> SUFFICES ASSUME Failures # {} PROVE FALSE
  OBVIOUS
<1>1. Failures \subseteq Nat
  OBVIOUS
<1>2. PICK n \in Failures : \A m \in Failures : <<m, n>> \notin OpToRel(<, Nat)
  BY <1>1, WFMin, NatLessThanWellFounded, Zenon
<1>3. /\ n \in Nat /\ n - 1 \in Nat /\ n - 1 < n
      /\ n - 1 \in Failures
  OBVIOUS
<1>4. \A i, j \in Nat : i < j => <<i, j>> \in OpToRel(<, Nat)
  BY Zenon DEF OpToRel
<1> QED
  BY <1>2, <1>3, <1>4, Zenon

\* A set of numbers that is not empty has a least one.
LEMMA LeastOf ==
  ASSUME NEW A, A \subseteq Nat, A # {}
  PROVE  \E n \in A : \A m \in A : n <= m
<1>1. PICK n \in A : \A m \in A : <<m, n>> \notin OpToRel(<, Nat)
  BY WFMin, NatLessThanWellFounded, Zenon
<1>2. \A i, j \in Nat : i < j => <<i, j>> \in OpToRel(<, Nat)
  BY Zenon DEF OpToRel
<1>3. \A m \in A : ~(m < n)
  BY <1>1, <1>2, Zenon
<1> QED
  BY <1>3

\* A set of positions that is not empty has a last one.
LEMMA LastOf ==
  ASSUME NEW N \in Nat, NEW A, A \subseteq 1..N, A # {}
  PROVE  \E n \in A : \A m \in A : m <= n
<1> DEFINE B == {N - n : n \in A}
<1>1. B \subseteq Nat /\ B # {}
  <2>1. \A n \in A : N - n \in Nat
    OBVIOUS
  <2> QED
    BY <2>1
<1>2. PICK b \in B : \A c \in B : b <= c
  <2> HIDE DEF B
  <2> QED
    BY <1>1, LeastOf
<1>3. PICK n \in A : b = N - n
  OBVIOUS
<1>4. \A m \in A : N - n <= N - m
  BY <1>2, <1>3
<1> QED
  BY <1>4

-----------------------------------------------------------------------------
\* One turn of the recursion of Only.
Turn(kept, n, seq, wanted) ==
    IF n = 0 THEN <<>>
    ELSE IF seq[n] \in wanted THEN Append(kept[n - 1], seq[n]) ELSE kept[n - 1]

\* The function that Only's recursion defines, up to N.
Keeps(kept, N, seq, wanted) ==
    kept = [n \in 0..N |-> Turn(kept, n, seq, wanted)]

\* The recursion of Only defines a function.
LEMMA OnlyDefined ==
  ASSUME NEW seq, Len(seq) \in Nat, NEW wanted
  PROVE  \E kept : /\ Keeps(kept, Len(seq), seq, wanted)
                   /\ Only(seq, wanted) = kept[Len(seq)]
<1> DEFINE Failures ==
             {n \in 0..Len(seq) : ~ \E kept : Keeps(kept, n, seq, wanted)}
<1>1. 0 \notin Failures
  <2>1. Keeps([n \in 0..0 |-> <<>>], 0, seq, wanted)
    BY DEF Keeps, Turn
  <2> QED
    BY <2>1
<1>2. ASSUME NEW n \in 1..Len(seq), n - 1 \notin Failures
      PROVE  n \notin Failures
  <2>1. PICK kept : Keeps(kept, n - 1, seq, wanted)
    BY <1>2
  <2> DEFINE more == [i \in 0..n |-> IF i < n THEN kept[i]
                                     ELSE Turn(kept, n, seq, wanted)]
  <2>2. ASSUME NEW i \in 0..(n - 1)
        PROVE  more[i] = Turn(more, i, seq, wanted)
    <3>1. kept[i] = Turn(kept, i, seq, wanted)
      BY <2>1 DEF Keeps
    <3>2. more[i] = kept[i] /\ (i # 0 => more[i - 1] = kept[i - 1])
      OBVIOUS
    <3> QED
      BY <3>1, <3>2 DEF Turn
  <2>3. more[n] = Turn(more, n, seq, wanted)
    <3>1. more[n] = Turn(kept, n, seq, wanted) /\ more[n - 1] = kept[n - 1]
      OBVIOUS
    <3> QED
      BY <3>1 DEF Turn
  <2>4. more = [i \in 0..n |-> more[i]] /\ 0..n = 0..(n - 1) \cup {n}
    OBVIOUS
  <2> HIDE DEF more
  <2>5. Keeps(more, n, seq, wanted)
    BY <2>2, <2>3, <2>4 DEF Keeps
  <2> QED
    BY <2>5
<1>3. Failures = {}
  <2>1. Failures \subseteq 0..Len(seq)
    OBVIOUS
  <2> HIDE DEF Failures
  <2> QED
    BY <1>1, <1>2, <2>1, NoFirstFailure
<1>4. PICK kept : kept = CHOOSE f : Keeps(f, Len(seq), seq, wanted)
  OBVIOUS
<1>5. Keeps(kept, Len(seq), seq, wanted)
  BY <1>3, <1>4
<1>6. Only(seq, wanted) = kept[Len(seq)]
  BY <1>4 DEF Only, Keeps, Turn
<1> QED
  BY <1>5, <1>6

\* only lists the wanted ones of the first n elements of seq: place[j] is
\* where its jth element stands.
Lists(only, place, n, seq, wanted) ==
    /\ place \in [1..Len(only) -> 1..n]
    /\ \A j \in 1..Len(only) : only[j] = seq[place[j]] /\ only[j] \in wanted
    /\ \A j, k \in 1..Len(only) : j < k => place[j] < place[k]
    /\ \A i \in 1..n : seq[i] \in wanted => \E j \in 1..Len(only) : place[j] = i
    /\ (\A i \in 1..n : seq[i] \in wanted) =>
          Len(only) = n /\ \A i \in 1..n : only[i] = seq[i]

\* What Only computes: the wanted elements, all of them, in their order.
LEMMA OnlyLists ==
  ASSUME NEW S, NEW seq \in Seq(S), NEW wanted
  PROVE  /\ Only(seq, wanted) \in Seq(S)
         /\ \E place : Lists(Only(seq, wanted), place, Len(seq), seq, wanted)
<1> DEFINE N == Len(seq)
<1>1. N \in Nat /\ \A i \in 1..N : seq[i] \in S
  OBVIOUS
<1>2. PICK kept : Keeps(kept, N, seq, wanted) /\ Only(seq, wanted) = kept[N]
  BY <1>1, OnlyDefined
<1>3. \A n \in 0..N : kept[n] = Turn(kept, n, seq, wanted)
  BY <1>2 DEF Keeps
<1> DEFINE Listed(n) == /\ kept[n] \in Seq(S)
                        /\ \E place : Lists(kept[n], place, n, seq, wanted)
           Failures == {n \in 0..N : ~Listed(n)}
<1>4. 0 \notin Failures
  <2>1. kept[0] = <<>>
    BY <1>1, <1>3 DEF Turn
  <2>2. Lists(<<>>, [j \in 1..0 |-> 0], 0, seq, wanted)
    BY DEF Lists
  <2>3. <<>> \in Seq(S)
    OBVIOUS
  <2> QED
    BY <2>1, <2>2, <2>3
<1>5. ASSUME NEW n \in 1..N, n - 1 \notin Failures
      PROVE  n \notin Failures
  <2>1. n - 1 \in 0..N /\ n \in 0..N /\ n # 0
    OBVIOUS
  <2>2. kept[n - 1] \in Seq(S)
    BY <1>5, <2>1
  <2>3. PICK place : Lists(kept[n - 1], place, n - 1, seq, wanted)
    BY <1>5, <2>1
  <2>4. kept[n] = Turn(kept, n, seq, wanted)
    BY <1>3, <2>1
  <2> DEFINE before == kept[n - 1]
             last == Len(before) + 1
  <2>5. CASE seq[n] \in wanted
    <3> DEFINE after == Append(before, seq[n])
               longer == [j \in 1..last |-> IF j < last THEN place[j] ELSE n]
    <3>1. kept[n] = after
      BY <2>1, <2>4, <2>5 DEF Turn
    <3>2. /\ after \in Seq(S)
          /\ Len(after) = last
          /\ \A j \in 1..Len(before) : after[j] = before[j]
          /\ after[last] = seq[n]
      BY <1>1, <2>2
    <3>3. Lists(after, longer, n, seq, wanted)
      <4>0. /\ Len(before) \in Nat
            /\ 1..last = 1..Len(before) \cup {last}
            /\ \A j \in 1..Len(before) : j < last /\ longer[j] = place[j]
            /\ longer[last] = n
        BY <2>2
      <4>1. longer \in [1..last -> 1..n]
        BY <2>3, <4>0 DEF Lists
      <4> HIDE DEF after, longer, last
      <4>2. \A j \in 1..last : after[j] = seq[longer[j]] /\ after[j] \in wanted
        <5>1. \A j \in 1..Len(before) :
                 before[j] = seq[place[j]] /\ before[j] \in wanted
          BY <2>3 DEF Lists
        <5>2. \A j \in 1..Len(before) :
                 after[j] = seq[longer[j]] /\ after[j] \in wanted
          BY <3>2, <4>0, <5>1
        <5> QED
          BY <2>5, <3>2, <4>0, <5>2
      <4>3. \A j, k \in 1..last : j < k => longer[j] < longer[k]
        BY <2>3, <4>0 DEF Lists
      <4>4. \A i \in 1..n : seq[i] \in wanted =>
                 \E j \in 1..last : longer[j] = i
        <5> SUFFICES ASSUME NEW i \in 1..n, seq[i] \in wanted
                     PROVE  \E j \in 1..last : longer[j] = i
          OBVIOUS
        <5>1. CASE i = n
          BY <4>0, <5>1
        <5>2. CASE i # n
          <6>1. PICK j \in 1..Len(before) : place[j] = i
            BY <2>3, <5>2 DEF Lists
          <6> QED
            BY <4>0, <6>1
        <5> QED
          BY <5>1, <5>2
      <4>5. (\A i \in 1..n : seq[i] \in wanted) =>
               last = n /\ \A i \in 1..n : after[i] = seq[i]
        <5> SUFFICES ASSUME \A i \in 1..n : seq[i] \in wanted
                     PROVE  last = n /\ \A i \in 1..n : after[i] = seq[i]
          OBVIOUS
        <5>1. Len(before) = n - 1 /\ \A i \in 1..(n - 1) : before[i] = seq[i]
          BY <2>3, 1..(n - 1) \subseteq 1..n DEF Lists
        <5>2. last = n /\ 1..n = 1..(n - 1) \cup {n}
          BY <5>1 DEF last
        <5> QED
          BY <3>2, <5>1, <5>2
      <4> QED
        BY <3>2, <4>1, <4>2, <4>3, <4>4, <4>5 DEF Lists
    <3> QED
      BY <3>1, <3>2, <3>3
  <2>6. CASE seq[n] \notin wanted
    <3>1. kept[n] = before
      BY <2>1, <2>4, <2>6 DEF Turn
    <3>2. Lists(before, place, n, seq, wanted)
      <4>1. Len(before) \in Nat
        BY <2>2
      <4> QED
        BY <2>3, <2>6, <4>1 DEF Lists
    <3> QED
      BY <2>2, <3>1, <3>2
  <2> QED
    BY <2>5, <2>6
<1>6. Failures = {}
  <2>1. Failures \subseteq 0..N
    OBVIOUS
  <2> HIDE DEF Failures, N
  <2> QED
    BY <1>1, <1>4, <1>5, <2>1, NoFirstFailure
<1> QED
  BY <1>1, <1>2, <1>6

\* Its elements are the wanted ones.
LEMMA OnlyRange ==
  ASSUME NEW S, NEW seq \in Seq(S), NEW wanted
  PROVE  {Only(seq, wanted)[j] : j \in DOMAIN Only(seq, wanted)} =
             {seq[i] : i \in DOMAIN seq} \cap wanted
<1> DEFINE only == Only(seq, wanted)
<1>1. only \in Seq(S)
  BY OnlyLists
<1>2. PICK place : Lists(only, place, Len(seq), seq, wanted)
  BY OnlyLists
<1>3. DOMAIN only = 1..Len(only) /\ DOMAIN seq = 1..Len(seq)
  BY <1>1
<1> HIDE DEF only
<1>4. \A j \in DOMAIN only :
         place[j] \in DOMAIN seq /\ only[j] = seq[place[j]] /\ only[j] \in wanted
  BY <1>2, <1>3 DEF Lists
<1>5. \A i \in DOMAIN seq : seq[i] \in wanted =>
         \E j \in DOMAIN only : only[j] = seq[i]
  <2> SUFFICES ASSUME NEW i \in DOMAIN seq, seq[i] \in wanted
               PROVE  \E j \in DOMAIN only : only[j] = seq[i]
    OBVIOUS
  <2>1. PICK j \in DOMAIN only : place[j] = i
    BY <1>2, <1>3 DEF Lists
  <2> QED
    BY <1>4, <2>1
<1>6. {only[j] : j \in DOMAIN only} = {seq[i] : i \in DOMAIN seq} \cap wanted
  BY <1>4, <1>5
<1> QED
  BY <1>6 DEF only

\* They stand in the order of the sequence.
LEMMA OnlyOrder ==
  ASSUME NEW S, NEW seq \in Seq(S), NEW wanted,
         NEW j \in DOMAIN Only(seq, wanted), NEW k \in DOMAIN Only(seq, wanted),
         j < k
  PROVE  \E l, m \in DOMAIN seq : /\ l < m
                                  /\ seq[l] = Only(seq, wanted)[j]
                                  /\ seq[m] = Only(seq, wanted)[k]
<1> DEFINE only == Only(seq, wanted)
<1>1. only \in Seq(S)
  BY OnlyLists
<1>2. PICK place : Lists(only, place, Len(seq), seq, wanted)
  BY OnlyLists
<1>3. DOMAIN only = 1..Len(only) /\ DOMAIN seq = 1..Len(seq)
  BY <1>1
<1> HIDE DEF only
<1>4. j \in 1..Len(only) /\ k \in 1..Len(only)
  BY <1>3 DEF only
<1>5. /\ place[j] \in DOMAIN seq /\ place[k] \in DOMAIN seq
      /\ place[j] < place[k]
      /\ only[j] = seq[place[j]] /\ only[k] = seq[place[k]]
  BY <1>2, <1>3, <1>4 DEF Lists
<1> QED
  BY <1>5 DEF only

\* A sequence of wanted elements stays as it is.
LEMMA OnlyAll ==
  ASSUME NEW S, NEW seq \in Seq(S), NEW wanted,
         \A i \in DOMAIN seq : seq[i] \in wanted
  PROVE  Only(seq, wanted) = seq
<1> DEFINE only == Only(seq, wanted)
<1>1. only \in Seq(S)
  BY OnlyLists
<1>2. PICK place : Lists(only, place, Len(seq), seq, wanted)
  BY OnlyLists
<1>3. DOMAIN seq = 1..Len(seq)
  OBVIOUS
<1> HIDE DEF only
<1>4. Len(only) = Len(seq) /\ \A i \in 1..Len(seq) : only[i] = seq[i]
  BY <1>2, <1>3 DEF Lists
<1>5. only = seq
  BY <1>1, <1>4
<1> QED
  BY <1>5 DEF only

\* Behind a head that is wanted altogether, Only keeps what it keeps alone.
LEMMA OnlyBehind ==
  ASSUME NEW S, NEW head \in Seq(S), NEW rest \in Seq(S), NEW wanted,
         \A i \in DOMAIN head : head[i] \in wanted
  PROVE  Only(head \o rest, wanted) = head \o Only(rest, wanted)
<1> DEFINE H == Len(head)
           R == Len(rest)
           seq == head \o rest
<1>1. /\ H \in Nat /\ R \in Nat /\ Len(seq) = H + R
      /\ \A i \in 1..H : seq[i] = head[i] /\ head[i] \in wanted
      /\ \A i \in 1..R : seq[H + i] = rest[i] /\ rest[i] \in S
  OBVIOUS
<1> HIDE DEF seq
<1>2. PICK whole : /\ Keeps(whole, H + R, seq, wanted)
                   /\ Only(seq, wanted) = whole[H + R]
  <2>1. Len(seq) \in Nat
    BY <1>1
  <2> QED
    BY <1>1, <2>1, OnlyDefined
<1>3. PICK part : /\ Keeps(part, R, rest, wanted)
                  /\ Only(rest, wanted) = part[R]
  BY <1>1, OnlyDefined
<1>4. \A n \in 0..(H + R) : whole[n] = Turn(whole, n, seq, wanted)
  BY <1>2 DEF Keeps
<1>5. \A n \in 0..R : part[n] = Turn(part, n, rest, wanted)
  BY <1>3 DEF Keeps
<1> HIDE DEF H, R
<1>6. whole[H] = head
  <2> DEFINE Failures == {n \in 0..H : whole[n] # SubSeq(head, 1, n)}
  <2>1. 0 \notin Failures
    <3>1. whole[0] = <<>>
      BY <1>1, <1>4 DEF Turn
    <3>2. SubSeq(head, 1, 0) = <<>>
      OBVIOUS
    <3> QED
      BY <3>1, <3>2
  <2>2. ASSUME NEW n \in 1..H, n - 1 \notin Failures PROVE n \notin Failures
    <3>1. n \in 1..(H + R) /\ n - 1 \in 0..H /\ n # 0 /\ n \in Nat
      BY <1>1
    <3>2. whole[n - 1] = SubSeq(head, 1, n - 1)
      BY <2>2, <3>1
    <3>3. whole[n] = Append(SubSeq(head, 1, n - 1), head[n])
      <4>1. whole[n] = Turn(whole, n, seq, wanted)
        BY <1>4, <3>1
      <4>2. seq[n] = head[n] /\ head[n] \in wanted
        BY <1>1
      <4> QED
        BY <3>1, <3>2, <4>1, <4>2 DEF Turn
    <3>4. Append(SubSeq(head, 1, n - 1), head[n]) = SubSeq(head, 1, n)
      BY <1>1, <3>1 DEF H
    <3> QED
      BY <3>3, <3>4
  <2>3. Failures = {}
    <3>1. Failures \subseteq 0..H
      OBVIOUS
    <3> HIDE DEF Failures
    <3> QED
      BY <1>1, <2>1, <2>2, <3>1, NoFirstFailure
  <2>4. whole[H] = SubSeq(head, 1, H)
    <3>1. H \notin Failures
      BY <2>3
    <3>2. H \in 0..H
      BY <1>1
    <3> QED
      BY <3>1, <3>2
  <2>5. SubSeq(head, 1, H) = head
    BY DEF H
  <2> QED
    BY <2>4, <2>5
<1>7. ASSUME NEW b \in Seq(S), NEW e \in S
      PROVE  Append(b, e) \in Seq(S) /\ Append(head \o b, e) = head \o Append(b, e)
  <2> DEFINE left == Append(head \o b, e)
             right == head \o Append(b, e)
  <2>1. Append(b, e) \in Seq(S) /\ head \o b \in Seq(S)
    OBVIOUS
  <2>2. /\ left \in Seq(S) /\ Len(left) = Len(head) + Len(b) + 1
        /\ right \in Seq(S) /\ Len(right) = Len(head) + Len(b) + 1
    BY <2>1
  <2>3. \A i \in 1..(Len(head) + Len(b) + 1) : left[i] = right[i]
    <3> SUFFICES ASSUME NEW i \in 1..(Len(head) + Len(b) + 1) PROVE left[i] = right[i]
      OBVIOUS
    <3>1. CASE i <= Len(head)
      BY <2>1, <3>1
    <3>2. CASE i > Len(head) /\ i <= Len(head) + Len(b)
      BY <2>1, <3>2
    <3>3. CASE i = Len(head) + Len(b) + 1
      BY <2>1, <3>3
    <3> QED
      BY <3>1, <3>2, <3>3
  <2> HIDE DEF left, right
  <2>4. left = right
    BY <2>2, <2>3
  <2> QED
    BY <2>1, <2>4 DEF left, right
<1>8. whole[H + R] = head \o part[R]
  <2> DEFINE Failures ==
               {n \in 0..R : ~(part[n] \in Seq(S) /\ whole[H + n] = head \o part[n])}
  <2>1. 0 \notin Failures
    <3>1. part[0] = <<>> /\ H + 0 = H
      BY <1>1, <1>5 DEF Turn
    <3>2. head \o <<>> = head /\ <<>> \in Seq(S)
      OBVIOUS
    <3> QED
      BY <1>6, <3>1, <3>2
  <2>2. ASSUME NEW n \in 1..R, n - 1 \notin Failures PROVE n \notin Failures
    <3>1. /\ H + n \in 0..(H + R) /\ n - 1 \in 0..R /\ n \in 0..R /\ n # 0
          /\ H + n # 0 /\ (H + n) - 1 = H + (n - 1)
      BY <1>1
    <3>2. part[n - 1] \in Seq(S) /\ whole[(H + n) - 1] = head \o part[n - 1]
      BY <2>2, <3>1
    <3>3. seq[H + n] = rest[n] /\ rest[n] \in S
      BY <1>1
    <3>4. /\ whole[H + n] = IF rest[n] \in wanted
                            THEN Append(head \o part[n - 1], rest[n])
                            ELSE head \o part[n - 1]
          /\ part[n] = IF rest[n] \in wanted
                       THEN Append(part[n - 1], rest[n]) ELSE part[n - 1]
      <4>1. whole[H + n] = Turn(whole, H + n, seq, wanted)
        BY <1>4, <3>1
      <4>2. part[n] = Turn(part, n, rest, wanted)
        BY <1>5, <3>1
      <4>3. part[n] = IF rest[n] \in wanted
                      THEN Append(part[n - 1], rest[n]) ELSE part[n - 1]
        BY <3>1, <4>2 DEF Turn
      <4>4. whole[H + n] = IF seq[H + n] \in wanted
                           THEN Append(whole[(H + n) - 1], seq[H + n])
                           ELSE whole[(H + n) - 1]
        <5>1. Turn(whole, H + n, seq, wanted) =
                 IF H + n = 0 THEN <<>>
                 ELSE IF seq[H + n] \in wanted
                      THEN Append(whole[(H + n) - 1], seq[H + n])
                      ELSE whole[(H + n) - 1]
          BY Zenon DEF Turn
        <5>2. H + n # 0
          BY <3>1
        <5> QED
          BY <4>1, <5>1, <5>2, Zenon
      <4>5. whole[H + n] = IF rest[n] \in wanted
                           THEN Append(head \o part[n - 1], rest[n])
                           ELSE head \o part[n - 1]
        BY <3>2, <3>3, <4>4, Zenon
      <4> QED
        BY <4>3, <4>5
    <3>5. /\ Append(part[n - 1], rest[n]) \in Seq(S)
          /\ Append(head \o part[n - 1], rest[n]) =
                head \o Append(part[n - 1], rest[n])
      BY <1>7, <3>2, <3>3
    <3> QED
      BY <3>2, <3>4, <3>5
  <2>3. Failures = {}
    <3>1. Failures \subseteq 0..R
      OBVIOUS
    <3> HIDE DEF Failures
    <3> QED
      BY <1>1, <2>1, <2>2, <3>1, NoFirstFailure
  <2>4. R \notin Failures
    BY <2>3
  <2>5. R \in 0..R
    BY <1>1
  <2> QED
    BY <2>4, <2>5
<1> QED
  BY <1>2, <1>3, <1>8 DEF seq

-----------------------------------------------------------------------------
\* parts.index: the first occurrence is found when the segments before it
\* all differ from the anchor.
LEMMA IndexOfFirst ==
  ASSUME NEW parts, NEW anchor, NEW i \in DOMAIN parts,
         DOMAIN parts \subseteq Nat, i \in Nat,
         parts[i] = anchor,
         \A j \in 1..(i - 1) : parts[j] # anchor,
         \A j \in DOMAIN parts : j >= 1
  PROVE  IndexOf(parts, anchor) = i
<1> DEFINE First(k) == parts[k] = anchor /\ \A j \in 1..(k - 1) : parts[j] # anchor
<1>1. \A k \in DOMAIN parts : First(k) => k = i
  <2> SUFFICES ASSUME NEW k \in DOMAIN parts, First(k) PROVE k = i
    OBVIOUS
  <2>1. k \in Nat /\ k >= 1 /\ i >= 1
    OBVIOUS
  <2>2. ~(k < i)
    BY <2>1
  <2>3. ~(i < k)
    BY <2>1
  <2> QED
    BY <2>1, <2>2, <2>3
<1> QED
  BY <1>1 DEF IndexOf

\* parts.index finds the first place of an anchor that is among the parts.
LEMMA IndexOfPart ==
  ASSUME NEW S, NEW parts \in Seq(S), NEW anchor,
         \E i \in DOMAIN parts : parts[i] = anchor
  PROVE  /\ IndexOf(parts, anchor) \in DOMAIN parts
         /\ parts[IndexOf(parts, anchor)] = anchor
         /\ \A j \in 1..(IndexOf(parts, anchor) - 1) : parts[j] # anchor
<1> DEFINE A == {i \in DOMAIN parts : parts[i] = anchor}
<1>1. A \subseteq Nat /\ A # {}
  OBVIOUS
<1>2. PICK n \in A : \A m \in A : n <= m
  <2> HIDE DEF A
  <2> QED
    BY <1>1, LeastOf
<1>3. \A j \in 1..(n - 1) : parts[j] # anchor
  <2> SUFFICES ASSUME NEW j \in 1..(n - 1), parts[j] = anchor PROVE FALSE
    OBVIOUS
  <2>1. j \in A
    OBVIOUS
  <2> QED
    BY <1>2, <2>1
<1> QED
  BY <1>2, <1>3 DEF IndexOf

\* A sequence with an element in front.
LEMMA OneMore ==
  ASSUME NEW S, NEW e \in S, NEW rest \in Seq(S)
  PROVE  /\ <<e>> \in Seq(S) \ {<<>>}
         /\ <<e>> \o rest \in Seq(S) \ {<<>>}
<1>1. <<e>> \in Seq(S) /\ Len(<<e>>) = 1
  OBVIOUS
<1>2. <<e>> \o rest \in Seq(S) /\ Len(<<e>> \o rest) = 1 + Len(rest)
  BY <1>1
<1>3. Len(<<>>) = 0
  OBVIOUS
<1>4. Len(<<e>> \o rest) # 0
  BY <1>2
<1>5. <<e>> # <<>> /\ <<e>> \o rest # <<>>
  BY <1>1, <1>3, <1>4
<1> QED
  BY <1>1, <1>2, <1>5

\* A path is made of strings, and has a part.
LEMMA PathOfType ==
  ASSUME NEW raw \in Seq(STRING)
  PROVE  PathOf(raw) \in Seq(STRING) \ {<<>>}
<1> DEFINE rest == Only(raw, Meaningful)
<1>1. rest \in Seq(STRING)
  BY OnlyLists
<1>2. PathOf(raw) = IF IsAbsolute(raw) THEN <<raw[1]>> \o rest
                    ELSE IF rest = <<>> THEN <<".">> ELSE rest
  BY Zenon DEF PathOf, IsAbsolute
<1> HIDE DEF rest
<1>3. ASSUME IsAbsolute(raw) PROVE raw[1] \in STRING
  <2>1. Len(raw) > 1
    BY <1>3, Zenon DEF IsAbsolute
  <2> QED
    BY <2>1
<1>4. <<".">> \in Seq(STRING) \ {<<>>}
  <2>1. "." \in STRING
    BY StringAssumption
  <2> QED
    BY <1>1, <2>1, OneMore
<1>5. IsAbsolute(raw) => <<raw[1]>> \o rest \in Seq(STRING) \ {<<>>}
  BY <1>1, <1>3, OneMore
<1> QED
  BY <1>1, <1>2, <1>4, <1>5

\* A key suffix is made of strings too, when the anchor is a part of the path.
LEMMA KeySuffixType ==
  ASSUME NEW raw \in Seq(STRING) \ {<<>>}, NEW anchor,
         anchor = NoAnchor \/ HasPart(raw, anchor)
  PROVE  LocalPathToKeySuffix(raw, anchor) \in Seq(STRING) \ {<<>>}
<1>1. CASE anchor = NoAnchor
  BY <1>1 DEF LocalPathToKeySuffix
<1>2. CASE anchor # NoAnchor
  <2> DEFINE parts == PathOf(raw)
             rest == SubSeq(parts, IndexOf(parts, anchor) + 1, Len(parts))
  <2>1. parts \in Seq(STRING)
    BY PathOfType
  <2>2. IndexOf(parts, anchor) \in DOMAIN parts
    BY <1>2, <2>1, IndexOfPart DEF HasPart
  <2>3. rest \in Seq(STRING)
    <3> HIDE DEF parts
    <3> QED
      BY <2>1, <2>2
  <2>4. <<".">> \in Seq(STRING) \ {<<>>}
    <3>1. "." \in STRING
      BY StringAssumption
    <3> QED
      BY <2>3, <3>1, OneMore
  <2>5. LocalPathToKeySuffix(raw, anchor) = IF rest = <<>> THEN <<".">> ELSE rest
    BY <1>2 DEF LocalPathToKeySuffix, AfterAnchor
  <2> HIDE DEF rest
  <2> QED
    BY <2>3, <2>4, <2>5
<1> QED
  BY <1>1, <1>2

\* A key is the four segments of NEW_DATA_BUCKET_PATH and the suffix.
LEMMA KeyShape ==
  ASSUME NEW S, NEW did \in S, NEW pid \in S, NEW ds \in S, "data" \in S,
         NEW suffix \in Seq(S)
  PROVE  /\ S3Key(did, pid, ds, suffix) \in Seq(S)
         /\ Len(S3Key(did, pid, ds, suffix)) = Len(suffix) + 4
         /\ S3Key(did, pid, ds, suffix)[1] = "data"
         /\ S3Key(did, pid, ds, suffix)[2] = did
         /\ S3Key(did, pid, ds, suffix)[3] = pid
         /\ S3Key(did, pid, ds, suffix)[4] = ds
         /\ \A i \in 1..Len(suffix) :
               S3Key(did, pid, ds, suffix)[i + 4] = suffix[i]
<1> DEFINE prefix == <<"data", did, pid, ds>>
           key == prefix \o suffix
<1>1. prefix \in Seq(S) /\ Len(prefix) = 4
  OBVIOUS
<1>2. key \in Seq(S) /\ Len(key) = Len(suffix) + 4
  BY <1>1
<1>3. \A i \in 1..4 : key[i] = prefix[i]
  BY <1>1
<1>4. key[1] = "data" /\ key[2] = did /\ key[3] = pid /\ key[4] = ds
  BY <1>3
<1>5. \A i \in 1..Len(suffix) : key[i + 4] = suffix[i]
  BY <1>1
<1>6. S3Key(did, pid, ds, suffix) = key
  BY DEF S3Key
<1> HIDE DEF key
<1> QED
  BY <1>2, <1>4, <1>5, <1>6

\* build_upload_operation_from_put_results takes the dataset as the anchor of
\* an S3 key: it finds the suffix the key was made of, also when the suffix
\* names the dataset again, as long as nothing before the dataset is its name.
THEOREM AnchorFindsSuffix ==
  ASSUME NEW S, NEW did \in S, NEW pid \in S, NEW ds \in S, "data" \in S,
         ds \notin {"data", did, pid},
         NEW suffix \in Seq(S), suffix # <<>>
  PROVE  AfterAnchor(S3Key(did, pid, ds, suffix), ds) = suffix
<1> DEFINE key == S3Key(did, pid, ds, suffix)
<1>1. /\ key \in Seq(S)
      /\ Len(key) = Len(suffix) + 4
      /\ key[1] = "data" /\ key[2] = did /\ key[3] = pid /\ key[4] = ds
      /\ \A i \in 1..Len(suffix) : key[i + 4] = suffix[i]
  BY KeyShape
<1> HIDE DEF key
<1>2. IndexOf(key, ds) = 4
  <2>1. /\ DOMAIN key \subseteq Nat
        /\ 4 \in DOMAIN key /\ 4 \in Nat
        /\ \A j \in DOMAIN key : j >= 1
    BY <1>1
  <2>2. \A j \in 1..(4 - 1) : key[j] # ds
    BY <1>1
  <2> QED
    BY <2>1, <2>2, <1>1, IndexOfFirst
<1>3. SubSeq(key, 4 + 1, Len(key)) = suffix
  BY <1>1
<1>4. AfterAnchor(key, ds) = suffix
  BY <1>2, <1>3 DEF AfterAnchor
<1> QED
  BY <1>4 DEF key

\* pathlib leaves a path without empty and "." segments as it is.
LEMMA CleanPathStays ==
  ASSUME NEW S, NEW raw \in Seq(S), raw # <<>>,
         \A i \in DOMAIN raw : raw[i] \in Meaningful
  PROVE  PathOf(raw) = raw
<1>1. Only(raw, Meaningful) = raw
  BY OnlyAll
<1>2. ~IsAbsolute(raw)
  <2>1. Len(raw) > 1 => 1 \in DOMAIN raw
    OBVIOUS
  <2> QED
    BY <2>1, Zenon DEF IsAbsolute, Meaningful
<1> QED
  BY <1>1, <1>2 DEF PathOf

\* So the key_suffix of the manifest is the suffix the file was uploaded
\* under, for every key that obstore takes.
THEOREM SuffixFoundAgain ==
  ASSUME NEW S, NEW did \in S, NEW pid \in S, NEW ds \in S, "data" \in S,
         ds \notin {"data", did, pid, NoAnchor},
         NEW suffix \in Seq(S), suffix # <<>>,
         \A i \in DOMAIN S3Key(did, pid, ds, suffix) :
             S3Key(did, pid, ds, suffix)[i] \in Meaningful
  PROVE  ManifestSuffix(S3Key(did, pid, ds, suffix), ds) = suffix
<1> DEFINE key == S3Key(did, pid, ds, suffix)
<1>1. key \in Seq(S) /\ Len(key) = Len(suffix) + 4
  BY KeyShape
<1>2. \A i \in DOMAIN key : key[i] \in Meaningful
  OBVIOUS
<1>3. AfterAnchor(key, ds) = suffix
  <2>1. ds \notin {"data", did, pid}
    OBVIOUS
  <2> QED
    BY <2>1, AnchorFindsSuffix
<1> HIDE DEF key
<1>4. PathOf(key) = key
  <2>1. key # <<>>
    BY <1>1
  <2> QED
    BY <1>1, <1>2, <2>1, CleanPathStays
<1>5. ManifestSuffix(key, ds) = suffix
  BY <1>3, <1>4 DEF ManifestSuffix, LocalPathToKeySuffix
<1> QED
  BY <1>5 DEF key

\* And what the response shows of it is that suffix, after the product and
\* the dataset.
LEMMA ResponseSuffixOfKey ==
  ASSUME NEW S, NEW did \in S, NEW pid \in S, NEW ds \in S, "data" \in S,
         NEW suffix \in Seq(S)
  PROVE  ResponseSuffix(S3Key(did, pid, ds, suffix)) = <<pid, ds>> \o suffix
<1> DEFINE key == S3Key(did, pid, ds, suffix)
           shown == <<pid, ds>> \o suffix
           part == SubSeq(key, 3, Len(key))
<1>1. /\ key \in Seq(S)
      /\ Len(key) = Len(suffix) + 4
      /\ key[3] = pid /\ key[4] = ds
      /\ \A i \in 1..Len(suffix) : key[i + 4] = suffix[i]
  BY KeyShape
<1>2. /\ shown \in Seq(S)
      /\ Len(shown) = Len(suffix) + 2
      /\ shown[1] = pid /\ shown[2] = ds
      /\ \A i \in 1..Len(suffix) : shown[i + 2] = suffix[i]
  <2>1. <<pid, ds>> \in Seq(S) /\ Len(<<pid, ds>>) = 2
    OBVIOUS
  <2> QED
    BY <2>1
<1> HIDE DEF key, shown
<1>3. /\ part \in Seq(S)
      /\ Len(part) = Len(suffix) + 2
      /\ \A i \in 1..(Len(suffix) + 2) : part[i] = key[i + 2]
  BY <1>1
<1>4. \A i \in 1..(Len(suffix) + 2) : shown[i] = key[i + 2]
  <2> SUFFICES ASSUME NEW i \in 1..(Len(suffix) + 2) PROVE shown[i] = key[i + 2]
    OBVIOUS
  <2>1. CASE i \in {1, 2}
    BY <1>1, <1>2, <2>1
  <2>2. CASE i \notin {1, 2}
    <3>1. i - 2 \in 1..Len(suffix)
      BY <2>2
    <3>2. shown[(i - 2) + 2] = suffix[i - 2] /\ key[(i - 2) + 4] = suffix[i - 2]
      BY <1>1, <1>2, <3>1
    <3> QED
      BY <3>2
  <2> QED
    BY <2>1, <2>2
<1> HIDE DEF part
<1>5. part = shown
  BY <1>2, <1>3, <1>4
<1> QED
  BY <1>5 DEF part, shown, key, ResponseSuffix

-----------------------------------------------------------------------------
(***************************************************************************)
(* Keys and what pathlib makes of them.                                    *)
(***************************************************************************)
\* What pathlib keeps of a path are strings, neither "" nor ".".
LEMMA KeptSegments ==
  ASSUME NEW path \in Seq(STRING)
  PROVE  /\ Only(path, Meaningful) \in Seq(STRING)
         /\ \A j \in DOMAIN Only(path, Meaningful) :
               Only(path, Meaningful)[j] \in Meaningful
<1> DEFINE only == Only(path, Meaningful)
<1>1. only \in Seq(STRING)
  BY OnlyLists
<1>2. {only[j] : j \in DOMAIN only} = {path[i] : i \in DOMAIN path} \cap Meaningful
  BY OnlyRange
<1> HIDE DEF only
<1>3. \A j \in DOMAIN only : only[j] \in Meaningful
  BY <1>2
<1> QED
  BY <1>1, <1>3 DEF only

\* A meaningful segment is a string that pathlib keeps.
LEMMA MeaningfulIs ==
  /\ Meaningful \subseteq STRING
  /\ \A s \in Meaningful : s \notin {"", "."}
  BY Zenon DEF Meaningful

\* pathlib drops from the suffix of a key what it drops from the suffix alone.
LEMMA PathOfKey ==
  ASSUME NEW did \in Meaningful, NEW pid \in Meaningful, NEW ds \in Meaningful,
         "data" \in Meaningful, NEW suffix \in Seq(STRING)
  PROVE  PathOf(S3Key(did, pid, ds, suffix)) =
             S3Key(did, pid, ds, Only(suffix, Meaningful))
<1> DEFINE head == <<"data", did, pid, ds>>
           rest == Only(suffix, Meaningful)
           key == S3Key(did, pid, ds, suffix)
           kept == S3Key(did, pid, ds, rest)
<1>1. did \in STRING /\ pid \in STRING /\ ds \in STRING /\ "data" \in STRING
  BY MeaningfulIs
<1>2. rest \in Seq(STRING)
  BY KeptSegments
<1>3. Only(key, Meaningful) = kept
  <2>1. head \in Seq(STRING) /\ \A i \in DOMAIN head : head[i] \in Meaningful
    BY <1>1
  <2> HIDE DEF head
  <2>2. Only(head \o suffix, Meaningful) = head \o rest
    BY <2>1, OnlyBehind
  <2> QED
    BY <2>2 DEF S3Key, head
<1>4. key[1] = "data"
  BY <1>1, KeyShape
<1>5. kept \in Seq(STRING) /\ Len(kept) = Len(rest) + 4
  <2> HIDE DEF rest
  <2> QED
    BY <1>1, <1>2, KeyShape
<1> HIDE DEF key, kept, rest
<1>6. ~IsAbsolute(key)
  BY <1>4, MeaningfulIs, Zenon DEF IsAbsolute
<1>7. kept # <<>>
  BY <1>2, <1>5
<1> QED
  BY <1>3, <1>6, <1>7, Zenon DEF PathOf, key, kept, rest

\* What the manifest gets of a key is what pathlib makes of the suffix.
LEMMA SuffixBack ==
  ASSUME NEW did \in Meaningful, NEW pid \in Meaningful, NEW ds \in Meaningful,
         "data" \in Meaningful, ds \notin {"data", did, pid, NoAnchor},
         NEW suffix \in Seq(STRING), ~IsAbsolute(suffix)
  PROVE  ManifestSuffix(S3Key(did, pid, ds, suffix), ds) = PathOf(suffix)
<1> DEFINE rest == Only(suffix, Meaningful)
           key == S3Key(did, pid, ds, rest)
<1>1. did \in STRING /\ pid \in STRING /\ ds \in STRING /\ "data" \in STRING
  BY MeaningfulIs
<1>2. rest \in Seq(STRING)
  BY KeptSegments
<1>3. ManifestSuffix(S3Key(did, pid, ds, suffix), ds) = AfterAnchor(key, ds)
  BY PathOfKey DEF ManifestSuffix, LocalPathToKeySuffix
<1>4. PathOf(suffix) = IF rest = <<>> THEN <<".">> ELSE rest
  BY Zenon DEF PathOf
<1> HIDE DEF rest
<1>5. rest # <<>> => AfterAnchor(key, ds) = rest
  <2>1. ds \notin {"data", did, pid}
    OBVIOUS
  <2> QED
    BY <1>1, <1>2, <2>1, AnchorFindsSuffix
<1>6. /\ key \in Seq(STRING) /\ Len(key) = Len(rest) + 4
      /\ key[1] = "data" /\ key[2] = did /\ key[3] = pid /\ key[4] = ds
  BY <1>1, <1>2, KeyShape
<1> HIDE DEF key
<1>7. IndexOf(key, ds) = 4
  <2>1. /\ DOMAIN key \subseteq Nat
        /\ 4 \in DOMAIN key /\ 4 \in Nat
        /\ \A j \in DOMAIN key : j >= 1
    BY <1>2, <1>6
  <2>2. \A j \in 1..(4 - 1) : key[j] # ds
    BY <1>6
  <2> QED
    BY <1>6, <2>1, <2>2, IndexOfFirst
<1>8. rest = <<>> => SubSeq(key, IndexOf(key, ds) + 1, Len(key)) = <<>>
  BY <1>6, <1>7
<1>9. rest = <<>> => AfterAnchor(key, ds) = <<".">>
  BY <1>8, Zenon DEF AfterAnchor
<1> QED
  BY <1>3, <1>4, <1>5, <1>9, Zenon DEF key

-----------------------------------------------------------------------------
(***************************************************************************)
(* What comes behind an anchor.                                            *)
(***************************************************************************)
\* Only the first part of what pathlib makes of a path can be "" or ".".
LEMMA PathShape ==
  ASSUME NEW path \in Seq(STRING)
  PROVE  \A k \in DOMAIN PathOf(path) : k > 1 => PathOf(path)[k] \in Meaningful
<1> DEFINE rest == Only(path, Meaningful)
<1>1. /\ rest \in Seq(STRING)
      /\ \A j \in DOMAIN rest : rest[j] \in Meaningful
  BY KeptSegments
<1> HIDE DEF rest
<1>2. CASE IsAbsolute(path)
  <2>1. \E e : PathOf(path) = <<e>> \o rest
    BY <1>2, Zenon DEF PathOf, rest
  <2>2. PICK e : PathOf(path) = <<e>> \o rest
    BY <2>1
  <2>3. \A k \in DOMAIN (<<e>> \o rest) :
           k > 1 => k - 1 \in DOMAIN rest /\ (<<e>> \o rest)[k] = rest[k - 1]
    BY <1>1
  <2> QED
    BY <1>1, <2>2, <2>3
<1>3. CASE ~IsAbsolute(path) /\ rest = <<>>
  <2>1. \E e : PathOf(path) = <<e>>
    BY <1>3, Zenon DEF PathOf, rest
  <2> QED
    BY <2>1
<1>4. CASE ~IsAbsolute(path) /\ rest # <<>>
  <2>1. PathOf(path) = rest
    BY <1>4, Zenon DEF PathOf, rest
  <2> QED
    BY <1>1, <2>1
<1> QED
  BY <1>2, <1>3, <1>4

\* The suffix of an anchored path: all that comes behind the first part that
\* is the anchor, or ".".
LEMMA BehindAnchor ==
  ASSUME NEW path \in Seq(STRING), NEW mark, mark # NoAnchor, HasPart(path, mark)
  PROVE  \/ LocalPathToKeySuffix(path, mark) = <<".">>
         \/ \E at \in DOMAIN PathOf(path) :
               /\ PathOf(path)[at] = mark
               /\ \A i \in 1..(at - 1) : PathOf(path)[i] # mark
               /\ Len(LocalPathToKeySuffix(path, mark)) = Len(PathOf(path)) - at
               /\ Len(LocalPathToKeySuffix(path, mark)) > 0
               /\ \A i \in DOMAIN LocalPathToKeySuffix(path, mark) :
                     LocalPathToKeySuffix(path, mark)[i] \in Meaningful
<1> DEFINE parts == PathOf(path)
           at == IndexOf(parts, mark)
           rest == SubSeq(parts, at + 1, Len(parts))
           suffix == LocalPathToKeySuffix(path, mark)
<1>1. parts \in Seq(STRING)
  BY PathOfType
<1>2. \A k \in DOMAIN parts : k > 1 => parts[k] \in Meaningful
  BY PathShape
<1>3. \E i \in DOMAIN parts : parts[i] = mark
  BY DEF HasPart
<1>4. suffix = IF rest = <<>> THEN <<".">> ELSE rest
  BY Zenon DEF LocalPathToKeySuffix, AfterAnchor
<1> HIDE DEF parts
<1>5. /\ at \in DOMAIN parts
      /\ parts[at] = mark
      /\ \A j \in 1..(at - 1) : parts[j] # mark
  BY <1>1, <1>3, IndexOfPart
<1> HIDE DEF at, suffix
<1>6. /\ Len(rest) = Len(parts) - at
      /\ \A i \in DOMAIN rest : i + at \in DOMAIN parts /\ i + at > 1
                               /\ rest[i] = parts[i + at]
      /\ Len(rest) \in Nat
      /\ rest # <<>> => Len(rest) > 0
  BY <1>1, <1>5
<1> HIDE DEF rest
<1>7. CASE rest = <<>>
  BY <1>4, <1>7, Zenon DEF suffix
<1>8. CASE rest # <<>>
  <2>1. suffix = rest
    BY <1>4, <1>8, Zenon
  <2>2. \A i \in DOMAIN suffix : suffix[i] \in Meaningful
    BY <1>2, <1>6, <2>1
  <2>3. Len(suffix) = Len(parts) - at /\ Len(suffix) > 0
    BY <1>6, <1>8, <2>1
  <2> QED
    BY <1>5, <2>2, <2>3, Zenon DEF suffix, parts
<1> QED
  BY <1>7, <1>8

\* What stands behind a part, which may be nothing.
LEMMA TailOf ==
  ASSUME NEW S, NEW parts \in Seq(S), NEW at \in DOMAIN parts
  PROVE  /\ SubSeq(parts, at + 1, Len(parts)) \in Seq(S)
         /\ Len(SubSeq(parts, at + 1, Len(parts))) = Len(parts) - at
         /\ \A i \in 1..Len(SubSeq(parts, at + 1, Len(parts))) :
               SubSeq(parts, at + 1, Len(parts))[i] = parts[at + i]
<1> DEFINE tail == SubSeq(parts, at + 1, Len(parts))
<1>1. Len(tail) = Len(parts) - at
  OBVIOUS
<1>2. \A i \in 1..(Len(parts) - at) : tail[i] = parts[at + i]
  OBVIOUS
<1>3. tail \in Seq(S)
  OBVIOUS
<1> QED
  BY <1>1, <1>2, <1>3

\* The manifest tells suffixes apart that pathlib leaves as they are, whichever
\* segment of the key is the first to be the dataset.
LEMMA SuffixesDiffer ==
  ASSUME NEW did \in Meaningful, NEW pid \in Meaningful, NEW ds \in Meaningful,
         "data" \in Meaningful, ds # NoAnchor,
         NEW clean \in Seq(STRING), clean # <<>>,
         \A i \in DOMAIN clean : clean[i] \in Meaningful,
         NEW other \in Seq(STRING),
         other = <<".">> \/ \A i \in DOMAIN other : other[i] \in Meaningful,
         ManifestSuffix(S3Key(did, pid, ds, clean), ds) =
             ManifestSuffix(S3Key(did, pid, ds, other), ds)
  PROVE  other = clean
<1> DEFINE rest == Only(other, Meaningful)
           key == S3Key(did, pid, ds, clean)
           kept == S3Key(did, pid, ds, rest)
           at == IndexOf(key, ds)
           tail == SubSeq(key, at + 1, Len(key))
           left == SubSeq(kept, at + 1, Len(kept))
<1>1. rest = other \/ rest = <<>>
  <2>1. CASE \A i \in DOMAIN other : other[i] \in Meaningful
    BY <2>1, OnlyAll
  <2>2. CASE other = <<".">>
    <3>1. PICK dot : other = <<dot>> /\ dot \notin Meaningful
      BY <2>2, MeaningfulIs, Zenon
    <3>2. {rest[j] : j \in DOMAIN rest} = {other[i] : i \in DOMAIN other} \cap Meaningful
      BY OnlyRange
    <3>3. rest \in Seq(STRING)
      BY KeptSegments
    <3> HIDE DEF rest
    <3>4. {rest[j] : j \in DOMAIN rest} = {}
      BY <3>1, <3>2
    <3>5. rest # <<>> => 1 \in DOMAIN rest
      BY <3>3
    <3> QED
      BY <3>4, <3>5
  <2> QED
    BY <2>1, <2>2
<1>2. /\ rest \in Seq(STRING)
      /\ \A j \in DOMAIN rest : rest[j] \in Meaningful
  BY KeptSegments
<1>3. PathOf(key) = key
  <2>1. Only(clean, Meaningful) = clean
    BY OnlyAll
  <2> QED
    BY <2>1, PathOfKey
<1>4. PathOf(S3Key(did, pid, ds, other)) = kept
  BY PathOfKey
<1>5. AfterAnchor(key, ds) = AfterAnchor(kept, ds)
  BY <1>3, <1>4 DEF ManifestSuffix, LocalPathToKeySuffix
<1> HIDE DEF rest
<1>6. clean \in Seq(Meaningful) /\ Len(clean) > 0 /\ rest \in Seq(Meaningful)
  BY <1>2
<1>7. /\ key \in Seq(Meaningful) /\ Len(key) = Len(clean) + 4
      /\ key[1] = "data" /\ key[2] = did /\ key[3] = pid /\ key[4] = ds
      /\ \A i \in 1..Len(clean) : key[i + 4] = clean[i]
  BY <1>6, KeyShape
<1>8. /\ kept \in Seq(Meaningful) /\ Len(kept) = Len(rest) + 4
      /\ kept[1] = "data" /\ kept[2] = did /\ kept[3] = pid /\ kept[4] = ds
      /\ \A i \in 1..Len(rest) : kept[i + 4] = rest[i]
  BY <1>6, KeyShape
<1> HIDE DEF key, kept
<1>9. /\ at \in 1..4 /\ key[at] = ds
      /\ \A j \in 1..(at - 1) : key[j] # ds
  <2>1. 4 \in DOMAIN key
    BY <1>6, <1>7
  <2>2. /\ at \in DOMAIN key /\ key[at] = ds
        /\ \A j \in 1..(at - 1) : key[j] # ds
    BY <1>7, <2>1, IndexOfPart
  <2> HIDE DEF at
  <2> QED
    BY <1>7, <2>2
<1> HIDE DEF at
<1>10. IndexOf(kept, ds) = at
  <2>1. \A j \in 1..4 : kept[j] = key[j]
    BY <1>7, <1>8
  <2>2. /\ DOMAIN kept \subseteq Nat /\ at \in DOMAIN kept /\ at \in Nat
        /\ \A j \in DOMAIN kept : j >= 1
        /\ kept[at] = ds
        /\ \A j \in 1..(at - 1) : kept[j] # ds
    BY <1>6, <1>8, <1>9, <2>1
  <2> QED
    BY <2>2, IndexOfFirst
<1>11. /\ tail \in Seq(Meaningful) /\ Len(tail) = Len(key) - at
       /\ \A i \in 1..Len(tail) : tail[i] = key[at + i]
  <2>1. key \in Seq(Meaningful) /\ at \in DOMAIN key
    BY <1>6, <1>7, <1>9
  <2> QED
    BY <2>1, TailOf
<1>12. /\ left \in Seq(Meaningful) /\ Len(left) = Len(kept) - at
       /\ \A i \in 1..Len(left) : left[i] = kept[at + i]
  <2>1. kept \in Seq(Meaningful) /\ at \in DOMAIN kept
    BY <1>6, <1>8, <1>9
  <2> QED
    BY <2>1, TailOf
<1>13. /\ AfterAnchor(key, ds) = IF tail = <<>> THEN <<".">> ELSE tail
       /\ AfterAnchor(kept, ds) = IF left = <<>> THEN <<".">> ELSE left
  BY <1>10, Zenon DEF AfterAnchor, at, tail, left
<1> HIDE DEF tail, left
<1>14. tail # <<>> /\ tail[1] \in Meaningful
  BY <1>6, <1>7, <1>9, <1>11
<1>15. tail # <<".">>
  <2>1. \A e : <<e>>[1] = e
    OBVIOUS
  <2> QED
    BY <1>14, <2>1, MeaningfulIs, Zenon
<1>16. tail = left
  BY <1>5, <1>13, <1>14, <1>15, Zenon
<1>17. Len(rest) = Len(clean)
  BY <1>6, <1>7, <1>8, <1>9, <1>11, <1>12, <1>16
<1>18. ASSUME NEW i \in 1..Len(clean) PROVE clean[i] = rest[i]
  <2>1. /\ (i + 4) - at \in 1..Len(tail)
        /\ at + ((i + 4) - at) = i + 4
    BY <1>6, <1>7, <1>9, <1>11
  <2>2. key[i + 4] = kept[i + 4]
    BY <1>11, <1>12, <1>16, <2>1
  <2> QED
    BY <1>7, <1>8, <1>17, <2>2
<1>19. rest = clean
  BY <1>6, <1>17, <1>18
<1> QED
  BY <1>1, <1>19

\* The suffix of a file that is spelled as str(Path(...)) spells it is left as
\* it is by pathlib.
LEMMA CleanSuffix ==
  ASSUME NEW raw \in Seq(STRING), PathOf(raw) = raw, NEW anchor,
         IF anchor = NoAnchor THEN ~IsAbsolute(raw) ELSE HasPart(raw, anchor)
  PROVE  \/ LocalPathToKeySuffix(raw, anchor) = <<".">>
         \/ \A i \in DOMAIN LocalPathToKeySuffix(raw, anchor) :
               LocalPathToKeySuffix(raw, anchor)[i] \in Meaningful
<1>1. CASE anchor # NoAnchor
  BY <1>1, BehindAnchor
<1>2. CASE anchor = NoAnchor
  <2> DEFINE rest == Only(raw, Meaningful)
  <2>1. \A j \in DOMAIN rest : rest[j] \in Meaningful
    BY KeptSegments
  <2>2. raw = IF rest = <<>> THEN <<".">> ELSE rest
    BY <1>2, Zenon DEF PathOf
  <2>3. LocalPathToKeySuffix(raw, anchor) = raw
    BY <1>2 DEF LocalPathToKeySuffix
  <2> HIDE DEF rest
  <2> QED
    BY <2>1, <2>2, <2>3
<1> QED
  BY <1>1, <1>2
=============================================================================

----------------------------- MODULE ListLemmas -----------------------------
(***************************************************************************)
(* Lemmas on what the firmware keeps its data in.                          *)
(*                                                                         *)
(* The lists of app/list.c are sequences: list_add_tail is Append,         *)
(* unlinking the first entry is Tail, and unlinking the entry at a         *)
(* position is RemoveAt.  Pick selects the entries of a kind.  A stream of *)
(* bytes is a sequence too, the frames in it one after the other           *)
(* (FlattenSeq).  UartRecvBuf and ble_recv_array are rings: functions of   *)
(* the cells, with the cursors where the next unit is written and read.    *)
(***************************************************************************)
EXTENDS Lists, SequencesExt, SequenceTheorems, FiniteSetTheorems,
        WellFoundedInduction, TLAPS

\* The members of a list are what its positions hold.
LEMMA MembersOfSeq ==
  ASSUME NEW S, NEW s \in Seq(S)
  PROVE  /\ Range(s) = {s[i] : i \in 1 .. Len(s)}
         /\ DOMAIN s = 1 .. Len(s) /\ Len(s) \in Nat
         /\ \A i \in 1 .. Len(s) : s[i] \in S
BY RangeEquality

\* list_add_tail adds one member; a list without duplicates stays so when
\* the new member was not on it.
LEMMA AppendMembers ==
  ASSUME NEW S, NEW s \in Seq(S), NEW e \in S
  PROVE  /\ Append(s, e) \in Seq(S)
         /\ Range(Append(s, e)) = Range(s) \cup {e}
         /\ IsInjective(s) /\ e \notin Range(s) => IsInjective(Append(s, e))
<1> DEFINE a == Append(s, e)
<1>1. /\ a \in Seq(S) /\ Len(a) = Len(s) + 1 /\ Len(s) \in Nat
      /\ \A i \in 1 .. Len(s) : a[i] = s[i]
      /\ a[Len(s) + 1] = e
  BY AppendProperties
<1> HIDE DEF a
<1>2. /\ Range(s) = {s[i] : i \in 1 .. Len(s)} /\ DOMAIN s = 1 .. Len(s)
      /\ Range(a) = {a[i] : i \in 1 .. Len(a)} /\ DOMAIN a = 1 .. Len(a)
  BY <1>1, MembersOfSeq
<1>3. Range(a) = Range(s) \cup {e}
  <2>1. ASSUME NEW x \in Range(a) PROVE x \in Range(s) \cup {e}
    BY <1>1, <1>2
  <2>2. ASSUME NEW x \in Range(s) PROVE x \in Range(a)
    <3>1. PICK i \in 1 .. Len(s) : x = s[i]
      BY <1>2
    <3>2. i \in 1 .. Len(a) /\ a[i] = x
      BY <1>1, <3>1
    <3> QED
      BY <1>2, <3>2
  <2>3. e \in Range(a)
    <3>1. Len(s) + 1 \in 1 .. Len(a)
      BY <1>1
    <3> QED
      BY <1>1, <1>2, <3>1
  <2> QED
    BY <2>1, <2>2, <2>3
<1>4. ASSUME IsInjective(s), e \notin Range(s)
      PROVE  IsInjective(a)
  BY <1>1, <1>2, <1>4 DEF IsInjective
<1> QED
  BY <1>1, <1>3, <1>4 DEF a

\* Taking the first member off a list.
LEMMA TailMembers ==
  ASSUME NEW S, NEW s \in Seq(S), s # <<>>
  PROVE  /\ Head(s) \in S /\ Head(s) \in Range(s)
         /\ Tail(s) \in Seq(S)
         /\ Range(Tail(s)) \subseteq Range(s)
         /\ Range(s) = Range(Tail(s)) \cup {Head(s)}
         /\ IsInjective(s) => /\ IsInjective(Tail(s))
                              /\ Head(s) \notin Range(Tail(s))
<1> DEFINE r == Tail(s)
<1>1. /\ r \in Seq(S) /\ Head(s) \in S /\ Head(s) = s[1]
      /\ Len(r) = Len(s) - 1
      /\ Len(s) \in Nat /\ Len(s) > 0
      /\ \A i \in 1 .. Len(r) : r[i] = s[i + 1]
  BY HeadTailProperties
<1> HIDE DEF r
<1>2. /\ Range(s) = {s[i] : i \in 1 .. Len(s)} /\ DOMAIN s = 1 .. Len(s)
      /\ Range(r) = {r[i] : i \in 1 .. Len(r)} /\ DOMAIN r = 1 .. Len(r)
  BY <1>1, MembersOfSeq
<1>3. /\ Head(s) \in Range(s) /\ Range(r) \subseteq Range(s)
      /\ Range(s) = Range(r) \cup {Head(s)}
  <2>1. Head(s) \in Range(s) /\ Range(r) \subseteq Range(s)
    BY <1>1, <1>2
  <2>2. ASSUME NEW i \in 1 .. Len(s), i # 1 PROVE s[i] \in Range(r)
    <3>1. i - 1 \in 1 .. Len(r) /\ r[i - 1] = s[i]
      BY <1>1, <2>2
    <3> QED
      BY <1>2, <3>1
  <2> QED
    BY <1>1, <1>2, <2>1, <2>2
<1>4. ASSUME IsInjective(s)
      PROVE  IsInjective(r) /\ Head(s) \notin Range(r)
  <2>1. IsInjective(r)
    <3> SUFFICES ASSUME NEW i \in 1 .. Len(r), NEW j \in 1 .. Len(r),
                        r[i] = r[j]
                 PROVE  i = j
      BY <1>2 DEF IsInjective
    <3>1. s[i + 1] = s[j + 1] /\ i + 1 \in 1 .. Len(s) /\ j + 1 \in 1 .. Len(s)
      BY <1>1
    <3>2. i + 1 = j + 1
      BY <1>2, <1>4, <3>1 DEF IsInjective
    <3> QED
      BY <1>1, <3>2
  <2>2. ASSUME Head(s) \in Range(r) PROVE FALSE
    <3>1. PICK i \in 1 .. Len(r) : r[i] = s[1]
      BY <1>1, <1>2, <2>2
    <3>2. s[i + 1] = s[1] /\ i + 1 \in 1 .. Len(s) /\ 1 \in 1 .. Len(s)
      BY <1>1, <3>1
    <3>3. i + 1 = 1
      BY <1>2, <1>4, <3>2 DEF IsInjective
    <3> QED
      BY <1>1, <3>3
  <2> QED
    BY <2>1, <2>2
<1> QED
  BY <1>1, <1>3, <1>4 DEF r

\* list_del of the member at a position.
LEMMA RemoveAtMembers ==
  ASSUME NEW S, NEW s \in Seq(S), NEW k \in 1 .. Len(s)
  PROVE  /\ RemoveAt(s, k) \in Seq(S)
         /\ Range(RemoveAt(s, k)) \subseteq Range(s)
         /\ Range(s) \subseteq Range(RemoveAt(s, k)) \cup {s[k]}
         /\ IsInjective(s) => /\ IsInjective(RemoveAt(s, k))
                              /\ s[k] \notin Range(RemoveAt(s, k))
<1> DEFINE l == SubSeq(s, 1, k - 1)
           t == SubSeq(s, k + 1, Len(s))
           r == l \o t
<1>1. /\ Len(s) \in Nat /\ k \in Nat /\ DOMAIN s = 1 .. Len(s)
      /\ Range(s) = {s[i] : i \in 1 .. Len(s)}
      /\ \A i \in 1 .. Len(s) : s[i] \in S
  BY MembersOfSeq
<1>2. /\ l \in Seq(S) /\ Len(l) = k - 1
      /\ \A i \in 1 .. k - 1 : l[i] = s[i]
  BY <1>1, SubSeqProperties
<1>3. /\ t \in Seq(S) /\ Len(t) = Len(s) - k
      /\ \A i \in 1 .. Len(s) - k : t[i] = s[k + i]
  <2>1. k + 1 \in Int /\ Len(s) \in Int /\ \A i \in k + 1 .. Len(s) : s[i] \in S
    BY <1>1
  <2>2. /\ t \in Seq(S)
        /\ Len(t) = IF k + 1 <= Len(s) THEN Len(s) - (k + 1) + 1 ELSE 0
        /\ \A i \in 1 .. Len(s) - (k + 1) + 1 : t[i] = s[(k + 1) + i - 1]
    BY <2>1, SubSeqProperties
  <2> HIDE DEF t
  <2>3. Len(t) = Len(s) - k
    <3>1. Len(s) \in Nat /\ k \in 1 .. Len(s)
      BY <1>1
    <3>2. Len(t) = IF k + 1 <= Len(s) THEN Len(s) - (k + 1) + 1 ELSE 0
      BY <2>2
    <3> QED
      BY <3>1, <3>2
  <2>4. ASSUME NEW i \in 1 .. Len(s) - k PROVE t[i] = s[k + i]
    <3>1. i \in 1 .. Len(s) - (k + 1) + 1 /\ (k + 1) + i - 1 = k + i
      BY <1>1
    <3> QED
      BY <2>2, <3>1
  <2> QED
    BY <2>2, <2>3, <2>4
<1>4. /\ r \in Seq(S) /\ Len(r) = Len(s) - 1
      /\ \A i \in 1 .. Len(s) - 1 : r[i] = IF i < k THEN s[i] ELSE s[i + 1]
  <2> HIDE DEF l, t
  <2>1. /\ r \in Seq(S) /\ Len(r) = Len(l) + Len(t)
        /\ \A i \in 1 .. Len(l) + Len(t) :
             r[i] = IF i <= Len(l) THEN l[i] ELSE t[i - Len(l)]
    BY <1>2, <1>3, ConcatProperties
  <2> HIDE DEF r
  <2>2. Len(r) = Len(s) - 1
    BY <1>1, <1>2, <1>3, <2>1
  <2>3. ASSUME NEW i \in 1 .. Len(s) - 1
        PROVE  r[i] = IF i < k THEN s[i] ELSE s[i + 1]
    <3>1. Len(s) \in Nat /\ k \in 1 .. Len(s)
      BY <1>1
    <3>2. r[i] = IF i <= k - 1 THEN l[i] ELSE t[i - (k - 1)]
      <4>1. i \in 1 .. Len(l) + Len(t) /\ Len(l) = k - 1
        BY <1>2, <1>3, <3>1
      <4> QED
        BY <2>1, <4>1
    <3>3. CASE i < k
      <4>1. i \in 1 .. k - 1
        BY <3>1, <3>3
      <4> QED
        BY <1>2, <3>1, <3>2, <3>3, <4>1
    <3>4. CASE ~(i < k)
      <4>1. i - (k - 1) \in 1 .. Len(s) - k /\ k + (i - (k - 1)) = i + 1
        BY <3>1, <3>4
      <4>2. r[i] = t[i - (k - 1)]
        BY <3>1, <3>2, <3>4
      <4> QED
        BY <1>3, <3>4, <4>1, <4>2
    <3> QED
      BY <3>3, <3>4
  <2> QED
    BY <2>1, <2>2, <2>3
<1>5. Range(r) = {r[i] : i \in 1 .. Len(r)} /\ DOMAIN r = 1 .. Len(r)
  <2> HIDE DEF r
  <2> QED
    BY <1>4, MembersOfSeq
<1> HIDE DEF r
<1>6. Range(r) \subseteq Range(s)
  BY <1>1, <1>4, <1>5
<1>7. ASSUME NEW i \in 1 .. Len(s), i # k PROVE s[i] \in Range(r)
  <2> DEFINE j == IF i < k THEN i ELSE i - 1
  <2>1. j \in 1 .. Len(r) /\ r[j] = s[i]
    BY <1>1, <1>4, <1>7
  <2> HIDE DEF j
  <2> QED
    BY <1>5, <2>1
<1>8. Range(s) \subseteq Range(r) \cup {s[k]}
  BY <1>1, <1>7
<1>9. ASSUME IsInjective(s)
      PROVE  IsInjective(r) /\ s[k] \notin Range(r)
  <2> DEFINE src(i) == IF i < k THEN i ELSE i + 1
  <2>1. \A i \in 1 .. Len(r) : /\ src(i) \in 1 .. Len(s) /\ src(i) # k
                               /\ r[i] = s[src(i)]
    BY <1>1, <1>4
  <2>2. \A i, j \in 1 .. Len(r) : src(i) = src(j) => i = j
    BY <1>1, <1>4
  <2>3. \A i, j \in 1 .. Len(s) : s[i] = s[j] => i = j
    BY <1>1, <1>9 DEF IsInjective
  <2> HIDE DEF src
  <2>4. IsInjective(r)
    BY <1>5, <2>1, <2>2, <2>3 DEF IsInjective
  <2>5. s[k] \notin Range(r)
    BY <1>5, <2>1, <2>3
  <2> QED
    BY <2>4, <2>5
<1> QED
  BY <1>4, <1>6, <1>8, <1>9 DEF r, RemoveAt

\* A list without duplicates is as long as its members are many.
LEMMA InjectiveLen ==
  ASSUME NEW S, NEW s \in Seq(S), IsInjective(s), IsFiniteSet(S)
  PROVE  Len(s) = Cardinality(Range(s)) /\ Len(s) <= Cardinality(S)
<1>1. /\ Len(s) \in Nat /\ DOMAIN s = 1 .. Len(s)
      /\ Range(s) = {s[i] : i \in 1 .. Len(s)} /\ Range(s) \subseteq S
  BY MembersOfSeq
<1> DEFINE f == [i \in 1 .. Len(s) |-> s[i]]
<1>2. f \in Bijection(1 .. Len(s), Range(s))
  BY <1>1 DEF Bijection, Injection, Surjection, IsInjective
<1>3. ExistsBijection(1 .. Len(s), Range(s))
  BY <1>2 DEF ExistsBijection
<1>4. IsFiniteSet(1 .. Len(s)) /\ Cardinality(1 .. Len(s)) = Len(s)
  BY <1>1, FS_Interval
<1>5. Cardinality(Range(s)) = Len(s)
  BY <1>3, <1>4, FS_Bijection
<1> QED
  BY <1>1, <1>5, FS_Subset

\* A list without duplicates that misses a buffer is shorter than there are
\* buffers.
LEMMA RoomForOneMore ==
  ASSUME NEW S, NEW s \in Seq(S), IsInjective(s), IsFiniteSet(S),
         NEW e \in S, e \notin Range(s)
  PROVE  Len(s) < Cardinality(S)
<1>1. Len(s) \in Nat /\ Range(s) \subseteq S
  BY MembersOfSeq
<1>2. IsFiniteSet(Range(s)) /\ Len(s) = Cardinality(Range(s))
  BY <1>1, InjectiveLen, FS_Subset
<1>3. /\ Cardinality(Range(s)) \in Nat /\ Cardinality(S) \in Nat
      /\ Cardinality(Range(s)) <= Cardinality(S)
      /\ Cardinality(Range(s)) # Cardinality(S)
  BY <1>1, <1>2, FS_Subset, FS_CardinalityType
<1> QED
  BY <1>2, <1>3

-----------------------------------------------------------------------------
(* Pick: what a filter does to the operations on lists, by induction.      *)

\* Induction over the naturals: what fails somewhere fails first somewhere.
LEMMA LeastElement ==
  ASSUME NEW S, S \subseteq Nat, S # {}
  PROVE  \E n \in S : \A m \in S : n <= m
<1> DEFINE R == {ss \in Nat \X Nat : ss[1] < ss[2]}
<1>1. IsWellFoundedOn(R, Nat)
  BY NatLessThanWellFounded DEF OpToRel
<1>2. \A m, n \in Nat : m < n => <<m, n>> \in R
  OBVIOUS
<1> HIDE DEF R
<1>3. PICK n \in S : \A m \in S : ~(<<m, n>> \in R)
  BY <1>1, WFMin
<1>4. \A m \in S : ~(m < n)
  BY <1>2, <1>3
<1> QED
  BY <1>4

\* Induction up to a bound: what the proofs over lists cite, the set being
\* that of the positions where the claim holds.
LEMMA InductionUpTo ==
  ASSUME NEW n \in Nat, NEW S, 0 \in S,
         \A i \in 1 .. n : i - 1 \in S => i \in S
  PROVE  \A i \in 0 .. n : i \in S
<1> DEFINE Bad == {i \in 0 .. n : i \notin S}
<1>1. ASSUME NEW i \in Bad, \A m \in Bad : i <= m PROVE FALSE
  <2>1. i \in 1 .. n /\ i - 1 \in 0 .. n /\ ~(i <= i - 1)
    OBVIOUS
  <2>2. i - 1 \in S
    BY <1>1, <2>1
  <2> QED
    BY <2>1, <2>2
<1>2. Bad \subseteq Nat
  OBVIOUS
<1>3. Bad = {}
  <2> HIDE DEF Bad
  <2> QED
    BY <1>1, <1>2, LeastElement
<1> QED
  BY <1>3

\* A table of the entries picked from each prefix of a list.
Picking(f, s, S, U) ==
  /\ f \in [0 .. Len(s) -> Seq(U)]
  /\ f[0] = <<>>
  /\ \A i \in 1 .. Len(s) :
       f[i] = IF s[i] \in S THEN Append(f[i - 1], s[i]) ELSE f[i - 1]

LEMMA PickingExists ==
  ASSUME NEW U, NEW s \in Seq(U), NEW S
  PROVE  \E f : Picking(f, s, S, U)
<1> DEFINE T(f, n) ==
      /\ f \in [0 .. n -> Seq(U)]
      /\ f[0] = <<>>
      /\ \A i \in 1 .. n :
           f[i] = IF s[i] \in S THEN Append(f[i - 1], s[i]) ELSE f[i - 1]
    Good == {n \in Nat : \E f : T(f, n)}
<1>1. Len(s) \in Nat /\ \A i \in 1 .. Len(s) : s[i] \in U
  BY MembersOfSeq
<1>2. 0 \in Good
  <2> DEFINE f == [i \in 0 .. 0 |-> <<>>]
  <2>1. T(f, 0)
    OBVIOUS
  <2> QED
    BY <2>1
<1>3. ASSUME NEW n \in 1 .. Len(s), n - 1 \in Good PROVE n \in Good
  <2>1. PICK g : T(g, n - 1)
    BY <1>3
  <2> DEFINE new == IF s[n] \in S THEN Append(g[n - 1], s[n]) ELSE g[n - 1]
             f == [i \in 0 .. n |-> IF i = n THEN new ELSE g[i]]
  <2>2. new \in Seq(U)
    <3>1. g[n - 1] \in Seq(U) /\ s[n] \in U
      BY <1>1, <2>1
    <3> QED
      BY <3>1, AppendMembers
  <2> HIDE DEF new
  <2>3. T(f, n)
    <3>1. f \in [0 .. n -> Seq(U)] /\ f[0] = <<>>
      BY <2>1, <2>2
    <3>2. ASSUME NEW i \in 1 .. n
          PROVE  f[i] = IF s[i] \in S THEN Append(f[i - 1], s[i]) ELSE f[i - 1]
      <4>1. f[i - 1] = g[i - 1]
        OBVIOUS
      <4>2. CASE i = n
        BY <4>1, <4>2 DEF new
      <4>3. CASE i # n
        <5>1. i \in 1 .. n - 1 /\ f[i] = g[i]
          BY <4>3
        <5> QED
          BY <2>1, <4>1, <5>1
      <4> QED
        BY <4>2, <4>3
    <3> QED
      BY <3>1, <3>2
  <2> HIDE DEF f
  <2>4. \E h : T(h, n)
    BY <2>3
  <2>5. n \in Nat
    BY <1>1
  <2> HIDE DEF T
  <2> QED
    BY <2>4, <2>5
<1>4. Len(s) \in 0 .. Len(s)
  BY <1>1
<1>5. Len(s) \in Good
  <2> HIDE DEF Good
  <2> QED
    BY <1>1, <1>2, <1>3, <1>4, InductionUpTo
<1>6. \E f : T(f, Len(s))
  <2> HIDE DEF T
  <2> QED
    BY <1>5
<1> QED
  BY <1>6 DEF Picking

\* Lists that agree on a prefix, and on what to pick there, agree on what is
\* picked from it.
LEMMA PickingAgrees ==
  ASSUME NEW U, NEW s \in Seq(U), NEW t \in Seq(U), NEW S, NEW T,
         NEW f, NEW g, Picking(f, s, S, U), Picking(g, t, T, U),
         NEW n \in Nat, n <= Len(s), n <= Len(t),
         \A i \in 1 .. n : s[i] = t[i] /\ (s[i] \in S <=> s[i] \in T)
  PROVE  f[n] = g[n]
<1> DEFINE Good == {i \in 0 .. n : f[i] = g[i]}
<1>1. 0 \in Good
  BY DEF Picking
<1>2. ASSUME NEW i \in 1 .. n, i - 1 \in Good PROVE i \in Good
  <2>1. i \in 1 .. Len(s) /\ i \in 1 .. Len(t)
    BY MembersOfSeq
  <2>2. f[i] = g[i]
    BY <1>2, <2>1 DEF Picking
  <2> QED
    BY <2>2
<1>3. n \in Good
  <2>1. n \in 0 .. n
    OBVIOUS
  <2> HIDE DEF Good
  <2> QED
    BY ONLY <1>1, <1>2, <2>1, n \in Nat, InductionUpTo
<1> QED
  BY <1>3

LEMMA PickIs ==
  ASSUME NEW U, NEW s \in Seq(U), NEW S, NEW f, Picking(f, s, S, U)
  PROVE  Pick(s, S) = f[Len(s)]
<1> DEFINE G(h) == [i \in 0 .. Len(s) |->
                      IF i = 0 THEN <<>>
                      ELSE IF s[i] \in S THEN Append(h[i - 1], s[i])
                                         ELSE h[i - 1]]
           F == CHOOSE h : h = G(h)
<1>1. Len(s) \in Nat
  OBVIOUS
<1>2. Pick(s, S) = F[Len(s)]
  BY DEF Pick
<1>3. f = G(f)
  <2>1. ASSUME NEW i \in 0 .. Len(s) PROVE f[i] = G(f)[i]
    <3>1. i = 0 \/ i \in 1 .. Len(s)
      BY <1>1
    <3>2. CASE i = 0
      BY <3>2 DEF Picking
    <3>3. CASE i \in 1 .. Len(s)
      BY <3>3 DEF Picking
    <3> QED
      BY <3>1, <3>2, <3>3
  <2>2. f \in [0 .. Len(s) -> Seq(U)]
    BY DEF Picking
  <2> HIDE DEF G
  <2>3. DOMAIN G(f) = 0 .. Len(s) /\ G(f) = [i \in 0 .. Len(s) |-> G(f)[i]]
    BY DEF G
  <2> QED
    BY <2>1, <2>2, <2>3
<1> HIDE DEF G
<1>4. F = G(F)
  BY <1>3
<1> HIDE DEF F
<1> DEFINE Good == {i \in 0 .. Len(s) : f[i] = F[i]}
<1>5. ASSUME NEW i \in 0 .. Len(s), i = 0 \/ f[i - 1] = F[i - 1]
      PROVE  f[i] = F[i]
  <2>1. f[i] = IF i = 0 THEN <<>>
               ELSE IF s[i] \in S THEN Append(f[i - 1], s[i]) ELSE f[i - 1]
    BY <1>3 DEF G
  <2>2. F[i] = IF i = 0 THEN <<>>
               ELSE IF s[i] \in S THEN Append(F[i - 1], s[i]) ELSE F[i - 1]
    BY <1>4 DEF G
  <2> QED
    BY <1>5, <2>1, <2>2
<1>6. 0 \in Good
  BY <1>1, <1>5
<1>7. ASSUME NEW i \in 1 .. Len(s), i - 1 \in Good PROVE i \in Good
  BY <1>1, <1>5, <1>7
<1>8. Len(s) \in Good
  <2>1. Len(s) \in 0 .. Len(s)
    BY <1>1
  <2> HIDE DEF Good
  <2> QED
    BY <1>1, <1>6, <1>7, <2>1, InductionUpTo
<1> QED
  BY <1>2, <1>8

\* What is picked depends only on which of the members are picked.
LEMMA PickSame ==
  ASSUME NEW U, NEW s \in Seq(U), NEW S, NEW T,
         \A x \in Range(s) : x \in S <=> x \in T
  PROVE  Pick(s, S) = Pick(s, T)
<1>1. PICK f : Picking(f, s, S, U)
  BY PickingExists
<1>2. PICK g : Picking(g, s, T, U)
  BY PickingExists
<1>3. Len(s) \in Nat /\ \A i \in 1 .. Len(s) : s[i] \in Range(s)
  BY MembersOfSeq
<1>4. f[Len(s)] = g[Len(s)]
  BY <1>1, <1>2, <1>3, PickingAgrees
<1> QED
  BY <1>1, <1>2, <1>4, PickIs

LEMMA PickEmpty == ASSUME NEW S PROVE Pick(<<>>, S) = <<>>
<1>1. <<>> \in Seq({}) /\ Len(<<>>) = 0
  OBVIOUS
<1>2. PICK f : Picking(f, <<>>, S, {})
  BY <1>1, PickingExists
<1>3. Pick(<<>>, S) = f[0]
  BY <1>1, <1>2, PickIs
<1> QED
  BY <1>2, <1>3 DEF Picking

LEMMA PickAppend ==
  ASSUME NEW U, NEW s \in Seq(U), NEW e \in U, NEW S
  PROVE  Pick(Append(s, e), S) = IF e \in S THEN Append(Pick(s, S), e)
                                            ELSE Pick(s, S)
<1> DEFINE a == Append(s, e)
<1>1. /\ a \in Seq(U) /\ Len(a) = Len(s) + 1 /\ Len(s) \in Nat
      /\ \A i \in 1 .. Len(s) : a[i] = s[i]
      /\ a[Len(s) + 1] = e
  BY AppendProperties
<1> HIDE DEF a
<1>2. PICK f : Picking(f, s, S, U)
  BY PickingExists
<1>3. PICK g : Picking(g, a, S, U)
  BY <1>1, PickingExists
<1>4. f[Len(s)] = g[Len(s)]
  BY <1>1, <1>2, <1>3, PickingAgrees
<1>5. g[Len(s) + 1] = IF e \in S THEN Append(g[Len(s)], e) ELSE g[Len(s)]
  BY <1>1, <1>3 DEF Picking
<1>6. Pick(s, S) = f[Len(s)] /\ Pick(a, S) = g[Len(s) + 1]
  BY <1>1, <1>2, <1>3, PickIs
<1> QED
  BY <1>4, <1>5, <1>6 DEF a

LEMMA PickSeq ==
  ASSUME NEW U, NEW s \in Seq(U), NEW S
  PROVE  Pick(s, S) \in Seq(U)
<1>1. PICK f : Picking(f, s, S, U)
  BY PickingExists
<1>2. Pick(s, S) = f[Len(s)] /\ Len(s) \in Nat
  BY <1>1, PickIs
<1> QED
  BY <1>1, <1>2 DEF Picking

\* Appending to the second of two lists is appending to both.
LEMMA ConcatAppend ==
  ASSUME NEW U, NEW s \in Seq(U), NEW t \in Seq(U), NEW e \in U
  PROVE  s \o Append(t, e) = Append(s \o t, e)
OBVIOUS

LEMMA PickConcat ==
  ASSUME NEW U, NEW s \in Seq(U), NEW t \in Seq(U), NEW S
  PROVE  Pick(s \o t, S) = Pick(s, S) \o Pick(t, S)
<1> DEFINE c == s \o t
<1>1. /\ c \in Seq(U) /\ Len(c) = Len(s) + Len(t)
      /\ Len(s) \in Nat /\ Len(t) \in Nat
      /\ \A i \in 1 .. Len(s) : c[i] = s[i]
      /\ \A i \in 1 .. Len(t) : c[Len(s) + i] = t[i] /\ t[i] \in U
  BY ConcatProperties, MembersOfSeq
<1> HIDE DEF c
<1>2. PICK f : Picking(f, s, S, U)
  BY PickingExists
<1>3. PICK g : Picking(g, t, S, U)
  BY PickingExists
<1>4. PICK h : Picking(h, c, S, U)
  BY <1>1, PickingExists
<1> DEFINE fs == f[Len(s)]
           Good == {i \in 0 .. Len(t) : h[Len(s) + i] = fs \o g[i]}
<1>5. fs \in Seq(U)
  BY <1>1, <1>2 DEF Picking
<1>6. fs = h[Len(s)]
  <2>1. PICK n \in Nat : n = Len(s)
    BY <1>1
  <2>2. /\ n <= Len(s) /\ n <= Len(c)
        /\ \A i \in 1 .. n : s[i] = c[i] /\ (s[i] \in S <=> s[i] \in S)
    BY <1>1, <2>1
  <2>3. c \in Seq(U)
    BY <1>1
  <2>4. f[n] = h[n]
    BY ONLY <1>2, <1>4, <2>2, <2>3, s \in Seq(U), n \in Nat, PickingAgrees
  <2> QED
    BY <2>1, <2>4
<1> HIDE DEF fs
<1>7. 0 \in Good
  <2>1. fs \o <<>> = fs
    BY <1>5
  <2>2. g[0] = <<>> /\ Len(s) + 0 = Len(s) /\ 0 \in 0 .. Len(t)
    BY <1>1, <1>3 DEF Picking
  <2>3. h[Len(s) + 0] = fs \o g[0]
    BY <1>6, <2>1, <2>2
  <2> QED
    BY <2>2, <2>3
<1>8. ASSUME NEW i \in 1 .. Len(t), i - 1 \in Good PROVE i \in Good
  <2>1. /\ Len(s) + i \in 1 .. Len(c)
        /\ (Len(s) + i) - 1 = Len(s) + (i - 1)
    BY <1>1
  <2>2. h[Len(s) + (i - 1)] = fs \o g[i - 1]
    BY <1>8
  <2>3. h[Len(s) + i] = IF t[i] \in S
                        THEN Append(h[Len(s) + (i - 1)], t[i])
                        ELSE h[Len(s) + (i - 1)]
    <3>1. h[Len(s) + i] = IF c[Len(s) + i] \in S
                          THEN Append(h[(Len(s) + i) - 1], c[Len(s) + i])
                          ELSE h[(Len(s) + i) - 1]
      BY <1>4, <2>1 DEF Picking
    <3> QED
      BY <1>1, <2>1, <3>1
  <2>4. g[i] = IF t[i] \in S THEN Append(g[i - 1], t[i]) ELSE g[i - 1]
    BY <1>3 DEF Picking
  <2>5. g[i - 1] \in Seq(U) /\ t[i] \in U
    <3>1. i - 1 \in 0 .. Len(t) /\ g \in [0 .. Len(t) -> Seq(U)]
      BY <1>1, <1>3 DEF Picking
    <3> QED
      BY <1>1, <3>1
  <2>6. fs \o Append(g[i - 1], t[i]) = Append(fs \o g[i - 1], t[i])
    BY <1>5, <2>5, ConcatAppend
  <2>7. h[Len(s) + i] = fs \o g[i]
    BY <2>2, <2>3, <2>4, <2>6
  <2> QED
    BY <2>7
<1>9. Len(t) \in Good
  <2>1. Len(t) \in 0 .. Len(t)
    BY <1>1
  <2> HIDE DEF Good
  <2> QED
    BY <1>1, <1>7, <1>8, <2>1, InductionUpTo
<1>10. h[Len(c)] = fs \o g[Len(t)]
  BY <1>1, <1>9
<1>11. Pick(s, S) = fs /\ Pick(t, S) = g[Len(t)] /\ Pick(c, S) = h[Len(c)]
  <2>1. Pick(s, S) = f[Len(s)]
    BY ONLY <1>2, s \in Seq(U), PickIs
  <2>2. Pick(t, S) = g[Len(t)]
    BY ONLY <1>3, t \in Seq(U), PickIs
  <2>3. c \in Seq(U)
    BY ONLY <1>1
  <2>4. Pick(c, S) = h[Len(c)]
    BY ONLY <1>4, <2>3, PickIs
  <2> QED
    BY ONLY <2>1, <2>2, <2>4 DEF fs
<1> QED
  BY <1>10, <1>11 DEF c

LEMMA PickMembers ==
  ASSUME NEW U, NEW s \in Seq(U), NEW S
  PROVE  Range(Pick(s, S)) \subseteq Range(s)
<1> DEFINE V == Range(s)
<1>1. s \in Seq(V)
  BY MembersOfSeq
<1>2. Pick(s, S) \in Seq(V)
  BY <1>1, PickSeq
<1> QED
  BY <1>2, MembersOfSeq

LEMMA PickNone ==
  ASSUME NEW U, NEW s \in Seq(U), NEW S, \A i \in 1 .. Len(s) : s[i] \notin S
  PROVE  Pick(s, S) = <<>>
<1>1. PICK f : Picking(f, s, S, U)
  BY PickingExists
<1> DEFINE Good == {i \in 0 .. Len(s) : f[i] = <<>>}
<1>2. 0 \in Good /\ Len(s) \in 0 .. Len(s) /\ Len(s) \in Nat
  BY <1>1, MembersOfSeq DEF Picking
<1>3. ASSUME NEW i \in 1 .. Len(s), i - 1 \in Good PROVE i \in Good
  BY <1>1, <1>3 DEF Picking
<1>4. Len(s) \in Good
  <2> HIDE DEF Good
  <2> QED
    BY ONLY <1>2, <1>3, InductionUpTo
<1> QED
  BY <1>1, <1>4, PickIs

LEMMA PickOne ==
  ASSUME NEW e, NEW S
  PROVE  Pick(<<e>>, S) = IF e \in S THEN <<e>> ELSE <<>>
<1>1. <<>> \in Seq({e}) /\ <<e>> = Append(<<>>, e) /\ e \in {e}
  OBVIOUS
<1>2. Pick(Append(<<>>, e), S) = IF e \in S THEN Append(Pick(<<>>, S), e)
                                            ELSE Pick(<<>>, S)
  BY ONLY <1>1, PickAppend
<1> QED
  BY <1>1, <1>2, PickEmpty

\* A list is what precedes an entry, the entry, and what follows it.
LEMMA SplitAt ==
  ASSUME NEW U, NEW s \in Seq(U), NEW k \in 1 .. Len(s)
  PROVE  \E l, t \in Seq(U) :
           /\ s = (l \o <<s[k]>>) \o t /\ RemoveAt(s, k) = l \o t
           /\ Len(l) = k - 1 /\ \A i \in 1 .. k - 1 : l[i] = s[i]
           /\ <<s[k]>> \in Seq(U)
<1> DEFINE l == SubSeq(s, 1, k - 1)
           t == SubSeq(s, k + 1, Len(s))
<1>1. /\ Len(s) \in Nat /\ k \in Nat
      /\ \A i \in 1 .. Len(s) : s[i] \in U
  BY MembersOfSeq
<1>2. /\ l \in Seq(U) /\ Len(l) = k - 1
      /\ \A i \in 1 .. k - 1 : l[i] = s[i]
  BY <1>1, SubSeqProperties
<1>3. /\ t \in Seq(U) /\ Len(t) = Len(s) - k
      /\ \A i \in 1 .. Len(s) - k : t[i] = s[k + i]
  <2>1. k + 1 \in Int /\ Len(s) \in Int /\ \A i \in k + 1 .. Len(s) : s[i] \in U
    BY <1>1
  <2>2. /\ t \in Seq(U)
        /\ Len(t) = IF k + 1 <= Len(s) THEN Len(s) - (k + 1) + 1 ELSE 0
        /\ \A i \in 1 .. Len(s) - (k + 1) + 1 : t[i] = s[(k + 1) + i - 1]
    BY <2>1, SubSeqProperties
  <2> HIDE DEF t
  <2>3. Len(t) = Len(s) - k
    BY <1>1, <2>2
  <2>4. ASSUME NEW i \in 1 .. Len(s) - k PROVE t[i] = s[k + i]
    <3>1. i \in 1 .. Len(s) - (k + 1) + 1 /\ (k + 1) + i - 1 = k + i
      BY <1>1
    <3> QED
      BY <2>2, <3>1
  <2> QED
    BY <2>2, <2>3, <2>4
<1>4. RemoveAt(s, k) = l \o t
  BY DEF RemoveAt
<1> HIDE DEF l, t
<1> DEFINE m == l \o <<s[k]>>
           c == m \o t
<1>5. /\ m \in Seq(U) /\ Len(m) = k /\ m[k] = s[k]
      /\ \A i \in 1 .. k - 1 : m[i] = s[i]
  <2>1. <<s[k]>> \in Seq(U) /\ Len(<<s[k]>>) = 1
    BY <1>1
  <2> QED
    BY <1>1, <1>2, <2>1, ConcatProperties
<1> HIDE DEF m
<1>6. /\ c \in Seq(U) /\ Len(c) = Len(s)
      /\ \A i \in 1 .. k : c[i] = m[i]
      /\ \A i \in 1 .. Len(s) - k : c[k + i] = t[i]
  <2>1. /\ c \in Seq(U) /\ Len(c) = Len(m) + Len(t)
        /\ \A i \in 1 .. Len(m) + Len(t) :
             c[i] = IF i <= Len(m) THEN m[i] ELSE t[i - Len(m)]
    BY <1>3, <1>5, ConcatProperties
  <2> HIDE DEF c
  <2>2. Len(c) = Len(s)
    BY <1>1, <1>3, <1>5, <2>1
  <2>3. ASSUME NEW i \in 1 .. k PROVE c[i] = m[i]
    <3>1. i \in 1 .. Len(m) + Len(t) /\ i <= Len(m)
      BY <1>1, <1>3, <1>5
    <3> QED
      BY <2>1, <3>1
  <2>4. ASSUME NEW i \in 1 .. Len(s) - k PROVE c[k + i] = t[i]
    <3>1. /\ k + i \in 1 .. Len(m) + Len(t) /\ ~(k + i <= Len(m))
          /\ (k + i) - Len(m) = i
      BY <1>1, <1>3, <1>5
    <3> QED
      BY <2>1, <3>1
  <2> QED
    BY <2>1, <2>2, <2>3, <2>4
<1> HIDE DEF c
<1>7. ASSUME NEW i \in 1 .. Len(s) PROVE c[i] = s[i]
  <2>1. CASE i < k
    BY <1>1, <1>5, <1>6, <2>1
  <2>2. CASE i = k
    BY <1>1, <1>5, <1>6, <2>2
  <2>3. CASE i > k
    <3>1. i - k \in 1 .. Len(s) - k /\ k + (i - k) = i
      BY <1>1, <2>3
    <3> QED
      BY <1>3, <1>6, <3>1
  <2> QED
    BY <1>1, <2>1, <2>2, <2>3
<1>8. c = s
  BY <1>6, <1>7, SeqEqual
<1>9. <<s[k]>> \in Seq(U)
  BY <1>1
<1> QED
  BY <1>2, <1>3, <1>4, <1>8, <1>9 DEF c, m

LEMMA PickConcats ==
  ASSUME NEW U, NEW S
  PROVE  \A x, y \in Seq(U) : Pick(x \o y, S) = Pick(x, S) \o Pick(y, S)
<1>1. SUFFICES ASSUME NEW x \in Seq(U), NEW y \in Seq(U)
      PROVE  Pick(x \o y, S) = Pick(x, S) \o Pick(y, S)
  OBVIOUS
<1> QED
  BY PickConcat

\* Unlinking what is not picked changes nothing.
LEMMA PickRemove ==
  ASSUME NEW U, NEW s \in Seq(U), NEW S, NEW k \in 1 .. Len(s), s[k] \notin S
  PROVE  Pick(RemoveAt(s, k), S) = Pick(s, S)
<1>1. PICK l, t \in Seq(U) :
        /\ s = (l \o <<s[k]>>) \o t /\ RemoveAt(s, k) = l \o t
        /\ Len(l) = k - 1 /\ \A i \in 1 .. k - 1 : l[i] = s[i]
        /\ <<s[k]>> \in Seq(U)
  BY SplitAt
<1>2. PICK e \in Seq(U) : e = <<s[k]>>
  <2>1. <<s[k]>> \in Seq(U)
    BY <1>1
  <2> QED
    BY ONLY <2>1, Zenon
<1>3. /\ Pick((l \o e) \o t, S) = (Pick(l, S) \o Pick(e, S)) \o Pick(t, S)
      /\ Pick(l \o t, S) = Pick(l, S) \o Pick(t, S)
      /\ Pick(l, S) \in Seq(U)
  <2> DEFINE c == l \o e
  <2>1. c \in Seq(U)
    BY ConcatProperties
  <2>2. Pick(c, S) = Pick(l, S) \o Pick(e, S)
    BY PickConcats
  <2> HIDE DEF c
  <2>3. Pick(c \o t, S) = Pick(c, S) \o Pick(t, S)
    BY <2>1, PickConcats
  <2>4. Pick(l \o t, S) = Pick(l, S) \o Pick(t, S)
    BY PickConcats
  <2>5. Pick(l, S) \in Seq(U) /\ Pick(t, S) \in Seq(U)
    BY PickSeq
  <2> QED
    BY <2>2, <2>3, <2>4, <2>5 DEF c
<1>4. Pick(e, S) = <<>>
  BY <1>2, PickOne
<1>5. Pick(l, S) \o Pick(e, S) = Pick(l, S)
  BY <1>3, <1>4
<1>6. s = (l \o e) \o t
  BY <1>1, <1>2
<1> QED
  BY <1>1, <1>3, <1>5, <1>6

\* The first entry picked.
LEMMA PickFirst ==
  ASSUME NEW U, NEW s \in Seq(U), NEW S, NEW k \in 1 .. Len(s), s[k] \in S,
         \A i \in 1 .. k - 1 : s[i] \notin S
  PROVE  Pick(s, S) = <<s[k]>> \o Pick(RemoveAt(s, k), S)
<1>1. PICK l, t \in Seq(U) :
        /\ s = (l \o <<s[k]>>) \o t /\ RemoveAt(s, k) = l \o t
        /\ Len(l) = k - 1 /\ \A i \in 1 .. k - 1 : l[i] = s[i]
        /\ <<s[k]>> \in Seq(U)
  BY SplitAt
<1>2. PICK e \in Seq(U) : e = <<s[k]>>
  <2>1. <<s[k]>> \in Seq(U)
    BY <1>1
  <2> QED
    BY ONLY <2>1, Zenon
<1>3. /\ Pick((l \o e) \o t, S) = (Pick(l, S) \o Pick(e, S)) \o Pick(t, S)
      /\ Pick(l \o t, S) = Pick(l, S) \o Pick(t, S)
      /\ Pick(t, S) \in Seq(U) /\ e \in Seq(U)
  <2> DEFINE c == l \o e
  <2>1. c \in Seq(U)
    BY ConcatProperties
  <2>2. Pick(c, S) = Pick(l, S) \o Pick(e, S)
    BY PickConcats
  <2> HIDE DEF c
  <2>3. Pick(c \o t, S) = Pick(c, S) \o Pick(t, S)
    BY <2>1, PickConcats
  <2>4. Pick(l \o t, S) = Pick(l, S) \o Pick(t, S)
    BY PickConcats
  <2>5. Pick(l, S) \in Seq(U) /\ Pick(t, S) \in Seq(U)
    BY PickSeq
  <2> QED
    BY <2>2, <2>3, <2>4, <2>5 DEF c
<1>4. Pick(e, S) = e
  BY <1>2, PickOne
<1>5. Pick(l, S) = <<>>
  <2>1. \A i \in 1 .. Len(l) : l[i] \notin S
    BY <1>1
  <2> QED
    BY <2>1, PickNone
<1>6. s = (l \o e) \o t
  BY <1>1, <1>2
<1>7. Pick(l, S) \o Pick(e, S) = e /\ Pick(l, S) \o Pick(t, S) = Pick(t, S)
  BY <1>3, <1>4, <1>5
<1> QED
  BY <1>1, <1>3, <1>6, <1>7, <1>2

LEMMA AppendThenConcat ==
  ASSUME NEW U, NEW s \in Seq(U), NEW t \in Seq(U), NEW e \in U
  PROVE  Append(s, e) \o t = s \o (<<e>> \o t)
OBVIOUS


LEMMA ConcatMembers ==
  ASSUME NEW U, NEW s \in Seq(U), NEW t \in Seq(U)
  PROVE  s \o t \in Seq(U) /\ Range(s \o t) = Range(s) \cup Range(t)
<1> DEFINE c == s \o t
<1>1. /\ c \in Seq(U) /\ Len(c) = Len(s) + Len(t)
      /\ \A i \in 1 .. Len(s) + Len(t) :
           c[i] = IF i <= Len(s) THEN s[i] ELSE t[i - Len(s)]
  BY ConcatProperties
<1> HIDE DEF c
<1>2. /\ Range(s) = {s[i] : i \in 1 .. Len(s)} /\ Len(s) \in Nat
      /\ Range(t) = {t[i] : i \in 1 .. Len(t)} /\ Len(t) \in Nat
      /\ Range(c) = {c[i] : i \in 1 .. Len(c)}
  BY <1>1, MembersOfSeq
<1>3. ASSUME NEW i \in 1 .. Len(c) PROVE c[i] \in Range(s) \cup Range(t)
  <2>1. CASE i <= Len(s)
    <3>1. i \in 1 .. Len(s) /\ c[i] = s[i]
      BY <1>1, <1>2, <2>1
    <3> QED
      BY <1>2, <3>1
  <2>2. CASE ~(i <= Len(s))
    <3>1. i - Len(s) \in 1 .. Len(t) /\ c[i] = t[i - Len(s)]
      BY <1>1, <1>2, <2>2
    <3> QED
      BY <1>2, <3>1
  <2> QED
    BY <2>1, <2>2
<1>4. ASSUME NEW i \in 1 .. Len(s) PROVE s[i] \in Range(c)
  <2>1. i \in 1 .. Len(c) /\ c[i] = s[i]
    BY <1>1, <1>2
  <2> QED
    BY <1>2, <2>1
<1>5. ASSUME NEW i \in 1 .. Len(t) PROVE t[i] \in Range(c)
  <2>1. Len(s) + i \in 1 .. Len(c) /\ c[Len(s) + i] = t[i]
    BY <1>1, <1>2
  <2> QED
    BY <1>2, <2>1
<1>6. Range(c) \subseteq Range(s) \cup Range(t)
  BY ONLY <1>2, <1>3
<1>7. Range(s) \subseteq Range(c) /\ Range(t) \subseteq Range(c)
  BY ONLY <1>2, <1>4, <1>5
<1> QED
  BY ONLY <1>1, <1>6, <1>7 DEF c

LEMMA OneMember == ASSUME NEW U, NEW e \in U
                   PROVE  <<e>> \in Seq(U) /\ Range(<<e>>) = {e}
BY DEF Range

LEMMA SuffixType ==
  ASSUME NEW S, NEW s \in Seq(S), NEW n \in 0 .. Len(s)
  PROVE  /\ SubSeq(s, n + 1, Len(s)) \in Seq(S)
         /\ Len(SubSeq(s, n + 1, Len(s))) = Len(s) - n
         /\ \A i \in 1 .. Len(s) - n : SubSeq(s, n + 1, Len(s))[i] = s[n + i]
<1>1. Len(s) \in Nat /\ n \in Nat /\ n <= Len(s)
  OBVIOUS
<1>2. \A i \in n + 1 .. Len(s) : s[i] \in S
  BY <1>1
<1> DEFINE u == SubSeq(s, n + 1, Len(s))
<1>3. /\ u \in Seq(S)
      /\ Len(u) = IF n + 1 <= Len(s) THEN Len(s) - (n + 1) + 1 ELSE 0
      /\ \A i \in 1 .. Len(s) - (n + 1) + 1 : u[i] = s[n + 1 + i - 1]
  BY <1>1, <1>2, SubSeqProperties
<1> HIDE DEF u
<1>4. Len(u) = Len(s) - n
  BY <1>1, <1>3
<1>5. ASSUME NEW i \in 1 .. Len(s) - n PROVE u[i] = s[n + i]
  <2>1. i \in 1 .. Len(s) - (n + 1) + 1 /\ n + 1 + i - 1 = n + i
    BY <1>1
  <2> QED
    BY <1>3, <2>1
<1> QED
  BY <1>3, <1>4, <1>5 DEF u

LEMMA PrefixType ==
  ASSUME NEW S, NEW s \in Seq(S), NEW n \in 0 .. Len(s)
  PROVE  /\ SubSeq(s, 1, n) \in Seq(S) /\ Len(SubSeq(s, 1, n)) = n
         /\ \A i \in 1 .. n : SubSeq(s, 1, n)[i] = s[i]
<1>1. Len(s) \in Nat /\ n \in Nat /\ n <= Len(s)
  OBVIOUS
<1>2. \A i \in 1 .. n : s[i] \in S
  BY <1>1
<1> DEFINE u == SubSeq(s, 1, n)
<1>3. /\ u \in Seq(S)
      /\ Len(u) = IF 1 <= n THEN n - 1 + 1 ELSE 0
      /\ \A i \in 1 .. n - 1 + 1 : u[i] = s[1 + i - 1]
  BY <1>1, <1>2, SubSeqProperties
<1> HIDE DEF u
<1>4. Len(u) = n
  BY <1>1, <1>3
<1>5. ASSUME NEW i \in 1 .. n PROVE u[i] = s[i]
  <2>1. i \in 1 .. n - 1 + 1 /\ 1 + i - 1 = i
    BY <1>1
  <2> QED
    BY <1>3, <2>1
<1> QED
  BY <1>3, <1>4, <1>5 DEF u

-----------------------------------------------------------------------------
(* A list of frames and the bytes it stands for.                           *)

\* A table of the bytes of each prefix of a list of frames.
Flattening(f, s, U) ==
  /\ f \in [0 .. Len(s) -> Seq(U)]
  /\ f[0] = <<>>
  /\ \A i \in 1 .. Len(s) : f[i] = f[i - 1] \o s[i]

LEMMA FlatteningExists ==
  ASSUME NEW U, NEW s \in Seq(Seq(U))
  PROVE  \E f : Flattening(f, s, U)
<1> DEFINE T(f, n) == /\ f \in [0 .. n -> Seq(U)]
                      /\ f[0] = <<>>
                      /\ \A i \in 1 .. n : f[i] = f[i - 1] \o s[i]
           Good == {n \in Nat : \E f : T(f, n)}
<1>1. Len(s) \in Nat /\ \A i \in 1 .. Len(s) : s[i] \in Seq(U)
  BY MembersOfSeq
<1>2. 0 \in Good
  <2> DEFINE f == [i \in 0 .. 0 |-> <<>>]
  <2>1. <<>> \in Seq(U)
    BY EmptySeq
  <2>2. T(f, 0)
    BY <2>1
  <2> QED
    BY <2>2
<1>3. ASSUME NEW n \in 1 .. Len(s), n - 1 \in Good PROVE n \in Good
  <2>1. PICK g : T(g, n - 1)
    BY <1>3
  <2> DEFINE new == g[n - 1] \o s[n]
             f == [i \in 0 .. n |-> IF i = n THEN new ELSE g[i]]
  <2>2. new \in Seq(U)
    <3>1. g[n - 1] \in Seq(U) /\ s[n] \in Seq(U)
      BY <1>1, <2>1
    <3> QED
      BY <3>1, ConcatProperties
  <2> HIDE DEF new
  <2>3. T(f, n)
    <3>1. f \in [0 .. n -> Seq(U)] /\ f[0] = <<>>
      BY <2>1, <2>2
    <3>2. ASSUME NEW i \in 1 .. n PROVE f[i] = f[i - 1] \o s[i]
      <4>1. f[i - 1] = g[i - 1]
        OBVIOUS
      <4>2. CASE i = n
        <5>1. f[i] = new /\ i - 1 = n - 1
          BY <4>2
        <5>2. new = g[n - 1] \o s[n]
          BY DEF new
        <5> HIDE DEF f
        <5> QED
          BY ONLY <4>1, <4>2, <5>1, <5>2
      <4>3. CASE i # n
        <5>1. i \in 1 .. n - 1 /\ f[i] = g[i]
          BY <4>3
        <5> QED
          BY <2>1, <4>1, <5>1
      <4> QED
        BY <4>2, <4>3
    <3> QED
      BY <3>1, <3>2
  <2> HIDE DEF f
  <2>4. n \in Nat
    BY <1>1
  <2> HIDE DEF T
  <2>5. \E h : T(h, n)
    BY <2>3
  <2> QED
    BY <2>4, <2>5
<1>4. Len(s) \in Good
  <2>1. Len(s) \in 0 .. Len(s)
    BY <1>1
  <2> HIDE DEF Good
  <2> QED
    BY <1>1, <1>2, <1>3, <2>1, InductionUpTo
<1>5. \E f : T(f, Len(s))
  <2> HIDE DEF T
  <2> QED
    BY <1>4
<1> QED
  BY <1>5 DEF Flattening

LEMMA FlattenIs ==
  ASSUME NEW U, NEW s \in Seq(Seq(U)), NEW f, Flattening(f, s, U)
  PROVE  FlattenSeq(s) = f[Len(s)]
<1> DEFINE G(h) == [i \in 1 .. Len(s) |->
                      IF i = 1 THEN s[i] ELSE h[i - 1] \o s[i]]
           F == CHOOSE h : h = G(h)
<1>1. Len(s) \in Nat /\ \A i \in 1 .. Len(s) : s[i] \in Seq(U)
  BY MembersOfSeq
<1>2. CASE Len(s) = 0
  <2>1. s = <<>>
    BY <1>2, EmptySeq
  <2>2. FlattenSeq(s) = s
    BY <1>2 DEF FlattenSeq
  <2> QED
    BY <1>2, <2>1, <2>2 DEF Flattening
<1>3. CASE Len(s) # 0
  <2>1. FlattenSeq(s) = F[Len(s)]
    BY <1>3 DEF FlattenSeq
  <2> DEFINE g == [i \in 1 .. Len(s) |-> f[i]]
  <2>2. ASSUME NEW i \in 1 .. Len(s)
        PROVE  f[i] = IF i = 1 THEN s[i] ELSE g[i - 1] \o s[i]
    <3>1. f[i] = f[i - 1] \o s[i]
      BY DEF Flattening
    <3>2. CASE i = 1
      <4>1. f[i - 1] = <<>> /\ s[i] \in Seq(U)
        BY <1>1, <3>2 DEF Flattening
      <4> QED
        BY <3>1, <3>2, <4>1, ConcatEmptySeq
    <3>3. CASE i # 1
      <4>1. i - 1 \in 1 .. Len(s)
        BY <3>3
      <4> QED
        BY <3>1, <3>3, <4>1
    <3> QED
      BY <3>2, <3>3
  <2>3. g = G(g)
    BY <2>2
  <2>4. \A i \in 1 .. Len(s) : g[i] = f[i]
    OBVIOUS
  <2> HIDE DEF G, g
  <2>5. F = G(F)
    BY <2>3
  <2> HIDE DEF F
  <2>6. ASSUME NEW i \in 1 .. Len(s), i = 1 \/ g[i - 1] = F[i - 1]
        PROVE  g[i] = F[i]
    <3>1. g[i] = IF i = 1 THEN s[i] ELSE g[i - 1] \o s[i]
      BY <2>3 DEF G
    <3>2. F[i] = IF i = 1 THEN s[i] ELSE F[i - 1] \o s[i]
      BY <2>5 DEF G
    <3> QED
      BY <2>6, <3>1, <3>2
  <2> DEFINE Good == {0} \cup {i \in 1 .. Len(s) : g[i] = F[i]}
  <2>7. 0 \in Good
    OBVIOUS
  <2>8. ASSUME NEW i \in 1 .. Len(s), i - 1 \in Good PROVE i \in Good
    <3>1. i = 1 \/ g[i - 1] = F[i - 1]
      BY <2>8
    <3> QED
      BY <2>6, <3>1
  <2>9. Len(s) \in Good
    <3>1. Len(s) \in 0 .. Len(s)
      BY <1>1
    <3> HIDE DEF Good
    <3> QED
      BY <1>1, <2>7, <2>8, <3>1, InductionUpTo
  <2> QED
    BY <1>1, <1>3, <2>1, <2>4, <2>9
<1> QED
  BY <1>2, <1>3

LEMMA FlattenEmpty == FlattenSeq(<<>>) = <<>>
BY DEF FlattenSeq

LEMMA FlattenType ==
  ASSUME NEW U, NEW s \in Seq(Seq(U))
  PROVE  FlattenSeq(s) \in Seq(U)
<1>1. PICK f : Flattening(f, s, U)
  BY FlatteningExists
<1>2. Len(s) \in 0 .. Len(s)
  BY LenProperties
<1>3. f[Len(s)] \in Seq(U)
  BY <1>1, <1>2 DEF Flattening
<1>4. FlattenSeq(s) = f[Len(s)]
  BY <1>1, FlattenIs
<1> QED
  BY <1>3, <1>4

\* A frame more is its bytes more.
LEMMA FlattenAppend ==
  ASSUME NEW U, NEW s \in Seq(Seq(U)), NEW e \in Seq(U)
  PROVE  FlattenSeq(Append(s, e)) = FlattenSeq(s) \o e
<1> DEFINE t == Append(s, e)
<1>1. /\ t \in Seq(Seq(U)) /\ Len(t) = Len(s) + 1 /\ t[Len(s) + 1] = e
      /\ \A i \in 1 .. Len(s) : t[i] = s[i]
  BY AppendProperties
<1>2. Len(s) \in Nat
  BY LenProperties
<1> HIDE DEF t
<1>3. PICK f : Flattening(f, s, U)
  BY FlatteningExists
<1> DEFINE g == [i \in 0 .. Len(t) |->
                   IF i <= Len(s) THEN f[i] ELSE f[Len(s)] \o e]
<1>4. Flattening(g, t, U)
  <2>1. f[Len(s)] \o e \in Seq(U)
    <3>1. f[Len(s)] \in Seq(U)
      BY <1>2, <1>3 DEF Flattening
    <3> QED
      BY <3>1, ConcatProperties
  <2>2. g \in [0 .. Len(t) -> Seq(U)] /\ g[0] = <<>>
    BY <1>1, <1>2, <1>3, <2>1 DEF Flattening
  <2>3. ASSUME NEW i \in 1 .. Len(t) PROVE g[i] = g[i - 1] \o t[i]
    <3>1. g[i - 1] = f[i - 1]
      BY <1>1, <1>2
    <3>2. CASE i <= Len(s)
      <4>1. i \in 1 .. Len(s) /\ g[i] = f[i]
        BY <1>2, <3>2
      <4> QED
        BY <1>1, <1>3, <3>1, <4>1 DEF Flattening
    <3>3. CASE ~(i <= Len(s))
      <4>1. i = Len(s) + 1 /\ i - 1 = Len(s) /\ g[i] = f[Len(s)] \o e
        BY <1>1, <1>2, <3>3
      <4>2. t[i] = e
        BY <1>1, <4>1
      <4> HIDE DEF g
      <4> QED
        BY ONLY <3>1, <4>1, <4>2
    <3> QED
      BY <3>2, <3>3
  <2> QED
    BY <2>2, <2>3 DEF Flattening
<1>5. g[Len(t)] = f[Len(s)] \o e
  BY <1>1, <1>2
<1> QED
  BY <1>1, <1>3, <1>4, <1>5, FlattenIs DEF t

\* Joining two lists, under a name that the provers take as it stands.
Joined(x, y) == x \o y

\* Where the parts of a list are joined first makes no difference.
LEMMA Regroup ==
  ASSUME NEW U, NEW x \in Seq(U), NEW y \in Seq(U), NEW z \in Seq(U)
  PROVE  Joined(Joined(x, y), z) = Joined(x, Joined(y, z))
BY ConcatAssociative DEF Joined

\* The first frame comes first.
LEMMA FlattenHead ==
  ASSUME NEW U, NEW s \in Seq(Seq(U)), s # <<>>
  PROVE  FlattenSeq(s) = Head(s) \o FlattenSeq(Tail(s))
<1> DEFINE t == Tail(s)
           h == Head(s)
<1>1. /\ t \in Seq(Seq(U)) /\ h \in Seq(U) /\ Len(t) = Len(s) - 1
      /\ \A i \in 1 .. Len(t) : t[i] = s[i + 1]
      /\ h = s[1]
  BY HeadTailProperties
<1>2. Len(s) \in Nat /\ Len(s) > 0
  BY EmptySeq, LenProperties
<1> HIDE DEF t, h
<1>3. PICK f : Flattening(f, s, U)
  BY FlatteningExists
<1>4. PICK g : Flattening(g, t, U)
  BY <1>1, FlatteningExists
<1> DEFINE Good == {i \in 0 .. Len(t) : f[i + 1] = h \o g[i]}
<1>5. 0 \in Good
  <2>1. 1 \in 1 .. Len(s) /\ 0 \in 0 .. Len(t)
    BY <1>1, <1>2
  <2>2. f[1] = f[1 - 1] \o s[1]
    BY <1>3, <2>1 DEF Flattening
  <2>3. f[0] = <<>> /\ g[0] = <<>> /\ 1 - 1 = 0
    BY <1>3, <1>4 DEF Flattening
  <2>4. <<>> \o h = h /\ h \o <<>> = h
    BY <1>1, ConcatEmptySeq
  <2>5. f[0 + 1] = h \o g[0]
    <3>1. 0 + 1 = 1
      OBVIOUS
    <3> QED
      BY ONLY <1>1, <2>2, <2>3, <2>4, <3>1, Zenon
  <2> QED
    BY <2>1, <2>5
<1>6. ASSUME NEW i \in 1 .. Len(t), i - 1 \in Good PROVE i \in Good
  <2>1. /\ i + 1 \in 1 .. Len(s) /\ i \in 0 .. Len(t) /\ i - 1 \in 0 .. Len(t)
        /\ (i + 1) - 1 = i /\ (i - 1) + 1 = i
    BY <1>1, <1>2
  <2>2. f[i + 1] = f[i] \o s[i + 1]
    BY <1>3, <2>1 DEF Flattening
  <2>3. f[i] = h \o g[i - 1]
    BY <1>6, <2>1
  <2>4. g[i] = g[i - 1] \o t[i] /\ g[i - 1] \in Seq(U)
    BY <1>4, <2>1 DEF Flattening
  <2>5. t[i] = s[i + 1] /\ t[i] \in Seq(U)
    BY <1>1, MembersOfSeq
  <2>6. (h \o g[i - 1]) \o t[i] = h \o (g[i - 1] \o t[i])
    <3> DEFINE x == g[i - 1]
               y == t[i]
    <3>1. h \in Seq(U) /\ x \in Seq(U) /\ y \in Seq(U)
      BY <1>1, <2>4, <2>5
    <3> HIDE DEF x, y
    <3>2. Joined(Joined(h, x), y) = Joined(h, Joined(x, y))
      BY ONLY <3>1, Regroup
    <3> QED
      BY ONLY <3>2 DEF Joined, x, y
  <2>7. f[i + 1] = h \o g[i]
    BY <2>2, <2>3, <2>4, <2>5, <2>6
  <2> QED
    BY <2>1, <2>7
<1>7. Len(t) \in Good
  <2>1. Len(t) \in Nat /\ Len(t) \in 0 .. Len(t)
    BY <1>1, <1>2
  <2> HIDE DEF Good
  <2> QED
    BY <1>5, <1>6, <2>1, InductionUpTo
<1>8. Len(t) + 1 = Len(s)
  BY <1>1, <1>2
<1>9. f[Len(s)] = h \o g[Len(t)]
  BY <1>7, <1>8
<1> QED
  BY <1>1, <1>3, <1>4, <1>9, FlattenIs DEF t, h

\* Short frames make a short stream.
LEMMA FlattenLen ==
  ASSUME NEW U, NEW s \in Seq(Seq(U)), NEW K \in Nat,
         \A i \in 1 .. Len(s) : Len(s[i]) <= K
  PROVE  Len(FlattenSeq(s)) <= Len(s) * K
<1>1. PICK f : Flattening(f, s, U)
  BY FlatteningExists
<1>2. Len(s) \in Nat
  BY LenProperties
<1> DEFINE Good == {i \in 0 .. Len(s) : Len(f[i]) <= i * K}
<1>3. 0 \in Good
  <2>1. f[0] = <<>> /\ Len(<<>>) = 0 /\ 0 <= 0 * K
    BY <1>1, EmptySeq DEF Flattening
  <2> QED
    BY <1>2, <2>1
<1>4. ASSUME NEW i \in 1 .. Len(s), i - 1 \in Good PROVE i \in Good
  <2>0. i - 1 \in 0 .. Len(s)
    OBVIOUS
  <2>1. f[i] = f[i - 1] \o s[i] /\ f[i - 1] \in Seq(U) /\ s[i] \in Seq(U)
    <3>1. f[i] = f[i - 1] \o s[i]
      BY <1>1 DEF Flattening
    <3>2. f[i - 1] \in Seq(U)
      BY <1>1, <2>0 DEF Flattening
    <3>3. s[i] \in Seq(U)
      BY MembersOfSeq
    <3> QED
      BY <3>1, <3>2, <3>3
  <2>2. Len(f[i]) = Len(f[i - 1]) + Len(s[i])
    BY <2>1, ConcatProperties
  <2>3. Len(f[i - 1]) \in Nat /\ Len(s[i]) \in Nat /\ Len(s[i]) <= K
    BY <2>1, LenProperties
  <2>4. Len(f[i - 1]) <= (i - 1) * K
    BY <1>4
  <2>5. (i - 1) * K + K = i * K /\ (i - 1) * K \in Nat /\ i * K \in Nat
    OBVIOUS
  <2>6. Len(f[i]) <= i * K
    <3> DEFINE x == Len(f[i - 1])
               y == Len(s[i])
               p == (i - 1) * K
               q == i * K
    <3>1. /\ Len(f[i]) = x + y /\ x \in Nat /\ y \in Nat /\ y <= K
          /\ x <= p /\ p + K = q /\ p \in Nat /\ q \in Nat
      BY <2>2, <2>3, <2>4, <2>5
    <3> HIDE DEF x, y, p, q
    <3>2. Len(f[i]) <= q
      BY ONLY <3>1, K \in Nat
    <3> QED
      BY <3>2 DEF q
  <2> QED
    BY <2>6
<1>5. Len(s) \in Good
  <2>1. Len(s) \in 0 .. Len(s)
    BY <1>2
  <2> HIDE DEF Good
  <2> QED
    BY <1>2, <1>3, <1>4, <2>1, InductionUpTo
<1>6. FlattenSeq(s) = f[Len(s)]
  BY <1>1, FlattenIs
<1> QED
  BY <1>5, <1>6

-----------------------------------------------------------------------------
(* Parts of a stream.                                                      *)

\* Moving the border between two parts of a stream changes nothing.
LEMMA Border ==
  ASSUME NEW U, NEW x \in Seq(U), NEW y \in Seq(U), y # <<>>
  PROVE  Append(x, Head(y)) \o Tail(y) = x \o y
<1>1. Head(y) \in U /\ Tail(y) \in Seq(U)
  BY HeadTailProperties
<1>2. Append(x, Head(y)) \o Tail(y) = x \o (<<Head(y)>> \o Tail(y))
  BY <1>1, AppendThenConcat
<1>3. <<Head(y)>> \o Tail(y) = y
  OBVIOUS
<1> QED
  BY <1>2, <1>3

\* The first byte of the second part may as well end the first one.
LEMMA TakeFirst ==
  ASSUME NEW U, NEW x \in Seq(U), NEW y \in Seq(U), y # <<>>, NEW z \in Seq(U)
  PROVE  Joined(Append(x, Head(y)), Joined(Tail(y), z))
           = Joined(x, Joined(y, z))
<1>1. Head(y) \in U /\ Tail(y) \in Seq(U)
  BY HeadTailProperties
<1>2. Append(x, Head(y)) \o Tail(y) = x \o y
  BY Border
<1> DEFINE a == Append(x, Head(y))
           t == Tail(y)
<1>3. a \in Seq(U) /\ t \in Seq(U)
  BY <1>1, AppendProperties
<1>4. a \o t = x \o y
  BY <1>2
<1> HIDE DEF a, t
<1>5. (a \o t) \o z = a \o (t \o z)
  BY ONLY <1>3, z \in Seq(U)
<1>6. (x \o y) \o z = x \o (y \o z)
  BY ConcatAssociative
<1>7. a \o (t \o z) = x \o (y \o z)
  BY ONLY <1>4, <1>5, <1>6, Zenon
<1> QED
  BY ONLY <1>7 DEF Joined, a, t

\* What comes first in a stream.
LEMMA Beginning ==
  ASSUME NEW U, NEW x \in Seq(U), NEW y \in Seq(U)
  PROVE  /\ Len(x \o y) >= Len(x) /\ Len(x) \in Nat
         /\ \A i \in 1 .. Len(x) : i <= Len(x \o y) /\ (x \o y)[i] = x[i]
<1>1. /\ Len(x) \in Nat /\ Len(y) \in Nat /\ Len(x \o y) = Len(x) + Len(y)
      /\ \A i \in 1 .. Len(x) + Len(y) :
           (x \o y)[i] = IF i <= Len(x) THEN x[i] ELSE y[i - Len(x)]
  BY ConcatProperties, LenProperties
<1>2. ASSUME NEW i \in 1 .. Len(x)
      PROVE  i <= Len(x \o y) /\ (x \o y)[i] = x[i]
  <2>1. i \in 1 .. Len(x) + Len(y) /\ i <= Len(x)
    BY <1>1
  <2> QED
    BY <1>1, <2>1
<1> QED
  BY <1>1, <1>2

LEMMA SameBeginning ==
  ASSUME NEW U, NEW x \in Seq(U), NEW y \in Seq(U), NEW z \in Seq(U),
         x \o y = x \o z
  PROVE  y = z
BY ConcatSimplifications

-----------------------------------------------------------------------------
(* Rings: an array with a position to write at and one to read from.       *)

LEMMA ModWrap ==
  ASSUME NEW R \in Nat \ {0}, NEW x \in Nat, x < 2 * R
  PROVE  x % R = IF x < R THEN x ELSE x - R
<1>1. CASE x < R
  BY <1>1
<1>2. CASE ~(x < R)
  BY <1>2
<1> QED
  BY <1>1, <1>2

\* How many cells of a ring of size R lie between the positions o and i, and the
\* k-th cell from o on.
Filled(R, i, o) == (i + R - o) % R
Spot(R, o, k) == (o + k - 1) % R

\* What a ring r holds between the positions o and i.
Between(r, R, i, o) == [k \in 1 .. Filled(R, i, o) |-> r[Spot(R, o, k)]]

\* Reading one cell, and writing a list from the position i on.
NextSpot(R, o) == IF o + 1 >= R THEN 0 ELSE o + 1
Moved(R, i, n) == (i + n) % R
RingWith(r, R, i, w) ==
  [j \in 0 .. R - 1 |-> IF Filled(R, j, i) + 1 <= Len(w)
                        THEN w[Filled(R, j, i) + 1] ELSE r[j]]

LEMMA Distance ==
  ASSUME NEW R \in Nat \ {0}, NEW i \in 0 .. R - 1, NEW o \in 0 .. R - 1
  PROVE  /\ Filled(R, i, o) = IF i >= o THEN i - o ELSE i + R - o
         /\ Filled(R, i, o) \in 0 .. R - 1
<1> DEFINE x == i + R - o
<1>1. x \in Nat /\ x < 2 * R /\ x = i + R - o
  OBVIOUS
<1>2. Filled(R, i, o) = x % R
  BY DEF Filled
<1> HIDE DEF x
<1>3. x % R = IF x < R THEN x ELSE x - R
  BY <1>1, ModWrap
<1> QED
  BY <1>1, <1>2, <1>3

LEMMA Place ==
  ASSUME NEW R \in Nat \ {0}, NEW o \in 0 .. R - 1, NEW k \in 1 .. R
  PROVE  /\ Spot(R, o, k) = IF o + k - 1 < R THEN o + k - 1
                                             ELSE o + k - 1 - R
         /\ Spot(R, o, k) \in 0 .. R - 1
<1> DEFINE x == o + k - 1
<1>1. x \in Nat /\ x < 2 * R /\ x = o + k - 1
  OBVIOUS
<1>2. Spot(R, o, k) = x % R
  BY DEF Spot
<1> HIDE DEF x
<1>3. x % R = IF x < R THEN x ELSE x - R
  BY <1>1, ModWrap
<1> QED
  BY <1>1, <1>2, <1>3

\* Seen from where the ring is written the cells it holds lie behind what is
\* written, and the cells written continue those it holds.
LEMMA Opposite ==
  ASSUME NEW R \in Nat \ {0}, NEW i \in 0 .. R - 1, NEW o \in 0 .. R - 1,
         NEW k \in 1 .. R
  PROVE  Filled(R, Spot(R, o, k), i) + 1 =
           IF k <= Filled(R, i, o) THEN R + k - Filled(R, i, o)
                                   ELSE k - Filled(R, i, o)
<1> DEFINE q == Spot(R, o, k)
<1>1. Filled(R, i, o) = IF i >= o THEN i - o ELSE i + R - o
  BY Distance
<1>2. q = (IF o + k - 1 < R THEN o + k - 1 ELSE o + k - 1 - R)
      /\ q \in 0 .. R - 1
  BY Place
<1> HIDE DEF q
<1>3. Filled(R, q, i) = IF q >= i THEN q - i ELSE q + R - i
  BY <1>2, Distance
<1>4. Filled(R, q, i) + 1 = IF k <= Filled(R, i, o)
                            THEN R + k - Filled(R, i, o)
                            ELSE k - Filled(R, i, o)
  BY <1>1, <1>2, <1>3
<1> QED
  BY <1>4 DEF q

\* A ring r of R cells for values of U, with two positions in it.
IsRing(r, R, U, i, o) ==
  /\ R \in Nat \ {0} /\ i \in 0 .. R - 1 /\ o \in 0 .. R - 1
  /\ r \in [0 .. R - 1 -> U]

LEMMA RingBytes ==
  ASSUME NEW U, NEW R, NEW i, NEW o, NEW r, IsRing(r, R, U, i, o)
  PROVE  /\ Between(r, R, i, o) \in Seq(U)
         /\ Len(Between(r, R, i, o)) = Filled(R, i, o)
         /\ \A k \in 1 .. Filled(R, i, o) :
              Between(r, R, i, o)[k] = r[Spot(R, o, k)]
<1> DEFINE a == Filled(R, i, o)
           u == [k \in 1 .. a |-> r[Spot(R, o, k)]]
<1>0. /\ R \in Nat \ {0} /\ i \in 0 .. R - 1 /\ o \in 0 .. R - 1
      /\ r \in [0 .. R - 1 -> U]
  BY DEF IsRing
<1>1. a \in 0 .. R - 1
  BY <1>0, Distance
<1> HIDE DEF a
<1>2. ASSUME NEW k \in 1 .. a PROVE r[Spot(R, o, k)] \in U
  <2>1. k \in 1 .. R
    BY <1>0, <1>1
  <2>2. Spot(R, o, k) \in 0 .. R - 1
    BY <1>0, <2>1, Place
  <2> QED
    BY <1>0, <2>2
<1>3. a \in Nat
  BY <1>1
<1>4. u \in [1 .. a -> U]
  BY <1>2
<1>5. \A k \in 1 .. a : u[k] = r[Spot(R, o, k)]
  OBVIOUS
<1>6. Between(r, R, i, o) = u
  BY DEF Between, a
<1> HIDE DEF u
<1>7. u \in Seq(U) /\ Len(u) = a
  BY <1>3, <1>4
<1> QED
  BY <1>5, <1>6, <1>7 DEF a

\* Taking the first byte out of a ring.
LEMMA RingTake ==
  ASSUME NEW U, NEW R, NEW i, NEW o, NEW r, IsRing(r, R, U, i, o), i # o
  PROVE  /\ Filled(R, i, o) > 0
         /\ Filled(R, i, NextSpot(R, o)) = Filled(R, i, o) - 1
         /\ Between(r, R, i, o) # <<>> /\ Head(Between(r, R, i, o)) = r[o]
         /\ Between(r, R, i, NextSpot(R, o)) = Tail(Between(r, R, i, o))
<1>0. /\ R \in Nat \ {0} /\ i \in 0 .. R - 1 /\ o \in 0 .. R - 1
      /\ r \in [0 .. R - 1 -> U]
  BY DEF IsRing
<1> DEFINE p == NextSpot(R, o)
           a == Filled(R, i, o)
           u == Between(r, R, i, o)
           v == Between(r, R, i, p)
<1>1. p \in 0 .. R - 1 /\ p = IF o + 1 >= R THEN 0 ELSE o + 1
  BY <1>0 DEF NextSpot
<1> HIDE DEF p
<1>2. a > 0 /\ Filled(R, i, p) = a - 1 /\ a \in 0 .. R - 1
  <2>1. /\ a = IF i >= o THEN i - o ELSE i + R - o
        /\ a \in 0 .. R - 1
    BY <1>0, Distance
  <2>2. p \in 0 .. R - 1
    BY <1>1
  <2> DEFINE b == Filled(R, i, p)
  <2>3. b = IF i >= p THEN i - p ELSE i + R - p
    BY <1>0, <2>2, Distance
  <2> HIDE DEF a, b
  <2>4. a > 0 /\ b = a - 1
    BY <1>0, <1>1, <2>1, <2>3
  <2> QED
    BY <2>1, <2>4 DEF b
<1>3. /\ u \in Seq(U) /\ Len(u) = a
      /\ \A k \in 1 .. a : u[k] = r[Spot(R, o, k)]
  BY RingBytes
<1>4. /\ v \in Seq(U) /\ Len(v) = a - 1
      /\ \A k \in 1 .. a - 1 : v[k] = r[Spot(R, p, k)]
  <2>1. IsRing(r, R, U, i, p)
    BY <1>0, <1>1 DEF IsRing
  <2>2. /\ v \in Seq(U) /\ Len(v) = Filled(R, i, p)
        /\ \A k \in 1 .. Filled(R, i, p) : v[k] = r[Spot(R, p, k)]
    BY <2>1, RingBytes
  <2> HIDE DEF a, v
  <2> QED
    BY <1>2, <2>2
<1> HIDE DEF a, u, v, p
<1>5. u # <<>> /\ Head(u) = r[o]
  <2>1. Len(u) > 0 /\ 1 \in 1 .. a /\ 1 \in 1 .. R
    BY <1>0, <1>2, <1>3
  <2>2. u # <<>>
    BY <2>1, EmptySeq
  <2>3. Spot(R, o, 1) = o
    BY <1>0, <2>1, Place
  <2>4. u[1] = r[Spot(R, o, 1)]
    BY <1>3, <2>1
  <2>5. Head(u) = u[1]
    BY <1>3, <2>2
  <2> QED
    BY <2>2, <2>3, <2>4, <2>5
<1>6. /\ Tail(u) \in Seq(U) /\ Len(Tail(u)) = a - 1
      /\ \A k \in 1 .. a - 1 : Tail(u)[k] = u[k + 1]
  BY <1>3, <1>5, HeadTailProperties
<1>7. ASSUME NEW k \in 1 .. a - 1 PROVE v[k] = Tail(u)[k]
  <2>1. k \in 1 .. R /\ k + 1 \in 1 .. R /\ k + 1 \in 1 .. a
    BY <1>0, <1>2
  <2>2. Spot(R, p, k) = IF p + k - 1 < R THEN p + k - 1 ELSE p + k - 1 - R
    BY <1>0, <1>1, <2>1, Place
  <2>3. Spot(R, o, k + 1) = IF o + (k + 1) - 1 < R THEN o + (k + 1) - 1
                                                  ELSE o + (k + 1) - 1 - R
    BY <1>0, <2>1, Place
  <2>4. v[k] = r[Spot(R, p, k)] /\ u[k + 1] = r[Spot(R, o, k + 1)]
    BY <1>3, <1>4, <2>1
  <2>5. Spot(R, p, k) = Spot(R, o, k + 1)
    BY <1>0, <1>1, <1>2, <2>1, <2>2, <2>3
  <2> QED
    BY <1>6, <2>4, <2>5
<1>8. v = Tail(u)
  <2> DEFINE t == Tail(u)
  <2>1. /\ v \in Seq(U) /\ t \in Seq(U) /\ Len(v) = a - 1 /\ Len(t) = a - 1
        /\ \A k \in 1 .. a - 1 : v[k] = t[k]
    BY <1>4, <1>6, <1>7
  <2> HIDE DEF t
  <2>2. v = t
    BY ONLY <2>1, SeqEqual
  <2> QED
    BY <2>2 DEF t
<1> QED
  BY <1>2, <1>5, <1>8 DEF a, u, v, p

\* Writing behind the bytes in a ring that has room for them.
HasRoom(R, i, o, w) == Filled(R, i, o) + Len(w) < R

Put(r, R, U, i, o, w) ==
  /\ IsRing(RingWith(r, R, i, w), R, U, Moved(R, i, Len(w)), o)
  /\ Filled(R, Moved(R, i, Len(w)), o) = Filled(R, i, o) + Len(w)
  /\ Between(RingWith(r, R, i, w), R, Moved(R, i, Len(w)), o)
       = Between(r, R, i, o) \o w

LEMMA RingPut ==
  ASSUME NEW U, NEW R, NEW i, NEW o, NEW r, NEW w, IsRing(r, R, U, i, o),
         w \in Seq(U), HasRoom(R, i, o, w)
  PROVE  Put(r, R, U, i, o, w)
<1> SUFFICES ASSUME Filled(R, i, o) + Len(w) < R,
                    R \in Nat \ {0}, i \in 0 .. R - 1, o \in 0 .. R - 1,
                    r \in [0 .. R - 1 -> U]
             PROVE  /\ IsRing(RingWith(r, R, i, w), R, U,
                              Moved(R, i, Len(w)), o)
                    /\ Filled(R, Moved(R, i, Len(w)), o)
                         = Filled(R, i, o) + Len(w)
                    /\ Between(RingWith(r, R, i, w), R,
                               Moved(R, i, Len(w)), o)
                         = Between(r, R, i, o) \o w
  BY DEF IsRing, HasRoom, Put
<1> DEFINE r2 == RingWith(r, R, i, w)
           i2 == Moved(R, i, Len(w))
           a == Filled(R, i, o)
           u == Between(r, R, i, o)
           v == Between(r2, R, i2, o)
           n == Len(w)
<1>1. n \in Nat /\ a \in 0 .. R - 1 /\ a + n < R
  <2>1. Len(w) \in Nat
    BY LenProperties
  <2> QED
    BY <2>1, Distance
<1>0. /\ r2 \in [0 .. R - 1 -> U]
      /\ \A j \in 0 .. R - 1 : r2[j] = IF Filled(R, j, i) + 1 <= n
                                       THEN w[Filled(R, j, i) + 1] ELSE r[j]
  <2>1. ASSUME NEW j \in 0 .. R - 1, Filled(R, j, i) + 1 <= Len(w)
        PROVE  w[Filled(R, j, i) + 1] \in U
    <3>1. Filled(R, j, i) \in 0 .. R - 1
      BY Distance
    <3>2. Filled(R, j, i) + 1 \in 1 .. Len(w)
      BY <1>1, <2>1, <3>1
    <3> QED
      BY <3>2, ElementOfSeq
  <2> QED
    BY <2>1 DEF RingWith
<1> HIDE DEF r2
<1>2. i2 = (IF i + n < R THEN i + n ELSE i + n - R) /\ i2 \in 0 .. R - 1
  <2> DEFINE x == i + n
  <2> HIDE DEF a, n
  <2>1. x \in Nat /\ x < 2 * R /\ x = i + n
    BY <1>1
  <2>2. i2 = x % R
    BY DEF n, Moved
  <2> HIDE DEF x
  <2>3. i2 = IF x < R THEN x ELSE x - R
    BY <2>1, <2>2, ModWrap
  <2> QED
    BY <1>1, <2>1, <2>3
<1> HIDE DEF i2
<1>3. Filled(R, i2, o) = a + n
  <2>1. a = IF i >= o THEN i - o ELSE i + R - o
    BY Distance
  <2>2. Filled(R, i2, o) = IF i2 >= o THEN i2 - o ELSE i2 + R - o
    BY <1>2, Distance
  <2> HIDE DEF a, n
  <2> QED
    BY <1>1, <1>2, <2>1, <2>2
<1>4. /\ u \in Seq(U) /\ Len(u) = a
      /\ \A k \in 1 .. a : u[k] = r[Spot(R, o, k)]
  BY RingBytes
<1>5. /\ v \in Seq(U) /\ Len(v) = Filled(R, i2, o)
      /\ \A k \in 1 .. Filled(R, i2, o) : v[k] = r2[Spot(R, o, k)]
  <2>1. IsRing(r2, R, U, i2, o)
    BY <1>0, <1>2 DEF IsRing
  <2> QED
    BY <2>1, RingBytes
<1>6. ASSUME NEW k \in 1 .. R
      PROVE  Filled(R, Spot(R, o, k), i) + 1 =
               IF k <= a THEN R + k - a ELSE k - a
  BY Opposite
<1> HIDE DEF u, v
<1>7. /\ u \o w \in Seq(U) /\ Len(u \o w) = a + n
      /\ \A k \in 1 .. a + n :
           (u \o w)[k] = IF k <= a THEN u[k] ELSE w[k - a]
  <2>1. u \in Seq(U) /\ Len(u) = a
    BY <1>4
  <2>2. /\ u \o w \in Seq(U) /\ Len(u \o w) = Len(u) + Len(w)
        /\ \A k \in 1 .. Len(u) + Len(w) :
             (u \o w)[k] = IF k <= Len(u) THEN u[k] ELSE w[k - Len(u)]
    BY ONLY <2>1, w \in Seq(U), ConcatProperties, Zenon
  <2> HIDE DEF a
  <2> QED
    BY <2>1, <2>2
<1> HIDE DEF a
<1>8. ASSUME NEW k \in 1 .. a + n PROVE v[k] = (u \o w)[k]
  <2> DEFINE q == Spot(R, o, k)
             m == Filled(R, q, i)
  <2>1. k \in 1 .. R
    BY <1>1
  <2>2. q \in 0 .. R - 1
    BY <2>1, Place
  <2>3. m + 1 = IF k <= a THEN R + k - a ELSE k - a
    BY <1>6, <2>1
  <2>4. r2[q] = IF m + 1 <= n THEN w[m + 1] ELSE r[q]
    BY <1>0, <2>2
  <2>5. v[k] = r2[q]
    BY <1>3, <1>5
  <2> HIDE DEF n
  <2>6. k <= a => u[k] = r[q]
    BY <1>1, <1>4
  <2> HIDE DEF q, m
  <2>7. CASE k <= a
    <3>1. ~(m + 1 <= n)
      BY <1>1, <2>1, <2>3, <2>7
    <3> QED
      BY <1>7, <2>4, <2>5, <2>6, <2>7, <3>1
  <2>8. CASE ~(k <= a)
    <3>1. m + 1 = k - a /\ k - a \in 1 .. n
      BY <1>1, <2>1, <2>3, <2>8
    <3>2. v[k] = w[k - a]
      BY <2>4, <2>5, <3>1
    <3> QED
      BY <1>7, <2>8, <3>1, <3>2
  <2> QED
    BY <2>7, <2>8
<1>9. v = u \o w
  <2> DEFINE t == u \o w
  <2> HIDE DEF n
  <2>1. /\ v \in Seq(U) /\ t \in Seq(U) /\ Len(v) = a + n /\ Len(t) = a + n
        /\ \A k \in 1 .. a + n : v[k] = t[k]
    BY <1>3, <1>5, <1>7, <1>8
  <2> HIDE DEF t
  <2>2. v = t
    BY ONLY <2>1, SeqEqual
  <2> QED
    BY <2>2 DEF t
<1> QED
  <2>1. IsRing(r2, R, U, i2, o)
    BY <1>0, <1>2 DEF IsRing
  <2> QED
    BY <1>3, <1>9, <2>1 DEF a, u, v, n, r2, i2

=============================================================================

-------------------------- MODULE WasmModuleProofs --------------------------
(***************************************************************************)
(* Proofs about WasmModule: for every set of binaries and of instances, no *)
(* failure of a load or an instantiation leaks or frees twice, no index is *)
(* used outside its array, and an instance begins with what its segments   *)
(* describe. The types that are shared, the order of the sections and the  *)
(* checks of their loaders are in LoadInv, what an instance holds at each  *)
(* stage of its making in MadeInv.                                         *)
(***************************************************************************)
EXTENDS WasmModule, FiniteSetTheorems, WellFoundedInduction, TLAPS

-----------------------------------------------------------------------------
(* Sequences of steps.                                                      *)

(* Induction up to a number.                                                *)
LEMMA UpTo ==
    ASSUME NEW K \in Nat, NEW A, 0 \in A,
           \A n \in 0 .. (K - 1) : n \in A => n + 1 \in A
    PROVE  0 .. K \subseteq A
<1> DEFINE R == {ss \in Nat \X Nat : ss[1] < ss[2]}
           B == (0 .. K) \ A
<1>1. SUFFICES ASSUME B # {} PROVE FALSE
  OBVIOUS
<1>2. IsWellFoundedOn(R, Nat)
  BY NatLessThanWellFounded DEF OpToRel
<1>3. B \subseteq Nat
  OBVIOUS
<1>4. PICK m \in B : \A y \in B : ~(<<y, m>> \in R)
  <2> HIDE DEF R, B
  <2> QED
    BY <1>1, <1>2, <1>3, WFMin
<1>5. m \in 0 .. K /\ m \notin A /\ \A y \in 0 .. K : y \notin A => ~(y < m)
  <2>1. ASSUME NEW y \in 0 .. K, y \notin A, y < m PROVE FALSE
    <3>1. y \in B /\ <<y, m>> \in R
      BY <2>1
    <3> QED
      BY <3>1, <1>4
  <2> QED
    BY <2>1
<1>6. m - 1 \in 0 .. (K - 1) /\ m - 1 \in A /\ m - 1 + 1 = m
  BY <1>5
<1> QED
  BY <1>5, <1>6

(* A set of numbers has a least element.                                    *)
LEMMA Least ==
    ASSUME NEW S, S \subseteq Nat, S # {}
    PROVE  \E k \in S : \A l \in S : k =< l
<1> DEFINE R == {ss \in Nat \X Nat : ss[1] < ss[2]}
<1>1. IsWellFoundedOn(R, Nat)
  BY NatLessThanWellFounded DEF OpToRel
<1>2. PICK k \in S : \A y \in S : ~(<<y, k>> \in R)
  <2> HIDE DEF R
  <2> QED
    BY <1>1, WFMin
<1>3. ASSUME NEW y \in S PROVE k =< y
  <2>1. k \in Nat /\ y \in Nat
    OBVIOUS
  <2>2. y < k => <<y, k>> \in R
    BY <2>1
  <2> QED
    BY <2>1, <2>2, <1>2
<1> QED
  BY <1>3

IsSeq(s) == s \in Seq(ToSet(s))

(* A sequence by its length and its elements.                               *)
LEMMA SeqIs ==
    ASSUME NEW s, NEW n \in Nat, DOMAIN s = 1 .. n, s = [k \in 1 .. n |-> s[k]]
    PROVE  IsSeq(s) /\ Len(s) = n
BY DEF IsSeq, ToSet

(* A sequence over a set has its elements in it.                            *)
LEMMA SeqIn ==
    ASSUME NEW S, NEW s \in Seq(S)
    PROVE  /\ IsSeq(s) /\ ToSet(s) \subseteq S
           /\ Len(s) \in Nat /\ DOMAIN s = 1 .. Len(s)
BY DEF IsSeq, ToSet

(* The indices of a sequence and its elements.                              *)
LEMMA SeqDomain ==
    ASSUME NEW s, IsSeq(s)
    PROVE  Len(s) \in Nat /\ DOMAIN s = 1 .. Len(s) /\ \A k \in 1 .. Len(s) : s[k] \in ToSet(s)
BY DEF IsSeq, ToSet

(* The empty sequence.                                                      *)
LEMMA SeqEmpty == IsSeq(<< >>) /\ ToSet(<< >>) = {} /\ Len(<< >>) = 0
BY DEF IsSeq, ToSet

(* A sequence of one element.                                               *)
LEMMA SeqSingle == ASSUME NEW x PROVE IsSeq(<<x>>) /\ ToSet(<<x>>) = {x} /\ Len(<<x>>) = 1
BY DEF IsSeq, ToSet

(* A sequence of two elements.                                              *)
LEMMA SeqPair ==
    ASSUME NEW x, NEW y
    PROVE  IsSeq(<<x, y>>) /\ ToSet(<<x, y>>) = {x, y} /\ Len(<<x, y>>) = 2
BY DEF IsSeq, ToSet

(* One sequence after the other: the elements of both.                      *)
LEMMA SeqConcat ==
    ASSUME NEW a, NEW b, IsSeq(a), IsSeq(b)
    PROVE  /\ IsSeq(a \o b) /\ ToSet(a \o b) = ToSet(a) \cup ToSet(b)
           /\ Len(a \o b) = Len(a) + Len(b)
<1> DEFINE S == ToSet(a) \cup ToSet(b)
<1>1. a \in Seq(S) /\ b \in Seq(S)
  BY DEF IsSeq
<1>2. a \o b \in Seq(S) /\ Len(a \o b) = Len(a) + Len(b)
  BY <1>1
<1>3. \A k \in 1 .. Len(a) : (a \o b)[k] = a[k]
  BY <1>1
<1>4. \A k \in 1 .. Len(b) : (a \o b)[Len(a) + k] = b[k]
  BY <1>1
<1>5. ToSet(a \o b) = S
  <2>1. ASSUME NEW x \in ToSet(a) PROVE x \in ToSet(a \o b)
    BY <1>1, <1>2, <1>3, <2>1 DEF ToSet
  <2>2. ASSUME NEW x \in ToSet(b) PROVE x \in ToSet(a \o b)
    <3>1. PICK k \in 1 .. Len(b) : x = b[k]
      BY <1>1 DEF ToSet
    <3>2. Len(a) + k \in DOMAIN (a \o b)
      BY <1>1, <1>2
    <3> QED
      BY <3>1, <3>2, <1>4 DEF ToSet
  <2>3. ASSUME NEW x \in ToSet(a \o b) PROVE x \in S
    BY <1>2 DEF ToSet
  <2> QED
    BY <2>1, <2>2, <2>3
<1> QED
  BY <1>2, <1>5 DEF IsSeq

(* Where the elements of the two sequences are.                             *)
LEMMA ConcatElements ==
    ASSUME NEW a, NEW b, IsSeq(a), IsSeq(b)
    PROVE  /\ \A k \in 1 .. Len(a) : (a \o b)[k] = a[k]
           /\ \A k \in 1 .. Len(b) : (a \o b)[Len(a) + k] = b[k]
<1> DEFINE S == ToSet(a) \cup ToSet(b)
<1>1. a \in Seq(S) /\ b \in Seq(S)
  BY DEF IsSeq
<1> QED
  BY <1>1

(* Sequences with the same elements in the same order are the same.         *)
LEMMA SeqSame ==
    ASSUME NEW s, NEW t, IsSeq(s), IsSeq(t), Len(s) = Len(t),
           \A k \in 1 .. Len(s) : s[k] = t[k]
    PROVE  s = t
<1> DEFINE S == ToSet(s) \cup ToSet(t)
<1>1. s \in Seq(S) /\ t \in Seq(S)
  BY DEF IsSeq
<1> QED
  BY <1>1

(* The elements of a flattened sequence are those of its parts.             *)
LEMMA Flatten ==
    ASSUME NEW seqs, NEW N \in Nat, seqs = [i \in 1 .. N |-> seqs[i]],
           \A i \in 1 .. N : IsSeq(seqs[i])
    PROVE  \E f : /\ f = [n \in 0 .. N |-> IF n = 0 THEN << >> ELSE f[n - 1] \o seqs[n]]
                  /\ \A n \in 0 .. N : /\ IsSeq(f[n])
                                       /\ ToSet(f[n]) = UNION {ToSet(seqs[i]) : i \in 1 .. n}
                  /\ FlattenSeq(seqs) = f[N]
<1> DEFINE G(u, k) == u = [n \in 0 .. k |-> IF n = 0 THEN << >> ELSE u[n - 1] \o seqs[n]]
           A == {k \in 0 .. N : \E u : G(u, k)}
<1>1. 0 \in A
  <2>1. G([n \in 0 .. 0 |-> << >>], 0)
    OBVIOUS
  <2>2. 0 \in 0 .. N
    OBVIOUS
  <2> QED
    BY <2>1, <2>2
<1>2. ASSUME NEW k \in 0 .. (N - 1), k \in A PROVE k + 1 \in A
  <2>1. PICK u : G(u, k)
    BY <1>2
  <2> DEFINE v == [n \in 0 .. (k + 1) |-> IF n = k + 1 THEN u[k] \o seqs[k + 1] ELSE u[n]]
  <2>2. DOMAIN v = 0 .. (k + 1) /\ v[0] = << >>
    BY <2>1
  <2>3. \A n \in 1 .. (k + 1) : v[n] = v[n - 1] \o seqs[n]
    <3>1. ASSUME NEW n \in 1 .. k PROVE u[n] = u[n - 1] \o seqs[n]
      <4>1. n \in 0 .. k /\ n # 0
        OBVIOUS
      <4>2. u = [m \in 0 .. k |-> IF m = 0 THEN << >> ELSE u[m - 1] \o seqs[m]]
        BY ONLY <2>1
      <4> QED
        BY ONLY <4>1, <4>2
    <3>2. ASSUME NEW n \in 0 .. k PROVE v[n] = u[n]
      <4>1. n \in 0 .. (k + 1) /\ n # k + 1
        OBVIOUS
      <4> QED
        BY ONLY <4>1
    <3>3. v[k + 1] = u[k] \o seqs[k + 1]
      OBVIOUS
    <3> HIDE DEF v, G, A
    <3>4. ASSUME NEW n \in 1 .. (k + 1) PROVE v[n] = v[n - 1] \o seqs[n]
      <4>1. CASE n = k + 1
        <5>1. n - 1 = k /\ k \in 0 .. k
          BY <4>1
        <5> QED
          BY <4>1, <5>1, <3>2, <3>3
      <4>2. CASE n \in 1 .. k
        <5>1. n - 1 \in 0 .. k /\ n \in 0 .. k
          BY <4>2
        <5> QED
          BY <5>1, <4>2, <3>1, <3>2
      <4>3. n = k + 1 \/ n \in 1 .. k
        OBVIOUS
      <4> QED
        BY <4>1, <4>2, <4>3, Zenon
    <3> QED
      BY <3>4
  <2>4. v = [n \in 0 .. (k + 1) |-> v[n]]
    OBVIOUS
  <2> HIDE DEF v, A
  <2>5. G(v, k + 1)
    BY <2>2, <2>3, <2>4
  <2>6. k + 1 \in 0 .. N
    OBVIOUS
  <2> HIDE DEF G
  <2> QED
    BY <2>5, <2>6 DEF A
<1>3. N \in A
  <2> HIDE DEF A
  <2>1. 0 .. N \subseteq A
    BY <1>1, <1>2, UpTo
  <2> QED
    BY <2>1
<1>4. PICK f : G(f, N)
  BY <1>3
<1>5. f[0] = << >> /\ \A n \in 0 .. (N - 1) : f[n + 1] = f[n] \o seqs[n + 1]
  <2>1. f[0] = << >> /\ \A n \in 1 .. N : f[n] = f[n - 1] \o seqs[n]
    BY <1>4
  <2>2. \A n \in 0 .. (N - 1) : n + 1 \in 1 .. N /\ (n + 1) - 1 = n
    OBVIOUS
  <2> HIDE DEF G
  <2> QED
    BY <2>1, <2>2
<1> DEFINE B == {n \in 0 .. N : IsSeq(f[n]) /\ ToSet(f[n]) = UNION {ToSet(seqs[i]) : i \in 1 .. n}}
<1>6. 0 .. N \subseteq B
  <2>1. 0 \in B
    BY <1>5, SeqEmpty
  <2>2. ASSUME NEW n \in 0 .. (N - 1), n \in B PROVE n + 1 \in B
    <3> HIDE DEF G
    <3>0. n + 1 \in 1 .. N
      OBVIOUS
    <3>1. f[n + 1] = f[n] \o seqs[n + 1]
      BY <1>5, Zenon
    <3>2. IsSeq(f[n + 1]) /\ ToSet(f[n + 1]) = ToSet(f[n]) \cup ToSet(seqs[n + 1])
      BY <2>2, <3>0, <3>1, SeqConcat
    <3>3. \A i : i \in 1 .. n + 1 <=> i \in 1 .. n \/ i = n + 1
      OBVIOUS
    <3>4. UNION {ToSet(seqs[i]) : i \in 1 .. n + 1}
             = (UNION {ToSet(seqs[i]) : i \in 1 .. n}) \cup ToSet(seqs[n + 1])
      <4> HIDE DEF B
      <4> QED
        BY <3>3
    <3>5. n + 1 \in 0 .. N
      OBVIOUS
    <3> QED
      BY <2>2, <3>2, <3>4, <3>5
  <2> HIDE DEF B, G
  <2> QED
    BY <2>1, <2>2, UpTo
<1>7. FlattenSeq(seqs) = f[N]
  <2>0. Len(seqs) = N
    <3>1. seqs \in Seq({seqs[i] : i \in 1 .. N})
      OBVIOUS
    <3> QED
      BY <3>1
  <2>1. CASE N = 0
    BY <2>0, <2>1, <1>5 DEF FlattenSeq
  <2>2. CASE N # 0
    <3> DEFINE H(u) == [i \in 1 .. N |-> IF i = 1 THEN seqs[i] ELSE u[i - 1] \o seqs[i]]
               w == CHOOSE u : u = H(u)
               g == [i \in 1 .. N |-> f[i]]
    <3>1. f[1] = seqs[1]
      <4>1. f[1] = << >> \o seqs[1] /\ IsSeq(seqs[1])
        <5>1. 0 \in 0 .. (N - 1) /\ 0 + 1 = 1 /\ 1 \in 1 .. N
          BY <2>2
        <5> HIDE DEF G
        <5> QED
          BY <1>5, <5>1
      <4> QED
        BY <4>1 DEF IsSeq
    <3>2. \A i \in 1 .. N : i # 1 => g[i - 1] = f[i - 1]
      OBVIOUS
    <3>3. g = H(g)
      <4>1. \A i \in 1 .. N : f[i] = IF i = 1 THEN seqs[i] ELSE g[i - 1] \o seqs[i]
        <5>1. \A i \in 1 .. N : i - 1 \in 0 .. (N - 1) /\ (i - 1) + 1 = i
          OBVIOUS
        <5> HIDE DEF g, G
        <5> QED
          BY <3>1, <3>2, <1>5, <5>1
      <4> QED
        BY <4>1
    <3>4. w = H(w)
      <4> HIDE DEF H, g
      <4> QED
        BY <3>3
    <3>5. FlattenSeq(seqs) = w[N]
      BY <2>0, <2>2 DEF FlattenSeq
    <3> HIDE DEF w
    <3> DEFINE C == {n \in 0 .. N : n = 0 \/ w[n] = f[n]}
    <3>6. 0 \in C
      OBVIOUS
    <3>7. ASSUME NEW n \in 0 .. (N - 1), n \in C PROVE n + 1 \in C
      <4> HIDE DEF G, g
      <4>0. n + 1 \in 1 .. N /\ (n + 1) - 1 = n /\ n + 1 \in 0 .. N
        OBVIOUS
      <4>1. w[n + 1] = IF n + 1 = 1 THEN seqs[n + 1] ELSE w[n] \o seqs[n + 1]
        <5>1. \A i \in 1 .. N : w[i] = IF i = 1 THEN seqs[i] ELSE w[i - 1] \o seqs[i]
          BY <3>4
        <5> QED
          BY <5>1, <4>0
      <4>2. f[n + 1] = f[n] \o seqs[n + 1]
        BY <1>5
      <4>3. CASE n = 0
        BY <4>0, <4>1, <4>3, <3>1
      <4>4. CASE n # 0
        <5>1. w[n] = f[n] /\ n + 1 # 1
          BY <4>4, <3>7
        <5>2. w[n + 1] = f[n + 1]
          BY <4>1, <4>2, <5>1
        <5> QED
          BY <4>0, <5>2
      <4> QED
        BY <4>3, <4>4
    <3>8. 0 .. N \subseteq C
      <4> HIDE DEF C, H, G
      <4> QED
        BY <3>6, <3>7, UpTo
    <3> QED
      BY <3>8, <3>5, <2>2
  <2> QED
    BY <2>1, <2>2
<1> QED
  BY <1>4, <1>6, <1>7

(* A check of a load that succeeds holds.                                   *)
LEMMA ChecksHold ==
    ASSUME NEW steps, IsSeq(steps), Succeeds(steps), NEW ok, Check(ok) \in ToSet(steps)
    PROVE  ok
<1> DEFINE failing == {k \in DOMAIN steps : steps[k].op = "check" /\ ~steps[k].ok}
<1>1. Len(steps) \in Nat /\ DOMAIN steps = 1 .. Len(steps)
  BY SeqDomain
<1>2. failing = {}
  <2>1. SUFFICES ASSUME failing # {} PROVE FALSE
    OBVIOUS
  <2>2. Reach(steps) = (CHOOSE k \in failing : \A l \in failing : k =< l) - 1
    BY <2>1 DEF Reach
  <2>3. \E k \in failing : \A l \in failing : k =< l
    <3>1. failing \subseteq Nat
      BY <1>1
    <3> HIDE DEF failing
    <3> QED
      BY <2>1, <3>1, Least
  <2>4. (CHOOSE k \in failing : \A l \in failing : k =< l) \in failing
    <3> HIDE DEF failing
    <3> QED
      BY <2>3
  <2>5. (CHOOSE k \in failing : \A l \in failing : k =< l) \in 1 .. Len(steps)
    BY <2>4, <1>1
  <2> HIDE DEF failing
  <2> QED
    BY <2>2, <2>5, <1>1 DEF Succeeds
<1>3. PICK k \in DOMAIN steps : steps[k] = Check(ok)
  BY DEF ToSet
<1>4. ok = FALSE => FALSE
  BY <1>2, <1>3 DEF Check
<1>5. steps[k].op = "check" /\ steps[k].ok = ok
  BY <1>3 DEF Check
<1>6. steps[k].ok
  BY <1>2, <1>5
<1> QED
  BY <1>5, <1>6

(* The states of a heap while steps are done.                               *)
IsRun(a, h, steps) ==
    /\ a[0] = h
    /\ \A n \in 0 .. (Len(steps) - 1) : a[n + 1] = Done(a[n], steps[n + 1])
    /\ AfterSteps(h, steps) = a[Len(steps)]

(* The heaps after each of the steps form a run.                            *)
LEMMA AfterStepsUnfold ==
    ASSUME NEW h, NEW steps, IsSeq(steps)
    PROVE  \E a : IsRun(a, h, steps)
<1> DEFINE N == Len(steps)
           G(u, k) == u = [n \in 0 .. k |-> IF n = 0 THEN h ELSE Done(u[n - 1], steps[n])]
           A == {k \in 0 .. N : \E u : G(u, k)}
<1>0. N \in Nat
  BY SeqDomain
<1> HIDE DEF N
<1>1. 0 \in A
  <2>1. G([n \in 0 .. 0 |-> h], 0)
    OBVIOUS
  <2>2. 0 \in 0 .. N
    BY <1>0
  <2> QED
    BY <2>1, <2>2
<1>2. ASSUME NEW k \in 0 .. (N - 1), k \in A PROVE k + 1 \in A
  <2>1. PICK u : G(u, k)
    BY <1>2
  <2> DEFINE v == [n \in 0 .. (k + 1) |-> IF n = k + 1 THEN Done(u[k], steps[k + 1]) ELSE u[n]]
  <2>2. v = [n \in 0 .. (k + 1) |-> v[n]] /\ v[0] = h
    BY <2>1
  <2>3. \A n \in 1 .. k : u[n] = Done(u[n - 1], steps[n])
    BY <2>1
  <2>4. \A n \in 0 .. k : v[n] = u[n]
    OBVIOUS
  <2>5. v[k + 1] = Done(u[k], steps[k + 1])
    OBVIOUS
  <2> HIDE DEF v, G, A
  <2>6. ASSUME NEW n \in 1 .. (k + 1) PROVE v[n] = Done(v[n - 1], steps[n])
    <3>1. CASE n = k + 1
      <4>1. n - 1 = k /\ k \in 0 .. k
        BY <3>1
      <4> QED
        BY <3>1, <4>1, <2>4, <2>5
    <3>2. CASE n \in 1 .. k
      <4>1. n - 1 \in 0 .. k /\ n \in 0 .. k
        BY <3>2
      <4> QED
        BY <4>1, <3>2, <2>3, <2>4
    <3>3. n = k + 1 \/ n \in 1 .. k
      OBVIOUS
    <3> QED
      BY <3>1, <3>2, <3>3, Zenon
  <2>7. G(v, k + 1)
    <3>1. \A n \in 0 .. (k + 1) : v[n] = IF n = 0 THEN h ELSE Done(v[n - 1], steps[n])
      <4>1. \A n \in 0 .. (k + 1) : n = 0 \/ n \in 1 .. (k + 1)
        BY <1>0
      <4> QED
        BY <4>1, <2>2, <2>6
    <3> QED
      BY <3>1, <2>2 DEF G
  <2>8. k + 1 \in 0 .. N
    BY <1>0
  <2> QED
    BY <2>7, <2>8 DEF A
<1>3. PICK f : G(f, N)
  <2> HIDE DEF A
  <2>1. 0 .. N \subseteq A
    BY <1>0, <1>1, <1>2, UpTo
  <2>2. N \in A
    BY <1>0, <2>1
  <2> QED
    BY <2>2 DEF A
<1> DEFINE H(u) == [n \in 0 .. N |-> IF n = 0 THEN h ELSE Done(u[n - 1], steps[n])]
           w == CHOOSE u : u = H(u)
<1>4. f = H(f)
  BY <1>3
<1>5. w = H(w)
  <2> HIDE DEF H, G
  <2> QED
    BY <1>4
<1>6. AfterSteps(h, steps) = w[N]
  BY DEF AfterSteps, N
<1> HIDE DEF w
<1>7. w[0] = h /\ \A n \in 0 .. (N - 1) : w[n + 1] = Done(w[n], steps[n + 1])
  <2>1. w[0] = h /\ \A n \in 1 .. N : w[n] = Done(w[n - 1], steps[n])
    BY <1>0, <1>5
  <2>2. \A n \in 0 .. (N - 1) : n + 1 \in 1 .. N /\ (n + 1) - 1 = n
    BY <1>0
  <2> HIDE DEF H, G
  <2> QED
    BY <2>1, <2>2
<1> QED
  BY <1>6, <1>7 DEF N, IsRun

(* The beginning of a sequence.                                             *)
LEMMA Prefix ==
    ASSUME NEW s, IsSeq(s), NEW n \in 0 .. Len(s)
    PROVE  /\ IsSeq(SubSeq(s, 1, n)) /\ Len(SubSeq(s, 1, n)) = n
           /\ \A k \in 1 .. n : SubSeq(s, 1, n)[k] = s[k]
           /\ ToSet(SubSeq(s, 1, n)) \subseteq ToSet(s)
           /\ n = Len(s) => SubSeq(s, 1, n) = s
<1>1. s \in Seq(ToSet(s)) /\ Len(s) \in Nat /\ DOMAIN s = 1 .. Len(s)
  BY SeqDomain DEF IsSeq
<1> DEFINE t == SubSeq(s, 1, n)
<1>2. t \in Seq(ToSet(s)) /\ Len(t) = n /\ \A k \in 1 .. n : t[k] = s[k]
  BY <1>1
<1>3. n = Len(s) => t = s
  BY <1>1, <1>2
<1> HIDE DEF t
<1>4. IsSeq(t) /\ ToSet(t) \subseteq ToSet(s)
  BY <1>2, SeqIn
<1> QED
  BY <1>2, <1>3, <1>4 DEF t

(* No step leaves the heap as it is.                                        *)
LEMMA AfterNone ==
    ASSUME NEW h, NEW steps, IsSeq(steps)
    PROVE  AfterSteps(h, SubSeq(steps, 1, 0)) = h
<1>1. 0 \in 0 .. Len(steps)
  BY SeqDomain
<1>2. IsSeq(SubSeq(steps, 1, 0)) /\ Len(SubSeq(steps, 1, 0)) = 0
  BY <1>1, Prefix
<1>3. PICK a : IsRun(a, h, SubSeq(steps, 1, 0))
  BY <1>2, AfterStepsUnfold
<1> QED
  BY <1>2, <1>3 DEF IsRun

(* One step alone.                                                          *)
LEMMA AfterOne == ASSUME NEW h, NEW x PROVE AfterSteps(h, <<x>>) = Done(h, x)
<1>1. IsSeq(<<x>>) /\ Len(<<x>>) = 1 /\ <<x>>[1] = x
  BY SeqSingle
<1>2. PICK a : IsRun(a, h, <<x>>)
  BY <1>1, AfterStepsUnfold
<1> QED
  BY <1>1, <1>2 DEF IsRun

(* One step more.                                                           *)
LEMMA AfterPrefix ==
    ASSUME NEW h, NEW steps, IsSeq(steps), NEW n \in 0 .. (Len(steps) - 1)
    PROVE  AfterSteps(h, SubSeq(steps, 1, n + 1)) =
               Done(AfterSteps(h, SubSeq(steps, 1, n)), steps[n + 1])
<1>0. Len(steps) \in Nat
  BY SeqDomain
<1> DEFINE s == SubSeq(steps, 1, n)
           t == SubSeq(steps, 1, n + 1)
<1>1. n \in Nat /\ n \in 0 .. Len(steps) /\ n + 1 \in 0 .. Len(steps)
  BY <1>0
<1>2. IsSeq(s) /\ Len(s) = n /\ \A k \in 1 .. n : s[k] = steps[k]
  BY <1>1, Prefix
<1>3. IsSeq(t) /\ Len(t) = n + 1 /\ \A k \in 1 .. n + 1 : t[k] = steps[k]
  BY <1>1, Prefix
<1> HIDE DEF s, t
<1>4. /\ \E a : IsRun(a, h, s)
      /\ \E b : IsRun(b, h, t)
  BY <1>2, <1>3, AfterStepsUnfold
<1>5. PICK a : IsRun(a, h, s)
  BY <1>4
<1>6. PICK b : IsRun(b, h, t)
  BY <1>4
<1>7. /\ a[0] = h /\ b[0] = h
      /\ AfterSteps(h, s) = a[Len(s)] /\ AfterSteps(h, t) = b[Len(t)]
      /\ \A k \in 0 .. (Len(s) - 1) : a[k + 1] = Done(a[k], s[k + 1])
      /\ \A k \in 0 .. (Len(t) - 1) : b[k + 1] = Done(b[k], t[k + 1])
  BY <1>5, <1>6 DEF IsRun
<1> DEFINE A == {k \in 0 .. n : a[k] = b[k]}
<1>8. 0 \in A
  BY <1>1, <1>7
<1>9. ASSUME NEW k \in 0 .. (n - 1), k \in A PROVE k + 1 \in A
  <2>1. /\ k \in 0 .. (Len(s) - 1) /\ k \in 0 .. (Len(t) - 1) /\ k + 1 \in 0 .. n
        /\ k + 1 \in 1 .. n /\ k + 1 \in 1 .. n + 1
    BY <1>1, <1>2, <1>3
  <2>2. s[k + 1] = t[k + 1] /\ a[k] = b[k]
    BY <2>1, <1>2, <1>3, <1>9
  <2>3. a[k + 1] = Done(a[k], s[k + 1]) /\ b[k + 1] = Done(b[k], t[k + 1])
    BY <2>1, <1>7
  <2> QED
    BY <2>1, <2>2, <2>3
<1>10. a[n] = b[n]
  <2>1. 0 .. n \subseteq A
    <3> HIDE DEF A
    <3> QED
      BY <1>1, <1>8, <1>9, UpTo
  <2> QED
    BY <2>1, <1>1
<1>11. n \in 0 .. (Len(t) - 1) /\ n + 1 \in 1 .. n + 1
  BY <1>1, <1>3
<1>12. b[n + 1] = Done(b[n], steps[n + 1])
  BY <1>11, <1>7, <1>3
<1>13. AfterSteps(h, t) = Done(AfterSteps(h, s), steps[n + 1])
  BY <1>2, <1>3, <1>7, <1>10, <1>12
<1> QED
  BY <1>13 DEF s, t

(* A list of steps made of lists has the steps of each.                     *)
LEMMA FlattenIs ==
    ASSUME NEW seqs, NEW N \in Nat, seqs = [i \in 1 .. N |-> seqs[i]],
           \A i \in 1 .. N : IsSeq(seqs[i])
    PROVE  /\ IsSeq(FlattenSeq(seqs))
           /\ \A x : x \in ToSet(FlattenSeq(seqs)) <=> \E i \in 1 .. N : x \in ToSet(seqs[i])
<1>1. PICK f : /\ \A n \in 0 .. N : /\ IsSeq(f[n])
                                    /\ ToSet(f[n]) = UNION {ToSet(seqs[i]) : i \in 1 .. n}
               /\ FlattenSeq(seqs) = f[N]
  BY Flatten
<1>2. N \in 0 .. N
  OBVIOUS
<1>3. IsSeq(f[N]) /\ ToSet(f[N]) = UNION {ToSet(seqs[i]) : i \in 1 .. N}
  BY <1>1, <1>2
<1> QED
  BY <1>1, <1>3

-----------------------------------------------------------------------------
(* The loaders.                                                             *)

(* The sequences of a binary.                                               *)
LEMMA BinaryTypes ==
    ASSUME binary \in Binary
    PROVE  /\ binary.order \in Seq(ToSet(section_ids)) /\ binary.type \in Seq(STRING)
           /\ binary.func \in Seq([type : Nat, locals : BOOLEAN, deep : BOOLEAN])
           /\ binary.table \in Seq([size : Size]) /\ binary.memory \in Seq([size : Size])
           /\ binary.global \in Seq([type : STRING, op : {"const", "get"}, arg : Nat])
           /\ binary.export \in Seq([name : STRING, index : Nat,
                                     kind : {"func", "table", "memory", "global"}])
           /\ binary.start \in Nat /\ binary.code \in Nat
           /\ binary.elem \in Seq([table : Nat, op : {"const", "get"}, arg : Nat,
                                   funcs : Seq(Nat)])
           /\ binary.data \in Seq([passive : BOOLEAN, memory : Nat, op : {"const", "get"},
                                   arg : Nat, len : Nat])
BY DEF Binary

(* The imports that a binary describes.                                     *)
LEMMA ImportTypes ==
    ASSUME binary \in Binary
    PROVE  /\ binary.import.func \in Seq([module : STRING, name : STRING, type : Nat])
           /\ binary.import.table \in Seq([module : STRING, name : STRING, size : Size])
           /\ binary.import.memory \in Seq([module : STRING, name : STRING, size : Size])
           /\ binary.import.global \in Seq([module : STRING, name : STRING, type : STRING,
                                            mutable : BOOLEAN, value : Nat])
BY DEF Binary

(* An element of a sequence.                                                *)
LEMMA SeqElement == ASSUME NEW S, NEW s \in Seq(S), NEW i \in DOMAIN s PROVE s[i] \in S
OBVIOUS

(* The elements of those sequences.                                         *)
LEMMA ElementTypes ==
    ASSUME binary \in Binary
    PROVE  /\ \A i \in DOMAIN binary.elem :
                 /\ binary.elem[i].table \in Nat /\ binary.elem[i].arg \in Nat
                 /\ binary.elem[i].op \in {"const", "get"} /\ binary.elem[i].funcs \in Seq(Nat)
           /\ \A i \in DOMAIN binary.data :
                 /\ binary.data[i].passive \in BOOLEAN /\ binary.data[i].memory \in Nat
                 /\ binary.data[i].op \in {"const", "get"} /\ binary.data[i].arg \in Nat
                 /\ binary.data[i].len \in Nat
           /\ \A i \in DOMAIN binary.export :
                 /\ binary.export[i].index \in Nat
                 /\ binary.export[i].kind \in {"func", "table", "memory", "global"}
           /\ \A i \in DOMAIN binary.import.global : binary.import.global[i].value \in Nat
<1>1. ASSUME NEW i \in DOMAIN binary.elem
      PROVE  binary.elem[i] \in [table : Nat, op : {"const", "get"}, arg : Nat, funcs : Seq(Nat)]
  BY BinaryTypes, SeqElement
<1>2. ASSUME NEW i \in DOMAIN binary.data
      PROVE  binary.data[i] \in [passive : BOOLEAN, memory : Nat, op : {"const", "get"},
                                 arg : Nat, len : Nat]
  BY BinaryTypes, SeqElement
<1>3. ASSUME NEW i \in DOMAIN binary.export
      PROVE  binary.export[i] \in [name : STRING, index : Nat,
                                   kind : {"func", "table", "memory", "global"}]
  BY BinaryTypes, SeqElement
<1>4. ASSUME NEW i \in DOMAIN binary.import.global
      PROVE  binary.import.global[i] \in [module : STRING, name : STRING, type : STRING,
                                          mutable : BOOLEAN, value : Nat]
  BY ImportTypes, SeqElement
<1> QED
  BY <1>1, <1>2, <1>3, <1>4

(* The imports of all kinds are one sequence.                               *)
LEMMA ImportsSeq ==
    ASSUME binary \in Binary
    PROVE  IsSeq(Imports)
<1>1. /\ IsSeq(binary.import.func) /\ IsSeq(binary.import.table)
      /\ IsSeq(binary.import.memory) /\ IsSeq(binary.import.global)
  BY ImportTypes, SeqIn
<1> QED
  BY <1>1, SeqConcat DEF Imports

ModuleNames == {"types", "imports", "functions", "tables", "memories", "globals", "exports",
                "table_segments", "data_segments", "module"}

ModuleBlocks ==
    {<<name>> : name \in ModuleNames} \cup
    {<<name, i>> : name \in {"local_offsets", "function", "br_table_cache"},
                   i \in DOMAIN binary.func} \cup
    {<<"func_indexes", i>> : i \in DOMAIN binary.elem} \cup
    {<<"data_segment", i>> : i \in DOMAIN binary.data}

SectionBlocks == {<<"section", k>> : k \in DOMAIN binary.order}

(* What the module points to, the types apart.                              *)
ModulePtr(b) == b \in ModuleBlocks \cup SectionBlocks \/ \E n : b = <<"string", n>>

IsPlain(steps) ==
    /\ IsSeq(steps)
    /\ \A x \in ToSet(steps) : x.op = "check" \/ (x.op = "alloc" /\ ModulePtr(x.block))

(* No step at all is plain.                                                 *)
LEMMA PlainEmpty == IsPlain(<< >>)
BY SeqEmpty DEF IsPlain

(* A check is plain.                                                        *)
LEMMA PlainCheck == ASSUME NEW ok PROVE IsPlain(<<Check(ok)>>)
BY SeqSingle DEF IsPlain, Check

(* So is the allocation of a block of the module,                           *)
LEMMA PlainAlloc == ASSUME NEW b, ModulePtr(b) PROVE IsPlain(<<Alloc(b)>>)
BY SeqSingle DEF IsPlain, Alloc

(* or its allocation under a condition.                                     *)
LEMMA PlainAllocIf == ASSUME NEW c, NEW b, ModulePtr(b) PROVE IsPlain(AllocIf(c, b))
BY PlainAlloc, PlainEmpty DEF AllocIf

(* Plain steps after plain steps are plain,                                 *)
LEMMA PlainConcat == ASSUME NEW a, NEW b, IsPlain(a), IsPlain(b) PROVE IsPlain(a \o b)
BY SeqConcat DEF IsPlain

(* two of them in a row are,                                                *)
LEMMA PlainPair == ASSUME NEW x, NEW y, IsPlain(<<x>>), IsPlain(<<y>>) PROVE IsPlain(<<x, y>>)
<1>1. IsSeq(<<x, y>>) /\ ToSet(<<x, y>>) = {x, y}
  BY SeqPair
<1>2. x \in ToSet(<<x>>) /\ y \in ToSet(<<y>>)
  BY SeqSingle
<1> QED
  BY <1>1, <1>2 DEF IsPlain

(* and those of a list of plain lists are.                                  *)
LEMMA PlainFlatten ==
    ASSUME NEW seqs, NEW N \in Nat, seqs = [i \in 1 .. N |-> seqs[i]],
           \A i \in 1 .. N : IsPlain(seqs[i])
    PROVE  IsPlain(FlattenSeq(seqs))
BY FlattenIs DEF IsPlain

(* A name is inserted with plain steps.                                     *)
LEMMA PlainName == ASSUME NEW n, NEW before PROVE IsPlain(InsertName(n, before))
<1>1. ModulePtr(<<"string", n>>)
  BY DEF ModulePtr
<1> QED
  BY <1>1, PlainAllocIf DEF InsertName

(* The blocks that the loaders allocate are blocks of the module.           *)
LEMMA NamedPtr ==
    /\ \A name \in ModuleNames : ModulePtr(<<name>>)
    /\ \A i \in DOMAIN binary.func : /\ ModulePtr(<<"local_offsets", i>>)
                                     /\ ModulePtr(<<"function", i>>)
                                     /\ ModulePtr(<<"br_table_cache", i>>)
    /\ \A i \in DOMAIN binary.elem : ModulePtr(<<"func_indexes", i>>)
    /\ \A i \in DOMAIN binary.data : ModulePtr(<<"data_segment", i>>)
    /\ \A k \in DOMAIN binary.order : ModulePtr(<<"section", k>>)
BY DEF ModulePtr, ModuleBlocks, SectionBlocks

(* Loading the imports takes plain steps.                                   *)
LEMMA ImportPlain == ASSUME binary \in Binary PROVE IsPlain(load_import_section)
<1> DEFINE before(n) == NamesOf(SubSeq(Imports, 1, n - 1))
           each == [n \in DOMAIN Imports |->
               InsertName(Imports[n].module, before(n)) \o
               InsertName(Imports[n].name, before(n) \cup {Imports[n].module}) \o
               (IF n \in DOMAIN binary.import.func
                THEN <<Check(binary.import.func[n].type < Count("type"))>> ELSE << >>)]
           a == AllocIf(Imports # << >>, <<"imports">>)
           b == <<Check(Len(binary.import.table) =< 1), Check(Len(binary.import.memory) =< 1)>>
<1>1. load_import_section = a \o b \o FlattenSeq(each)
  BY DEF load_import_section, ForEach
<1>2. IsPlain(a)
  BY NamedPtr, PlainAllocIf DEF ModuleNames
<1>3. IsPlain(b)
  BY PlainCheck, PlainPair
<1>4. Len(Imports) \in Nat /\ DOMAIN Imports = 1 .. Len(Imports)
  BY ImportsSeq, SeqDomain
<1>5. ASSUME NEW n \in 1 .. Len(Imports) PROVE IsPlain(each[n])
  <2> DEFINE c == IF n \in DOMAIN binary.import.func
                  THEN <<Check(binary.import.func[n].type < Count("type"))>> ELSE << >>
             d == InsertName(Imports[n].module, before(n))
             e == InsertName(Imports[n].name, before(n) \cup {Imports[n].module})
  <2>1. each[n] = d \o e \o c
    BY <1>4
  <2>2. IsPlain(c) /\ IsPlain(d) /\ IsPlain(e)
    BY PlainCheck, PlainEmpty, PlainName
  <2> HIDE DEF c, d, e, each
  <2> QED
    BY <2>1, <2>2, PlainConcat
<1>6. each = [n \in 1 .. Len(Imports) |-> each[n]]
  BY <1>4
<1> HIDE DEF a, b, each
<1>7. IsPlain(FlattenSeq(each))
  BY <1>4, <1>5, <1>6, PlainFlatten
<1> QED
  BY <1>1, <1>2, <1>3, <1>7, PlainConcat

(* Loading the functions takes plain steps.                                 *)
LEMMA FunctionPlain == ASSUME binary \in Binary PROVE IsPlain(load_function_section)
<1> DEFINE each == [i \in DOMAIN binary.func |->
               <<Check(binary.func[i].type < Count("type")), Alloc(<<"function", i>>)>> \o
               AllocIf(binary.func[i].locals, <<"local_offsets", i>>)]
           a == <<Check(Len(binary.func) = Bodies)>>
           b == AllocIf(binary.func # << >>, <<"functions">>)
<1>1. load_function_section = a \o b \o FlattenSeq(each)
  BY DEF load_function_section, ForEach
<1>2. IsPlain(a) /\ IsPlain(b)
  BY PlainCheck, NamedPtr, PlainAllocIf DEF ModuleNames
<1>3. Len(binary.func) \in Nat /\ DOMAIN binary.func = 1 .. Len(binary.func)
  BY BinaryTypes
<1>4. ASSUME NEW i \in 1 .. Len(binary.func) PROVE IsPlain(each[i])
  <2> DEFINE c == <<Check(binary.func[i].type < Count("type")), Alloc(<<"function", i>>)>>
             d == AllocIf(binary.func[i].locals, <<"local_offsets", i>>)
  <2>1. each[i] = c \o d
    BY <1>3
  <2>2. i \in DOMAIN binary.func
    BY <1>3
  <2>3. IsPlain(c) /\ IsPlain(d)
    BY <2>2, NamedPtr, PlainCheck, PlainAlloc, PlainPair, PlainAllocIf
  <2> HIDE DEF c, d, each
  <2> QED
    BY <2>1, <2>3, PlainConcat
<1>5. each = [i \in 1 .. Len(binary.func) |-> each[i]]
  BY <1>3
<1> HIDE DEF a, b, each
<1>6. IsPlain(FlattenSeq(each))
  BY <1>3, <1>4, <1>5, PlainFlatten
<1> QED
  BY <1>1, <1>2, <1>6, PlainConcat

(* Loading the table takes plain steps.                                     *)
LEMMA TablePlain == ASSUME binary \in Binary PROVE IsPlain(load_table_section)
<1>1. IsPlain(AllocIf(binary.table # << >>, <<"tables">>))
  BY NamedPtr, PlainAllocIf DEF ModuleNames
<1> QED
  BY <1>1, PlainCheck, PlainConcat DEF load_table_section

(* Loading the memory takes plain steps.                                    *)
LEMMA MemoryPlain == ASSUME binary \in Binary PROVE IsPlain(load_memory_section)
<1>1. IsPlain(AllocIf(binary.memory # << >>, <<"memories">>))
  BY NamedPtr, PlainAllocIf DEF ModuleNames
<1> QED
  BY <1>1, PlainCheck, PlainConcat DEF load_memory_section

(* Loading the globals takes plain steps.                                   *)
LEMMA GlobalPlain == ASSUME binary \in Binary PROVE IsPlain(load_global_section)
<1> DEFINE each == [i \in DOMAIN binary.global |->
               <<Check(binary.global[i].op = "get" =>
                    binary.global[i].arg < ImportCount("global"))>>]
           a == AllocIf(binary.global # << >>, <<"globals">>)
<1>1. load_global_section = a \o FlattenSeq(each)
  BY DEF load_global_section, ForEach
<1>2. IsPlain(a)
  BY NamedPtr, PlainAllocIf DEF ModuleNames
<1>3. Len(binary.global) \in Nat /\ DOMAIN binary.global = 1 .. Len(binary.global)
  BY BinaryTypes
<1>4. \A i \in 1 .. Len(binary.global) : IsPlain(each[i])
  BY <1>3, PlainCheck
<1>5. each = [i \in 1 .. Len(binary.global) |-> each[i]]
  BY <1>3
<1> HIDE DEF a, each
<1>6. IsPlain(FlattenSeq(each))
  BY <1>3, <1>4, <1>5, PlainFlatten
<1> QED
  BY <1>1, <1>2, <1>6, PlainConcat

(* The parts of a loader that go through the exports, the elements of a     *)
(* table segment and the data segments.                                     *)
ExportSteps ==
    LET names == [k \in DOMAIN binary.export |-> binary.export[k].name]
        before(i) == {names[k] : k \in 1 .. i - 1}
    IN [i \in DOMAIN binary.export |->
           <<Check(names[i] \notin before(i))>> \o
           InsertName(names[i], before(i) \cup
               (IF "import" \in module.loaded THEN NamesOf(Imports) ELSE {})) \o
           <<Check(binary.export[i].index < Total(binary.export[i].kind))>>]

(* Loading the exports takes plain steps, and checks each index.            *)
LEMMA ExportPlain ==
    ASSUME binary \in Binary
    PROVE  /\ IsPlain(load_export_section)
           /\ \A i \in DOMAIN binary.export :
                 Check(binary.export[i].index < Total(binary.export[i].kind))
                     \in ToSet(load_export_section)
<1> DEFINE N == Len(binary.export)
           a == AllocIf(binary.export # << >>, <<"exports">>)
           ok(i) == Check(binary.export[i].index < Total(binary.export[i].kind))
<1>1. load_export_section = a \o FlattenSeq(ExportSteps)
  BY DEF load_export_section, ForEach, ExportSteps
<1>2. IsPlain(a)
  BY NamedPtr, PlainAllocIf DEF ModuleNames
<1>3. N \in Nat /\ DOMAIN binary.export = 1 .. N
  BY BinaryTypes
<1>4. ASSUME NEW i \in 1 .. N
      PROVE  IsPlain(ExportSteps[i]) /\ ok(i) \in ToSet(ExportSteps[i])
  <2> DEFINE names == [k \in DOMAIN binary.export |-> binary.export[k].name]
             before == {names[k] : k \in 1 .. i - 1}
             b == <<Check(names[i] \notin before)>>
             c == InsertName(names[i], before \cup
                     (IF "import" \in module.loaded THEN NamesOf(Imports) ELSE {}))
             d == <<ok(i)>>
  <2>1. ExportSteps[i] = b \o c \o d
    BY <1>3 DEF ExportSteps
  <2>2. IsPlain(b) /\ IsPlain(c) /\ IsPlain(d)
    BY PlainCheck, PlainName
  <2>3. ok(i) \in ToSet(d)
    BY SeqSingle
  <2>4. IsSeq(b \o c) /\ IsSeq(d) /\ IsPlain(b \o c)
    <3> HIDE DEF b, c, d
    <3> QED
      BY <2>2, PlainConcat DEF IsPlain
  <2> HIDE DEF b, c, d, ok
  <2> QED
    BY <2>1, <2>2, <2>3, <2>4, PlainConcat, SeqConcat
<1>5. ExportSteps = [i \in 1 .. N |-> ExportSteps[i]]
  BY <1>3 DEF ExportSteps
<1> HIDE DEF a, N, ok
<1>6. IsPlain(FlattenSeq(ExportSteps))
  BY <1>3, <1>4, <1>5, PlainFlatten
<1>7. IsPlain(load_export_section)
  BY <1>1, <1>2, <1>6, PlainConcat
<1>8. ASSUME NEW i \in DOMAIN binary.export PROVE ok(i) \in ToSet(load_export_section)
  <2>1. \A j \in 1 .. N : IsSeq(ExportSteps[j])
    BY <1>4 DEF IsPlain
  <2>2. ok(i) \in ToSet(FlattenSeq(ExportSteps))
    BY <1>3, <1>4, <1>5, <2>1, FlattenIs
  <2> QED
    BY <1>1, <1>2, <1>6, <2>2, SeqConcat DEF IsPlain
<1> QED
  BY <1>7, <1>8 DEF ok

(* Loading the start section takes plain steps, and checks its index.       *)
LEMMA StartPlain ==
    /\ IsPlain(load_start_section)
    /\ Check(binary.start < Total("func")) \in ToSet(load_start_section)
<1> DEFINE a == <<Check(binary.start < Total("func"))>>
           b == IF binary.start < Total("func")
                THEN <<Check(TypeOfFunction(binary.start) = "void")>> ELSE << >>
<1>1. load_start_section = a \o b
  BY DEF load_start_section
<1>2. IsPlain(a) /\ IsPlain(b) /\ Check(binary.start < Total("func")) \in ToSet(a)
  BY PlainCheck, PlainEmpty, SeqSingle
<1> HIDE DEF a, b
<1> QED
  BY <1>1, <1>2, PlainConcat, SeqConcat DEF IsPlain

ElementSteps(i) ==
    [k \in DOMAIN binary.elem[i].funcs |->
        <<Check(check_function_index(binary.elem[i].funcs[k]))>>]

SegmentSteps ==
    [i \in DOMAIN binary.elem |->
        <<Check(check_table_index(binary.elem[i].table))>> \o
        AllocIf(binary.elem[i].funcs # << >>, <<"func_indexes", i>>) \o
        FlattenSeq(ElementSteps(i))]

(* Loading the table segments takes plain steps, and checks the table and   *)
(* the function indices of each.                                            *)
LEMMA ElemPlain ==
    ASSUME binary \in Binary
    PROVE  /\ IsPlain(load_table_segment_section)
           /\ \A i \in DOMAIN binary.elem :
                 /\ Check(check_table_index(binary.elem[i].table))
                        \in ToSet(load_table_segment_section)
                 /\ \A k \in DOMAIN binary.elem[i].funcs :
                       Check(check_function_index(binary.elem[i].funcs[k]))
                           \in ToSet(load_table_segment_section)
<1> DEFINE N == Len(binary.elem)
           a == AllocIf(binary.elem # << >>, <<"table_segments">>)
           table(i) == Check(check_table_index(binary.elem[i].table))
           func(i, k) == Check(check_function_index(binary.elem[i].funcs[k]))
<1>1. load_table_segment_section = a \o FlattenSeq(SegmentSteps)
  BY DEF load_table_segment_section, ForEach, SegmentSteps, ElementSteps
<1>2. IsPlain(a)
  BY NamedPtr, PlainAllocIf DEF ModuleNames
<1>3. /\ N \in Nat /\ DOMAIN binary.elem = 1 .. N
      /\ \A i \in 1 .. N : binary.elem[i].funcs \in Seq(Nat)
  <2>1. N \in Nat /\ DOMAIN binary.elem = 1 .. N
    BY BinaryTypes
  <2> QED
    BY <2>1, ElementTypes
<1>4. ASSUME NEW i \in 1 .. N
      PROVE  /\ IsPlain(SegmentSteps[i]) /\ table(i) \in ToSet(SegmentSteps[i])
             /\ \A k \in DOMAIN binary.elem[i].funcs : func(i, k) \in ToSet(SegmentSteps[i])
  <2> DEFINE M == Len(binary.elem[i].funcs)
             b == <<table(i)>>
             c == AllocIf(binary.elem[i].funcs # << >>, <<"func_indexes", i>>)
             d == FlattenSeq(ElementSteps(i))
  <2>1. SegmentSteps[i] = b \o c \o d
    BY <1>3 DEF SegmentSteps
  <2>2. M \in Nat /\ DOMAIN binary.elem[i].funcs = 1 .. M
    BY <1>3
  <2>3. ElementSteps(i) = [k \in 1 .. M |-> ElementSteps(i)[k]]
    BY <2>2 DEF ElementSteps
  <2>4. \A k \in 1 .. M : ElementSteps(i)[k] = <<func(i, k)>>
    BY <2>2 DEF ElementSteps
  <2> HIDE DEF M
  <2>5. \A k \in 1 .. M : IsPlain(ElementSteps(i)[k]) /\ IsSeq(ElementSteps(i)[k])
                             /\ func(i, k) \in ToSet(ElementSteps(i)[k])
    BY <2>4, PlainCheck, SeqSingle
  <2>6. IsPlain(d) /\ \A k \in 1 .. M : func(i, k) \in ToSet(d)
    <3> HIDE DEF func
    <3> QED
      BY <2>2, <2>3, <2>5, PlainFlatten, FlattenIs
  <2>7. i \in DOMAIN binary.elem
    BY <1>3
  <2>8. IsPlain(b) /\ IsPlain(c) /\ table(i) \in ToSet(b)
    BY <2>7, NamedPtr, PlainAllocIf, PlainCheck, SeqSingle
  <2> HIDE DEF b, c, d, table, func
  <2>9. IsPlain(b \o c) /\ table(i) \in ToSet(b \o c)
    BY <2>8, PlainConcat, SeqConcat DEF IsPlain
  <2>10. IsPlain(b \o c \o d) /\ ToSet(b \o c \o d) = ToSet(b \o c) \cup ToSet(d)
    BY <2>6, <2>9, PlainConcat, SeqConcat DEF IsPlain
  <2> QED
    BY <2>1, <2>2, <2>6, <2>9, <2>10
<1>5. SegmentSteps = [i \in 1 .. N |-> SegmentSteps[i]]
  BY <1>3 DEF SegmentSteps
<1> HIDE DEF a, N, table, func
<1>6. IsPlain(FlattenSeq(SegmentSteps))
  BY <1>3, <1>4, <1>5, PlainFlatten
<1>7. IsPlain(load_table_segment_section)
  BY <1>1, <1>2, <1>6, PlainConcat
<1>8. ASSUME NEW i \in DOMAIN binary.elem, NEW x \in ToSet(SegmentSteps[i])
      PROVE  x \in ToSet(load_table_segment_section)
  <2>1. \A j \in 1 .. N : IsSeq(SegmentSteps[j])
    BY <1>4 DEF IsPlain
  <2>2. x \in ToSet(FlattenSeq(SegmentSteps))
    BY <1>3, <1>5, <2>1, FlattenIs
  <2> QED
    BY <1>1, <1>2, <1>6, <2>2, SeqConcat DEF IsPlain
<1>9. ASSUME NEW i \in DOMAIN binary.elem
      PROVE  /\ table(i) \in ToSet(load_table_segment_section)
             /\ \A k \in DOMAIN binary.elem[i].funcs :
                   func(i, k) \in ToSet(load_table_segment_section)
  BY <1>3, <1>4, <1>8
<1> QED
  BY <1>7, <1>9 DEF table, func

(* Loading the code section takes plain steps.                              *)
LEMMA CodePlain == IsPlain(load_code_section)
BY PlainCheck DEF load_code_section

DataSteps ==
    [i \in DOMAIN binary.data |->
        <<Check(binary.data[i].passive \/ binary.data[i].memory < Total("memory")),
          Alloc(<<"data_segment", i>>)>>]

(* Loading the data segments takes plain steps, and checks the memory of    *)
(* each.                                                                    *)
LEMMA DataPlain ==
    ASSUME binary \in Binary
    PROVE  /\ IsPlain(load_data_segment_section)
           /\ \A i \in DOMAIN binary.data :
                 Check(binary.data[i].passive \/ binary.data[i].memory < Total("memory"))
                     \in ToSet(load_data_segment_section)
<1> DEFINE N == Len(binary.data)
           a == <<Check("datacount" \in module.loaded /\ binary.datacount # 0 =>
                Len(binary.data) = binary.datacount)>>
           b == AllocIf(binary.data # << >>, <<"data_segments">>)
           ok(i) == Check(binary.data[i].passive \/ binary.data[i].memory < Total("memory"))
<1>1. load_data_segment_section = a \o b \o FlattenSeq(DataSteps)
  BY DEF load_data_segment_section, ForEach, DataSteps
<1>2. IsPlain(a) /\ IsPlain(b)
  BY NamedPtr, PlainAllocIf, PlainCheck DEF ModuleNames
<1>3. N \in Nat /\ DOMAIN binary.data = 1 .. N
  BY BinaryTypes
<1>4. ASSUME NEW i \in 1 .. N PROVE IsPlain(DataSteps[i]) /\ ok(i) \in ToSet(DataSteps[i])
  <2>1. DataSteps[i] = <<ok(i), Alloc(<<"data_segment", i>>)>> /\ i \in DOMAIN binary.data
    BY <1>3 DEF DataSteps
  <2>2. IsPlain(<<ok(i)>>) /\ IsPlain(<<Alloc(<<"data_segment", i>>)>>)
    BY <2>1, PlainCheck, PlainAlloc, NamedPtr
  <2> HIDE DEF ok
  <2> QED
    BY <2>1, <2>2, PlainPair, SeqPair
<1>5. DataSteps = [i \in 1 .. N |-> DataSteps[i]]
  BY <1>3 DEF DataSteps
<1> HIDE DEF a, b, N, ok
<1>6. IsPlain(FlattenSeq(DataSteps))
  BY <1>3, <1>4, <1>5, PlainFlatten
<1>7. IsPlain(a \o b)
  BY <1>2, PlainConcat
<1>8. IsPlain(load_data_segment_section)
  BY <1>1, <1>6, <1>7, PlainConcat
<1>9. ASSUME NEW i \in DOMAIN binary.data PROVE ok(i) \in ToSet(load_data_segment_section)
  <2>1. \A j \in 1 .. N : IsSeq(DataSteps[j])
    BY <1>4 DEF IsPlain
  <2>2. ok(i) \in ToSet(FlattenSeq(DataSteps))
    BY <1>3, <1>4, <1>5, <2>1, FlattenIs
  <2> QED
    BY <1>1, <1>6, <1>7, <2>2, SeqConcat DEF IsPlain
<1> QED
  BY <1>8, <1>9 DEF ok

(* Preparing the bodies takes plain steps.                                  *)
LEMMA PreparePlain == ASSUME binary \in Binary PROVE IsPlain(PrepareBytecode)
<1> DEFINE each == [i \in DOMAIN binary.func |->
               AllocIf(binary.func[i].deep, <<"br_table_cache", i>>)]
<1>1. PrepareBytecode = FlattenSeq(each)
  BY DEF PrepareBytecode, ForEach
<1>2. Len(binary.func) \in Nat /\ DOMAIN binary.func = 1 .. Len(binary.func)
  BY BinaryTypes
<1>3. \A i \in 1 .. Len(binary.func) : IsPlain(each[i])
  BY <1>2, PlainAllocIf, NamedPtr
<1>4. each = [i \in 1 .. Len(binary.func) |-> each[i]]
  BY <1>2
<1> HIDE DEF each
<1> QED
  BY <1>1, <1>2, <1>3, <1>4, PlainFlatten

OrderSteps ==
    [k \in DOMAIN binary.order |->
        <<Check(binary.order[k] # "user" =>
                    \A l \in 1 .. k - 1 : binary.order[l] # "user" =>
                        get_section_index(binary.order[l]) < get_section_index(binary.order[k])),
          Alloc(<<"section", k>>)>>]

(* A buffer that is accepted has its sections in order.                     *)
LEMMA OrderPlain ==
    ASSUME binary \in Binary
    PROVE  /\ IsPlain(create_sections)
           /\ Succeeds(create_sections) =>
                 \A k, l \in DOMAIN binary.order :
                    (binary.order[k] # "user" /\ binary.order[k] = binary.order[l]) => k = l
<1> DEFINE N == Len(binary.order)
           before(k) == binary.order[k] # "user" =>
               \A l \in 1 .. k - 1 : binary.order[l] # "user" =>
                   get_section_index(binary.order[l]) < get_section_index(binary.order[k])
<1>1. create_sections = FlattenSeq(OrderSteps)
  BY DEF create_sections, ForEach, OrderSteps
<1>2. N \in Nat /\ DOMAIN binary.order = 1 .. N
  BY BinaryTypes
<1>3. ASSUME NEW k \in 1 .. N
      PROVE  IsPlain(OrderSteps[k]) /\ Check(before(k)) \in ToSet(OrderSteps[k])
  <2>1. OrderSteps[k] = <<Check(before(k)), Alloc(<<"section", k>>)>> /\ k \in DOMAIN binary.order
    BY <1>2 DEF OrderSteps
  <2>2. IsPlain(<<Check(before(k))>>) /\ IsPlain(<<Alloc(<<"section", k>>)>>)
    BY <2>1, PlainCheck, PlainAlloc, NamedPtr
  <2> HIDE DEF before
  <2> QED
    BY <2>1, <2>2, PlainPair, SeqPair
<1>4. OrderSteps = [k \in 1 .. N |-> OrderSteps[k]]
  BY <1>2 DEF OrderSteps
<1> HIDE DEF N, before
<1>5. IsPlain(create_sections)
  BY <1>1, <1>2, <1>3, <1>4, PlainFlatten
<1>6. ASSUME Succeeds(create_sections), NEW k \in 1 .. N PROVE before(k)
  <2>1. \A j \in 1 .. N : IsSeq(OrderSteps[j])
    BY <1>3 DEF IsPlain
  <2>2. Check(before(k)) \in ToSet(create_sections)
    BY <1>1, <1>2, <1>3, <1>4, <2>1, FlattenIs
  <2>3. IsSeq(create_sections)
    BY <1>5 DEF IsPlain
  <2> QED
    BY <1>6, <2>2, <2>3, ChecksHold
<1>7. ASSUME NEW k \in 1 .. N
      PROVE  ~(get_section_index(binary.order[k]) < get_section_index(binary.order[k]))
  <2>1. binary.order[k] \in ToSet(section_ids)
    BY <1>2, BinaryTypes, SeqElement
  <2>2. \E j \in DOMAIN section_ids : section_ids[j] = binary.order[k]
    BY <2>1 DEF ToSet
  <2>3. get_section_index(binary.order[k]) \in DOMAIN section_ids
    BY <2>2 DEF get_section_index
  <2>4. DOMAIN section_ids \subseteq Nat
    BY DEF section_ids
  <2> QED
    BY <2>3, <2>4
<1>8. ASSUME Succeeds(create_sections), NEW k \in 1 .. N, NEW l \in 1 .. N,
             binary.order[k] # "user", binary.order[k] = binary.order[l]
      PROVE  k = l
  <2>1. before(k) /\ before(l)
    BY <1>6, <1>8
  <2>2. CASE l < k
    <3>1. l \in 1 .. k - 1
      BY <1>2, <2>2
    <3> QED
      BY <1>7, <1>8, <2>1, <3>1 DEF before
  <2>3. CASE k < l
    <3>1. k \in 1 .. l - 1
      BY <1>2, <2>3
    <3> QED
      BY <1>7, <1>8, <2>1, <3>1 DEF before
  <2> QED
    BY <1>2, <2>2, <2>3
<1> QED
  BY <1>2, <1>5, <1>8

-----------------------------------------------------------------------------
(* Heaps.                                                                   *)

IsHeap(h) ==
    h = [live |-> h.live, bad |-> h.bad, ptr |-> h.ptr, types |-> h.types, ref |-> h.ref]

(* The blocks of the types that are referred to.                            *)
TypeBlocks(types) == {<<"type", types[i]>> : i \in {l \in DOMAIN types : types[l] # 0}}

(* A type is counted as often as it is referred to.                         *)
TypesOK(types, ref) ==
    /\ types \in [DOMAIN binary.type -> 0 .. Len(binary.type)]
    /\ ref \in [DOMAIN binary.type -> Nat]
    /\ \A i \in DOMAIN binary.type : types[i] # 0 =>
          ref[types[i]] = Cardinality({l \in DOMAIN binary.type : types[l] = types[i]})

(* A heap whose blocks are all known to the module, each once.              *)
HeapOK(h) ==
    /\ IsHeap(h) /\ h.bad = {} /\ \A b \in h.ptr : ModulePtr(b)
    /\ TypesOK(h.types, h.ref)
    /\ h.live = h.ptr \cup TypeBlocks(h.types)

Grown(h, g) ==
    /\ IsHeap(g) /\ g.bad = h.bad /\ g.types = h.types /\ g.ref = h.ref
    /\ \E Y : /\ \A b \in Y : ModulePtr(b)
              /\ g.live = h.live \cup Y /\ g.ptr = h.ptr \cup Y

(* Plain steps only add blocks of the module.                               *)
LEMMA PlainAfter ==
    ASSUME NEW h, IsHeap(h), NEW steps, IsPlain(steps), NEW n \in 0 .. Len(steps)
    PROVE  Grown(h, AfterSteps(h, SubSeq(steps, 1, n)))
<1> DEFINE g(k) == AfterSteps(h, SubSeq(steps, 1, k))
           A == {k \in 0 .. Len(steps) : Grown(h, g(k))}
<1>1. IsSeq(steps) /\ Len(steps) \in Nat /\ DOMAIN steps = 1 .. Len(steps)
  BY SeqDomain DEF IsPlain
<1>2. g(0) = h /\ \A k \in 0 .. (Len(steps) - 1) : g(k + 1) = Done(g(k), steps[k + 1])
  <2>1. AfterSteps(h, SubSeq(steps, 1, 0)) = h
    BY <1>1, AfterNone
  <2>2. ASSUME NEW k \in 0 .. (Len(steps) - 1)
        PROVE  AfterSteps(h, SubSeq(steps, 1, k + 1)) =
                   Done(AfterSteps(h, SubSeq(steps, 1, k)), steps[k + 1])
    BY <1>1, AfterPrefix
  <2> QED
    BY <2>1, <2>2
<1> HIDE DEF g
<1>3. 0 \in A
  <2>1. Grown(h, h)
    BY DEF Grown
  <2> QED
    BY <1>1, <1>2, <2>1
<1>4. ASSUME NEW k \in 0 .. (Len(steps) - 1), k \in A PROVE k + 1 \in A
  <2> DEFINE x == steps[k + 1]
  <2>1. g(k + 1) = Done(g(k), x) /\ Grown(h, g(k)) /\ k + 1 \in 1 .. Len(steps)
    BY <1>1, <1>2, <1>4
  <2>2. x \in ToSet(steps)
    BY <1>1, <2>1, SeqDomain
  <2>3. x.op = "check" \/ (x.op = "alloc" /\ ModulePtr(x.block))
    BY <2>2 DEF IsPlain
  <2> HIDE DEF x
  <2>4. CASE x.op = "check"
    BY <1>1, <2>1, <2>4 DEF Done
  <2>5. CASE x.op = "alloc" /\ ModulePtr(x.block)
    <3>1. g(k + 1) = Allocated(g(k), x.block)
      BY <2>1, <2>5 DEF Done
    <3>2. /\ IsHeap(g(k + 1)) /\ g(k + 1).bad = g(k).bad /\ g(k + 1).types = g(k).types
          /\ g(k + 1).ref = g(k).ref /\ g(k + 1).live = g(k).live \cup {x.block}
          /\ g(k + 1).ptr = g(k).ptr \cup {x.block}
      BY <2>1, <3>1 DEF Allocated, IsHeap, Grown
    <3>3. PICK Y : /\ \A b \in Y : ModulePtr(b)
                   /\ g(k).live = h.live \cup Y /\ g(k).ptr = h.ptr \cup Y
      BY <2>1 DEF Grown
    <3> DEFINE Z == Y \cup {x.block}
    <3>4. /\ \A b \in Z : ModulePtr(b)
          /\ g(k + 1).live = h.live \cup Z /\ g(k + 1).ptr = h.ptr \cup Z
      BY <2>5, <3>2, <3>3
    <3> HIDE DEF Z
    <3>5. Grown(h, g(k + 1))
      BY <2>1, <3>2, <3>4 DEF Grown
    <3> QED
      BY <3>5, <2>1
  <2> QED
    BY <2>3, <2>4, <2>5
<1>5. 0 .. Len(steps) \subseteq A
  <2> HIDE DEF A
  <2> QED
    BY <1>1, <1>3, <1>4, UpTo
<1> QED
  BY <1>5 DEF g

(* A heap stays well formed when blocks of the module are added.            *)
LEMMA GrownOK ==
    ASSUME NEW h, NEW g, HeapOK(h), Grown(h, g)
    PROVE  HeapOK(g)
<1>1. PICK Y : /\ \A b \in Y : ModulePtr(b)
               /\ g.live = h.live \cup Y /\ g.ptr = h.ptr \cup Y
  BY DEF Grown
<1> QED
  BY <1>1 DEF Grown, HeapOK

(* No pointer of a module but types leads to the block of a type.           *)
LEMMA PtrNoType == ASSUME NEW b, ModulePtr(b), NEW i PROVE b # <<"type", i>>
BY DEF ModulePtr, ModuleBlocks, ModuleNames, SectionBlocks

(* The types of a binary are finite.                                        *)
LEMMA TypeDomain ==
    ASSUME binary \in Binary
    PROVE  /\ Len(binary.type) \in Nat /\ DOMAIN binary.type = 1 .. Len(binary.type)
           /\ IsFiniteSet(DOMAIN binary.type)
<1>1. Len(binary.type) \in Nat /\ DOMAIN binary.type = 1 .. Len(binary.type)
  BY BinaryTypes
<1> QED
  BY <1>1, FS_Interval, 1 \in Int, Len(binary.type) \in Int

(* Type i is allocated.                                                     *)
LEMMA TypeAdded ==
    ASSUME binary \in Binary, NEW h, HeapOK(h), NEW i \in DOMAIN binary.type,
           h.types[i] = 0, \A l \in DOMAIN binary.type : h.types[l] # i
    PROVE  LET g == Done(h, [op |-> "type", i |-> i]) IN
           HeapOK(g) /\ g.types = [h.types EXCEPT ![i] = i]
<1> DEFINE g == Done(h, [op |-> "type", i |-> i])
           D == DOMAIN binary.type
<1>0. i \in Nat /\ i # 0 /\ i \in 0 .. Len(binary.type) /\ D = 1 .. Len(binary.type)
  BY TypeDomain
<1>1. g = [h EXCEPT !.live = @ \cup {<<"type", i>>}, !.types[i] = i, !.ref[i] = 1]
  BY DEF Done
<1>2. /\ IsHeap(g) /\ g.bad = h.bad /\ g.ptr = h.ptr /\ g.live = h.live \cup {<<"type", i>>}
      /\ g.types = [h.types EXCEPT ![i] = i] /\ g.ref = [h.ref EXCEPT ![i] = 1]
  BY <1>1 DEF HeapOK, IsHeap
<1> HIDE DEF g
<1>3. h.types \in [D -> 0 .. Len(binary.type)] /\ h.ref \in [D -> Nat]
  BY DEF HeapOK, TypesOK
<1>4. g.types \in [D -> 0 .. Len(binary.type)] /\ g.ref \in [D -> Nat]
  BY <1>0, <1>2, <1>3
<1>5. g.types[i] = i /\ \A l \in D : l # i => g.types[l] = h.types[l]
  BY <1>2, <1>3
<1>6. g.ref[i] = 1 /\ \A l \in D : l # i => g.ref[l] = h.ref[l]
  BY <1>2, <1>3
<1>7. ASSUME NEW k \in D, g.types[k] # 0
      PROVE  g.ref[g.types[k]] = Cardinality({l \in D : g.types[l] = g.types[k]})
  <2>1. CASE k = i
    <3>1. {l \in D : g.types[l] = g.types[k]} = {i}
      BY <2>1, <1>5
    <3> QED
      BY <3>1, <2>1, <1>5, <1>6, FS_Singleton
  <2>2. CASE k # i
    <3>1. g.types[k] = h.types[k] /\ h.types[k] # i /\ h.types[k] # 0
      BY <2>2, <1>5, <1>7
    <3>2. h.types[k] \in D
      BY <3>1, <1>0, <1>3
    <3>3. {l \in D : g.types[l] = g.types[k]} = {l \in D : h.types[l] = h.types[k]}
      BY <3>1, <1>5
    <3>4. h.ref[h.types[k]] = Cardinality({l \in D : h.types[l] = h.types[k]})
      BY <3>1 DEF HeapOK, TypesOK
    <3> QED
      BY <3>1, <3>2, <3>3, <3>4, <1>6
  <2> QED
    BY <2>1, <2>2
<1>8. TypesOK(g.types, g.ref)
  BY <1>4, <1>7 DEF TypesOK
<1>9. TypeBlocks(g.types) = TypeBlocks(h.types) \cup {<<"type", i>>}
  <2>1. ASSUME NEW b \in TypeBlocks(g.types)
        PROVE  b \in TypeBlocks(h.types) \cup {<<"type", i>>}
    BY <1>3, <1>4, <1>5 DEF TypeBlocks
  <2>2. ASSUME NEW b \in TypeBlocks(h.types) PROVE b \in TypeBlocks(g.types)
    <3>1. PICK l \in D : h.types[l] # 0 /\ b = <<"type", h.types[l]>>
      BY <1>3 DEF TypeBlocks
    <3>2. l # i
      BY <3>1
    <3> QED
      BY <3>1, <3>2, <1>4, <1>5 DEF TypeBlocks
  <2>3. <<"type", i>> \in TypeBlocks(g.types)
    BY <1>0, <1>4, <1>5 DEF TypeBlocks
  <2> QED
    BY <2>1, <2>2, <2>3
<1>10. HeapOK(g)
  BY <1>2, <1>8, <1>9 DEF HeapOK
<1> QED
  BY <1>2, <1>10 DEF g

(* Type i becomes the equal type j: the block of i is freed, and j is       *)
(* referred to once more.                                                   *)
LEMMA TypeShared ==
    ASSUME binary \in Binary, NEW h, HeapOK(h),
           NEW i \in DOMAIN binary.type, NEW j, j \in DOMAIN binary.type, j # i,
           h.types[i] = i, h.types[j] = j,
           \A l \in DOMAIN binary.type : h.types[l] = i => l = i
    PROVE  /\ HeapOK(Done(h, [op |-> "share", i |-> i, j |-> j]))
           /\ Done(h, [op |-> "share", i |-> i, j |-> j]).types = [h.types EXCEPT ![i] = j]
<1> DEFINE step == [op |-> "share", i |-> i, j |-> j]
           g == Done(h, step)
           D == DOMAIN binary.type
<1>0. /\ i \in Nat /\ i # 0 /\ j \in Nat /\ j # 0 /\ j \in 0 .. Len(binary.type)
      /\ D = 1 .. Len(binary.type)
  BY TypeDomain
<1>1. g = SharedType(h, i, j)
  BY DEF Done
<1>2. h.types \in [D -> 0 .. Len(binary.type)] /\ h.ref \in [D -> Nat]
  BY DEF HeapOK, TypesOK
<1>3. h.ref[i] = 1
  <2>1. {l \in D : h.types[l] = h.types[i]} = {i}
    OBVIOUS
  <2> QED
    <3>1. h.ref[h.types[i]] = Cardinality({l \in D : h.types[l] = h.types[i]})
      BY <1>0 DEF HeapOK, TypesOK
    <3> QED
      BY <2>1, <3>1, FS_Singleton
<1>4. <<"type", i>> \in h.live
  BY <1>0, <1>2 DEF HeapOK, TypeBlocks
<1>5. destroy_wasm_type(h, i) = [h EXCEPT !.live = @ \ {<<"type", i>>}]
  BY <1>3, <1>4 DEF destroy_wasm_type, Freed
<1>6. /\ IsHeap(g) /\ g.bad = h.bad /\ g.ptr = h.ptr /\ g.live = h.live \ {<<"type", i>>}
      /\ g.types = [h.types EXCEPT ![i] = j] /\ g.ref = [h.ref EXCEPT ![j] = @ + 1]
  <2>1. PICK d : d = destroy_wasm_type(h, i)
    OBVIOUS
  <2>2. IsHeap(h)
    BY DEF HeapOK
  <2>3. d = [live |-> h.live \ {<<"type", i>>}, bad |-> h.bad, ptr |-> h.ptr,
             types |-> h.types, ref |-> h.ref]
    BY ONLY <1>5, <2>1, <2>2 DEF IsHeap
  <2>4. g = [d EXCEPT !.types[i] = j, !.ref[j] = @ + 1]
    BY <1>1, <2>1 DEF SharedType
  <2> HIDE DEF g
  <2>5. g = [live |-> d.live, bad |-> d.bad, ptr |-> d.ptr,
             types |-> [d.types EXCEPT ![i] = j], ref |-> [d.ref EXCEPT ![j] = @ + 1]]
    BY ONLY <2>3, <2>4
  <2> QED
    BY ONLY <2>3, <2>5 DEF IsHeap
<1> HIDE DEF g
<1>7. g.types \in [D -> 0 .. Len(binary.type)] /\ g.ref \in [D -> Nat]
  BY <1>0, <1>2, <1>6
<1>8. g.types[i] = j /\ \A l \in D : l # i => g.types[l] = h.types[l]
  BY <1>2, <1>6
<1>9. g.ref[j] = h.ref[j] + 1 /\ \A l \in D : l # j => g.ref[l] = h.ref[l]
  BY <1>2, <1>6
<1>10. {l \in D : g.types[l] = j} = {l \in D : h.types[l] = j} \cup {i}
  BY <1>8
<1>11. g.ref[j] = Cardinality({l \in D : g.types[l] = j})
  <2> DEFINE S == {l \in D : h.types[l] = j}
  <2>1. i \notin S
    OBVIOUS
  <2>2. IsFiniteSet(S)
    BY TypeDomain, FS_Subset
  <2>3. h.ref[j] = Cardinality(S)
    <3>1. \A l \in D : h.types[l] # 0 =>
              h.ref[h.types[l]] = Cardinality({m \in D : h.types[m] = h.types[l]})
      BY DEF HeapOK, TypesOK
    <3>2. j \in D /\ h.types[j] = j /\ j # 0
      BY <1>0
    <3> QED
      BY ONLY <3>1, <3>2
  <2> HIDE DEF S
  <2>4. Cardinality(S \cup {i}) = Cardinality(S) + 1
    BY <2>1, <2>2, FS_AddElement
  <2> QED
    BY <2>3, <2>4, <1>9, <1>10 DEF S
<1>12. ASSUME NEW k \in D, g.types[k] # 0
       PROVE  g.ref[g.types[k]] = Cardinality({l \in D : g.types[l] = g.types[k]})
  <2>1. CASE g.types[k] = j
    BY <2>1, <1>11
  <2>2. CASE g.types[k] # j
    <3>1. k # i /\ g.types[k] = h.types[k] /\ h.types[k] # i /\ h.types[k] # 0
      BY <2>2, <1>8, <1>12
    <3>2. h.types[k] \in D
      BY <3>1, <1>0, <1>2
    <3>3. {l \in D : g.types[l] = g.types[k]} = {l \in D : h.types[l] = h.types[k]}
      BY <3>1, <2>2, <1>8
    <3>4. h.ref[h.types[k]] = Cardinality({l \in D : h.types[l] = h.types[k]})
      BY <3>1 DEF HeapOK, TypesOK
    <3> QED
      BY <3>1, <3>2, <3>3, <3>4, <2>2, <1>9
  <2> QED
    BY <2>1, <2>2
<1>13. TypesOK(g.types, g.ref)
  BY <1>7, <1>12 DEF TypesOK
<1>14. TypeBlocks(g.types) = TypeBlocks(h.types) \ {<<"type", i>>}
  <2>1. ASSUME NEW b \in TypeBlocks(g.types)
        PROVE  b \in TypeBlocks(h.types) \ {<<"type", i>>}
    <3>1. PICK l \in D : g.types[l] # 0 /\ b = <<"type", g.types[l]>>
      BY <1>7 DEF TypeBlocks
    <3>2. g.types[l] # i
      BY <1>8
    <3>3. \E m \in D : h.types[m] = g.types[l]
      BY <1>8
    <3> QED
      BY <3>1, <3>2, <3>3, <1>2 DEF TypeBlocks
  <2>2. ASSUME NEW b \in TypeBlocks(h.types) \ {<<"type", i>>} PROVE b \in TypeBlocks(g.types)
    <3>1. PICK l \in D : h.types[l] # 0 /\ b = <<"type", h.types[l]>>
      BY <1>2 DEF TypeBlocks
    <3>2. l # i
      BY <3>1
    <3> QED
      BY <3>1, <3>2, <1>7, <1>8 DEF TypeBlocks
  <2> QED
    BY <2>1, <2>2
<1>15. <<"type", i>> \notin h.ptr
  BY PtrNoType DEF HeapOK
<1>16. HeapOK(g)
  BY <1>6, <1>13, <1>14, <1>15 DEF HeapOK
<1> QED
  BY <1>6, <1>16 DEF g

(* Steps after steps.                                                       *)
LEMMA AfterConcat ==
    ASSUME NEW h, NEW a, NEW b, IsSeq(a), IsSeq(b)
    PROVE  /\ \A n \in 0 .. Len(a) :
                 AfterSteps(h, SubSeq(a \o b, 1, n)) = AfterSteps(h, SubSeq(a, 1, n))
           /\ \A n \in 0 .. Len(b) :
                 AfterSteps(h, SubSeq(a \o b, 1, Len(a) + n)) =
                     AfterSteps(AfterSteps(h, a), SubSeq(b, 1, n))
<1> DEFINE c == a \o b
<1>1. /\ Len(a) \in Nat /\ Len(b) \in Nat /\ IsSeq(c) /\ Len(c) = Len(a) + Len(b)
      /\ \A k \in 1 .. Len(a) : c[k] = a[k]
      /\ \A k \in 1 .. Len(b) : c[Len(a) + k] = b[k]
  BY SeqDomain, SeqConcat, ConcatElements
<1> HIDE DEF c
<1>2. ASSUME NEW n \in 0 .. Len(a) PROVE SubSeq(c, 1, n) = SubSeq(a, 1, n)
  <2>1. n \in 0 .. Len(c) /\ \A k \in 1 .. n : k \in 1 .. Len(a)
    BY <1>1
  <2>2. IsSeq(SubSeq(c, 1, n)) /\ Len(SubSeq(c, 1, n)) = n
        /\ \A k \in 1 .. n : SubSeq(c, 1, n)[k] = c[k]
    BY <1>1, <2>1, Prefix
  <2>3. IsSeq(SubSeq(a, 1, n)) /\ Len(SubSeq(a, 1, n)) = n
        /\ \A k \in 1 .. n : SubSeq(a, 1, n)[k] = a[k]
    BY Prefix
  <2>4. \A k \in 1 .. n : SubSeq(c, 1, n)[k] = SubSeq(a, 1, n)[k]
    BY <1>1, <2>1, <2>2, <2>3
  <2> QED
    BY <2>2, <2>3, <2>4, SeqSame
<1> DEFINE before(n) == AfterSteps(h, SubSeq(c, 1, Len(a) + n))
           after(n) == AfterSteps(AfterSteps(h, a), SubSeq(b, 1, n))
           A == {n \in 0 .. Len(b) : before(n) = after(n)}
<1>3. 0 \in A
  <2>1. after(0) = AfterSteps(h, a)
    BY AfterNone
  <2>2. Len(a) \in 0 .. Len(a) /\ Len(a) + 0 = Len(a)
    BY <1>1
  <2>3. SubSeq(c, 1, Len(a)) = a
    BY <1>2, <2>2, Prefix
  <2>4. before(0) = AfterSteps(h, a)
    BY <2>2, <2>3
  <2> QED
    BY <1>1, <2>1, <2>4
<1>4. ASSUME NEW n \in 0 .. (Len(b) - 1), n \in A PROVE n + 1 \in A
  <2>1. /\ Len(a) + n \in 0 .. (Len(c) - 1) /\ n + 1 \in 1 .. Len(b)
        /\ (Len(a) + n) + 1 = Len(a) + (n + 1) /\ n + 1 \in 0 .. Len(b)
    BY <1>1
  <2>2. before(n + 1) = Done(before(n), c[Len(a) + (n + 1)])
    <3>1. ASSUME NEW m \in 0 .. (Len(c) - 1)
          PROVE  AfterSteps(h, SubSeq(c, 1, m + 1)) =
                     Done(AfterSteps(h, SubSeq(c, 1, m)), c[m + 1])
      <4>1. IsSeq(c)
        BY <1>1
      <4> QED
        BY <4>1, AfterPrefix
    <3>2. AfterSteps(h, SubSeq(c, 1, (Len(a) + n) + 1)) =
              Done(AfterSteps(h, SubSeq(c, 1, Len(a) + n)), c[(Len(a) + n) + 1])
      BY <2>1, <3>1
    <3> QED
      BY <2>1, <3>2
  <2>3. after(n + 1) = Done(after(n), b[n + 1])
    BY AfterPrefix
  <2>4. c[Len(a) + (n + 1)] = b[n + 1]
    BY <1>1, <2>1
  <2>5. before(n) = after(n)
    BY <1>4
  <2> HIDE DEF before, after
  <2> QED
    BY <2>1, <2>2, <2>3, <2>4, <2>5
<1>5. 0 .. Len(b) \subseteq A
  <2> HIDE DEF A
  <2> QED
    BY <1>1, <1>3, <1>4, UpTo
<1> QED
  BY <1>2, <1>5 DEF c

-----------------------------------------------------------------------------
(* The type section.                                                        *)

(* The type that type i shares its block with.                              *)
First(i) ==
    IF EqualTypes(i) = {} THEN i
    ELSE CHOOSE j \in EqualTypes(i) : \A l \in EqualTypes(i) : j =< l

(* The first type equal to type i.                                          *)
LEMMA FirstIs ==
    ASSUME binary \in Binary, NEW i \in DOMAIN binary.type
    PROVE  /\ First(i) \in DOMAIN binary.type /\ First(i) =< i
           /\ First(First(i)) = First(i)
           /\ EqualTypes(i) # {} => First(i) \in EqualTypes(i) /\ First(i) # i
<1>0. Len(binary.type) \in Nat /\ DOMAIN binary.type = 1 .. Len(binary.type) /\ i \in Nat
  BY TypeDomain
<1>1. \A j : j \in EqualTypes(i) <=> j \in 1 .. i - 1 /\ binary.type[j] = binary.type[i]
  BY DEF EqualTypes
<1>2. CASE EqualTypes(i) = {}
  BY <1>0, <1>2 DEF First
<1>3. CASE EqualTypes(i) # {}
  <2>1. EqualTypes(i) \subseteq Nat
    BY <1>1
  <2>2. PICK k \in EqualTypes(i) : \A l \in EqualTypes(i) : k =< l
    BY <1>3, <2>1, Least
  <2> DEFINE j == First(i)
  <2>3. j \in EqualTypes(i) /\ \A l \in EqualTypes(i) : j =< l
    BY <1>3, <2>2 DEF First
  <2> HIDE DEF j
  <2>4. j \in 1 .. i - 1 /\ binary.type[j] = binary.type[i]
    BY <1>1, <2>3
  <2>5. EqualTypes(j) = {}
    <3>1. ASSUME NEW l \in EqualTypes(j) PROVE FALSE
      <4>1. l \in 1 .. j - 1 /\ binary.type[l] = binary.type[j]
        BY <3>1 DEF EqualTypes
      <4>2. l \in EqualTypes(i)
        BY <1>0, <1>1, <2>4, <4>1
      <4> QED
        BY <2>3, <2>4, <4>1, <4>2
    <3> QED
      BY <3>1
  <2>6. First(j) = j
    BY <2>5 DEF First
  <2>7. j \in DOMAIN binary.type /\ j =< i /\ j # i
    BY <1>0, <2>4
  <2> QED
    BY <2>3, <2>6, <2>7 DEF j
<1> QED
  BY <1>2, <1>3

(* The first k types have been loaded.                                      *)
TypesUpTo(h, k) ==
    /\ HeapOK(h)
    /\ \A l \in DOMAIN binary.type : h.types[l] = IF l =< k THEN First(l) ELSE 0

TypeSteps(i) ==
    <<[op |-> "type", i |-> i], Check(Cardinality(EqualTypes(i)) # UINT16_MAX)>> \o
    (IF EqualTypes(i) = {} THEN << >>
     ELSE <<[op |-> "share", i |-> i,
             j |-> CHOOSE j \in EqualTypes(i) : \A l \in EqualTypes(i) : j =< l]>>)

(* The steps for one type, after those for the types before it.             *)
LEMMA OneType ==
    ASSUME binary \in Binary, NEW i \in DOMAIN binary.type, NEW h, TypesUpTo(h, i - 1)
    PROVE  /\ IsSeq(TypeSteps(i))
           /\ \A n \in 0 .. Len(TypeSteps(i)) : HeapOK(AfterSteps(h, SubSeq(TypeSteps(i), 1, n)))
           /\ TypesUpTo(AfterSteps(h, TypeSteps(i)), i)
<1> DEFINE D == DOMAIN binary.type
           j == First(i)
           s1 == [op |-> "type", i |-> i]
           s2 == Check(Cardinality(EqualTypes(i)) # UINT16_MAX)
           s3 == [op |-> "share", i |-> i, j |-> j]
           h1 == Done(h, s1)
           h3 == Done(h1, s3)
<1>0. Len(binary.type) \in Nat /\ D = 1 .. Len(binary.type) /\ i \in Nat /\ i # 0
  BY TypeDomain
<1>1. /\ HeapOK(h) /\ h.types[i] = 0
      /\ \A l \in D : h.types[l] = IF l =< i - 1 THEN First(l) ELSE 0
  BY <1>0 DEF TypesUpTo
<1>2. \A l \in D : First(l) \in D /\ First(l) =< l
  BY FirstIs
<1>3. \A l \in D : h.types[l] # i
  <2>1. ASSUME NEW l \in D PROVE h.types[l] # i
    <3>1. CASE l =< i - 1
      BY <1>0, <1>1, <1>2, <3>1
    <3>2. CASE ~(l =< i - 1)
      BY <1>0, <1>1, <3>2
    <3> QED
      BY <3>1, <3>2
  <2> QED
    BY <2>1
<1>4. HeapOK(h1) /\ h1.types = [h.types EXCEPT ![i] = i]
  BY <1>1, <1>3, TypeAdded
<1>5. h.types \in [D -> 0 .. Len(binary.type)]
  BY <1>1 DEF HeapOK, TypesOK
<1>6. \A l \in D : h1.types[l] = IF l = i THEN i ELSE h.types[l]
  BY <1>4, <1>5
<1>7. Done(h1, s2) = h1
  BY DEF Done, Check
<1> HIDE DEF h1
<1>8. CASE EqualTypes(i) = {}
  <2>1. TypeSteps(i) = <<s1, s2>> \o << >>
    BY <1>8 DEF TypeSteps
  <2> DEFINE s == <<s1, s2>>
  <2>2. IsSeq(s) /\ Len(s) = 2 /\ s[1] = s1 /\ s[2] = s2
    BY SeqPair
  <2>3. TypeSteps(i) = s
    BY <2>1, <2>2 DEF IsSeq
  <2> HIDE DEF s, s1, s2, h1
  <2>4. AfterSteps(h, SubSeq(s, 1, 0)) = h
    BY <2>2, AfterNone
  <2>5. AfterSteps(h, SubSeq(s, 1, 1)) = h1
    <3>1. 0 \in 0 .. (Len(s) - 1) /\ 0 + 1 = 1
      BY <2>2
    <3>2. AfterSteps(h, SubSeq(s, 1, 0 + 1)) = Done(AfterSteps(h, SubSeq(s, 1, 0)), s[0 + 1])
      BY <2>2, <3>1, AfterPrefix
    <3> QED
      BY <2>2, <2>4, <3>1, <3>2 DEF h1
  <2>6. AfterSteps(h, SubSeq(s, 1, 2)) = h1
    <3>1. 1 \in 0 .. (Len(s) - 1) /\ 1 + 1 = 2
      BY <2>2
    <3>2. AfterSteps(h, SubSeq(s, 1, 1 + 1)) = Done(AfterSteps(h, SubSeq(s, 1, 1)), s[1 + 1])
      BY <2>2, <3>1, AfterPrefix
    <3> QED
      BY <2>2, <2>5, <3>1, <3>2, <1>7
  <2>7. AfterSteps(h, s) = h1
    <3>1. SubSeq(s, 1, 2) = s
      BY <2>2, Prefix, 2 \in 0 .. Len(s)
    <3> QED
      BY <3>1, <2>6
  <2>8. \A n \in 0 .. Len(s) : n = 0 \/ n = 1 \/ n = 2
    BY <2>2
  <2>9. \A n \in 0 .. Len(s) : HeapOK(AfterSteps(h, SubSeq(s, 1, n)))
    BY <1>1, <1>4, <2>4, <2>5, <2>6, <2>8
  <2>10. First(i) = i
    BY <1>8 DEF First
  <2>11. \A l \in D : h1.types[l] = IF l =< i THEN First(l) ELSE 0
    BY <1>0, <1>1, <1>6, <2>10
  <2>12. TypesUpTo(h1, i)
    BY <1>4, <2>11 DEF TypesUpTo
  <2> QED
    BY <2>2, <2>3, <2>7, <2>9, <2>12
<1>9. CASE EqualTypes(i) # {}
  <2>1. TypeSteps(i) = <<s1, s2>> \o <<s3>>
    <3>1. j = CHOOSE m \in EqualTypes(i) : \A l \in EqualTypes(i) : m =< l
      BY <1>9 DEF First
    <3>2. TypeSteps(i) = <<s1, s2>> \o
              <<[op |-> "share", i |-> i,
                 j |-> CHOOSE m \in EqualTypes(i) : \A l \in EqualTypes(i) : m =< l]>>
      BY <1>9 DEF TypeSteps
    <3> HIDE DEF j
    <3> QED
      BY <3>1, <3>2
  <2> DEFINE s == <<s1, s2>> \o <<s3>>
  <2>2. IsSeq(s) /\ Len(s) = 3 /\ s[1] = s1 /\ s[2] = s2 /\ s[3] = s3
    <3>1. IsSeq(<<s1, s2>>) /\ IsSeq(<<s3>>) /\ Len(<<s1, s2>>) = 2 /\ Len(<<s3>>) = 1
      BY SeqPair, SeqSingle
    <3>2. /\ \A k \in 1 .. 2 : s[k] = <<s1, s2>>[k]
          /\ \A k \in 1 .. 1 : s[2 + k] = <<s3>>[k]
          /\ IsSeq(s) /\ Len(s) = 3
      BY <3>1, SeqConcat, ConcatElements
    <3> QED
      BY <3>2
  <2>3. j \in EqualTypes(i) /\ j # i /\ First(j) = j /\ j \in D /\ j =< i
    BY <1>9, FirstIs
  <2>4. h1.types[i] = i /\ h1.types[j] = j
    BY <1>0, <1>1, <1>6, <2>3
  <2>5. \A l \in D : h1.types[l] = i => l = i
    BY <1>3, <1>6
  <2>6. HeapOK(h3) /\ h3.types = [h1.types EXCEPT ![i] = j]
    <3>1. ASSUME NEW g, g = h1, NEW m, m = j
          PROVE  /\ HeapOK(Done(g, [op |-> "share", i |-> i, j |-> m]))
                 /\ Done(g, [op |-> "share", i |-> i, j |-> m]).types = [g.types EXCEPT ![i] = m]
      <4>1. HeapOK(g) /\ g.types[i] = i /\ g.types[m] = m /\ m # i /\ m \in D
        BY <1>4, <2>3, <2>4, <3>1
      <4>2. \A l \in D : g.types[l] = i => l = i
        BY <2>5, <3>1
      <4> HIDE DEF j
      <4> QED
        BY <4>1, <4>2, TypeShared
    <3> HIDE DEF j
    <3> QED
      BY <3>1
  <2> HIDE DEF s, s1, s2, s3, h1, h3
  <2>7. AfterSteps(h, SubSeq(s, 1, 0)) = h
    BY <2>2, AfterNone
  <2>8. AfterSteps(h, SubSeq(s, 1, 1)) = h1
    <3>1. 0 \in 0 .. (Len(s) - 1) /\ 0 + 1 = 1
      BY <2>2
    <3>2. AfterSteps(h, SubSeq(s, 1, 0 + 1)) = Done(AfterSteps(h, SubSeq(s, 1, 0)), s[0 + 1])
      BY <2>2, <3>1, AfterPrefix
    <3> QED
      BY <2>2, <2>7, <3>1, <3>2 DEF h1
  <2>9. AfterSteps(h, SubSeq(s, 1, 2)) = h1
    <3>1. 1 \in 0 .. (Len(s) - 1) /\ 1 + 1 = 2
      BY <2>2
    <3>2. AfterSteps(h, SubSeq(s, 1, 1 + 1)) = Done(AfterSteps(h, SubSeq(s, 1, 1)), s[1 + 1])
      BY <2>2, <3>1, AfterPrefix
    <3> QED
      BY <2>2, <2>8, <3>1, <3>2, <1>7
  <2>10. AfterSteps(h, SubSeq(s, 1, 3)) = h3
    <3>1. 2 \in 0 .. (Len(s) - 1) /\ 2 + 1 = 3
      BY <2>2
    <3>2. AfterSteps(h, SubSeq(s, 1, 2 + 1)) = Done(AfterSteps(h, SubSeq(s, 1, 2)), s[2 + 1])
      BY <2>2, <3>1, AfterPrefix
    <3> QED
      BY <2>2, <2>9, <3>1, <3>2 DEF h3
  <2>11. AfterSteps(h, s) = h3
    <3>1. SubSeq(s, 1, 3) = s
      BY <2>2, Prefix, 3 \in 0 .. Len(s)
    <3> QED
      BY <3>1, <2>10
  <2>12. \A n \in 0 .. Len(s) : n = 0 \/ n = 1 \/ n = 2 \/ n = 3
    BY <2>2
  <2>13. \A n \in 0 .. Len(s) : HeapOK(AfterSteps(h, SubSeq(s, 1, n)))
    BY <1>1, <1>4, <2>6, <2>7, <2>8, <2>9, <2>10, <2>12
  <2>14. h1.types \in [D -> 0 .. Len(binary.type)]
    BY <1>4 DEF HeapOK, TypesOK
  <2>15. \A l \in D : h3.types[l] = IF l = i THEN j ELSE h1.types[l]
    BY <2>6, <2>14
  <2>16. \A l \in D : h3.types[l] = IF l =< i THEN First(l) ELSE 0
    BY <1>0, <1>1, <1>6, <2>15
  <2>17. TypesUpTo(h3, i)
    BY <2>6, <2>16 DEF TypesUpTo
  <2> QED
    BY <2>1, <2>2, <2>11, <2>13, <2>17 DEF s
<1> QED
  BY <1>8, <1>9

TypesLoad ==
    [i \in DOMAIN binary.type |-> TypeSteps(i)]

(* The types are loaded one after the other.                                *)
LEMMA TypesLoaded ==
    ASSUME binary \in Binary, NEW h, TypesUpTo(h, 0)
    PROVE  /\ IsSeq(FlattenSeq(TypesLoad))
           /\ \A m \in 0 .. Len(FlattenSeq(TypesLoad)) :
                 HeapOK(AfterSteps(h, SubSeq(FlattenSeq(TypesLoad), 1, m)))
<1> DEFINE N == Len(binary.type)
<1>1. N \in Nat /\ DOMAIN binary.type = 1 .. N
  BY TypeDomain
<1>2. TypesLoad = [i \in 1 .. N |-> TypesLoad[i]] /\ \A i \in 1 .. N : TypesLoad[i] = TypeSteps(i)
  BY <1>1 DEF TypesLoad
<1>3. \A i \in 1 .. N : IsSeq(TypeSteps(i))
  <2>1. ASSUME NEW i \in 1 .. N PROVE IsSeq(TypeSteps(i))
    <3> DEFINE a == <<[op |-> "type", i |-> i], Check(Cardinality(EqualTypes(i)) # UINT16_MAX)>>
               b == IF EqualTypes(i) = {} THEN << >>
                    ELSE <<[op |-> "share", i |-> i,
                            j |-> CHOOSE j \in EqualTypes(i) : \A l \in EqualTypes(i) : j =< l]>>
    <3>1. TypeSteps(i) = a \o b
      BY DEF TypeSteps
    <3>2. IsSeq(a) /\ IsSeq(b)
      BY SeqPair, SeqSingle, SeqEmpty
    <3> HIDE DEF a, b
    <3> QED
      BY <3>1, <3>2, SeqConcat
  <2> QED
    BY <2>1
<1> HIDE DEF N
<1>4. PICK f : /\ f = [n \in 0 .. N |-> IF n = 0 THEN << >> ELSE f[n - 1] \o TypesLoad[n]]
               /\ \A n \in 0 .. N : IsSeq(f[n])
               /\ FlattenSeq(TypesLoad) = f[N]
  <2>1. \A i \in 1 .. N : IsSeq(TypesLoad[i])
    BY <1>2, <1>3
  <2> QED
    <3>1. N \in Nat /\ TypesLoad = [i \in 1 .. N |-> TypesLoad[i]]
      BY <1>1, <1>2
    <3> QED
      BY ONLY <2>1, <3>1, Flatten
<1>5. /\ f[0] = << >>
      /\ \A n \in 0 .. (N - 1) : n + 1 \in 1 .. N /\ f[n + 1] = f[n] \o TypeSteps(n + 1)
  <2>0. f = [n \in 0 .. N |-> IF n = 0 THEN << >> ELSE f[n - 1] \o TypesLoad[n]]
    BY <1>4
  <2>1. f[0] = << >> /\ \A n \in 1 .. N : f[n] = f[n - 1] \o TypesLoad[n]
    BY <1>1, <2>0
  <2>2. \A n \in 0 .. (N - 1) : n + 1 \in 1 .. N /\ (n + 1) - 1 = n
    BY <1>1
  <2> QED
    BY <2>1, <2>2, <1>2
<1> DEFINE Ok(s) == \A m \in 0 .. Len(s) : HeapOK(AfterSteps(h, SubSeq(s, 1, m)))
           A == {n \in 0 .. N : Ok(f[n]) /\ TypesUpTo(AfterSteps(h, f[n]), n)}
<1>6. 0 \in A
  <2>1. IsSeq(f[0]) /\ Len(f[0]) = 0
    BY <1>5, SeqEmpty
  <2>2. AfterSteps(h, SubSeq(f[0], 1, 0)) = h
    BY <2>1, AfterNone
  <2>3. SubSeq(f[0], 1, 0) = f[0]
    BY <2>1, Prefix, 0 \in 0 .. 0
  <2>4. \A m \in 0 .. Len(f[0]) : m = 0
    BY <2>1
  <2>5. HeapOK(h)
    BY DEF TypesUpTo
  <2>6. 0 \in 0 .. N
    BY <1>1
  <2> QED
    BY <2>2, <2>3, <2>4, <2>5, <2>6
<1>7. ASSUME NEW n \in 0 .. (N - 1), n \in A PROVE n + 1 \in A
  <2> DEFINE a == f[n]
             b == TypeSteps(n + 1)
             g == AfterSteps(h, a)
  <2>1. /\ f[n + 1] = a \o b /\ n + 1 \in DOMAIN binary.type /\ IsSeq(a) /\ IsSeq(b)
        /\ (n + 1) - 1 = n /\ n + 1 \in 0 .. N
    <3>1. n + 1 \in DOMAIN binary.type /\ n \in 0 .. N /\ (n + 1) - 1 = n /\ n + 1 \in 0 .. N
      BY <1>1
    <3>2. f[n + 1] = f[n] \o TypeSteps(n + 1) /\ n + 1 \in 1 .. N
      BY <1>5
    <3>3. IsSeq(f[n])
      BY <3>1, <1>4
    <3>4. IsSeq(TypeSteps(n + 1))
      BY <3>2, <1>3
    <3> QED
      BY <3>1, <3>2, <3>3, <3>4
  <2>2. Ok(a) /\ TypesUpTo(g, n)
    BY <1>7
  <2>3. /\ \A m \in 0 .. Len(b) : HeapOK(AfterSteps(g, SubSeq(b, 1, m)))
        /\ TypesUpTo(AfterSteps(g, b), n + 1)
    <3>1. ASSUME NEW i \in DOMAIN binary.type, i = n + 1
          PROVE  /\ \A m \in 0 .. Len(TypeSteps(i)) :
                       HeapOK(AfterSteps(g, SubSeq(TypeSteps(i), 1, m)))
                 /\ TypesUpTo(AfterSteps(g, TypeSteps(i)), i)
      <4>1. TypesUpTo(g, i - 1)
        BY <2>1, <2>2, <3>1
      <4> HIDE DEF g
      <4> QED
        BY <4>1, OneType
    <3> HIDE DEF g
    <3> QED
      BY <2>1, <3>1
  <2> HIDE DEF a, b
  <2>4. /\ Len(a) \in Nat /\ Len(b) \in Nat /\ IsSeq(a \o b) /\ Len(a \o b) = Len(a) + Len(b)
    BY <2>1, SeqDomain, SeqConcat
  <2>5. /\ \A m \in 0 .. Len(a) :
              AfterSteps(h, SubSeq(a \o b, 1, m)) = AfterSteps(h, SubSeq(a, 1, m))
        /\ \A m \in 0 .. Len(b) :
              AfterSteps(h, SubSeq(a \o b, 1, Len(a) + m)) = AfterSteps(g, SubSeq(b, 1, m))
    BY <2>1, AfterConcat
  <2> HIDE DEF g
  <2>6. ASSUME NEW m \in 0 .. Len(a \o b) PROVE HeapOK(AfterSteps(h, SubSeq(a \o b, 1, m)))
    <3>1. CASE m \in 0 .. Len(a)
      BY <2>2, <2>5, <3>1
    <3>2. CASE m \notin 0 .. Len(a)
      <4> DEFINE l == m - Len(a)
      <4>1. l \in 0 .. Len(b) /\ Len(a) + l = m
        BY <2>4, <3>2
      <4> HIDE DEF l
      <4>2. AfterSteps(h, SubSeq(a \o b, 1, Len(a) + l)) = AfterSteps(g, SubSeq(b, 1, l))
        BY <2>5, <4>1
      <4>3. HeapOK(AfterSteps(g, SubSeq(b, 1, l)))
        BY <2>3, <4>1
      <4> QED
        BY <4>1, <4>2, <4>3
    <3> QED
      BY <3>1, <3>2
  <2>7. AfterSteps(h, a \o b) = AfterSteps(g, b)
    <3>1. SubSeq(b, 1, Len(b)) = b /\ SubSeq(a \o b, 1, Len(a \o b)) = a \o b
      <4>1. Len(b) \in 0 .. Len(b) /\ Len(a \o b) \in 0 .. Len(a \o b)
        BY <2>4
      <4> QED
        BY <2>1, <2>4, <4>1, Prefix
    <3>2. Len(b) \in 0 .. Len(b)
      BY <2>4
    <3>3. AfterSteps(h, SubSeq(a \o b, 1, Len(a) + Len(b))) = AfterSteps(g, SubSeq(b, 1, Len(b)))
      BY <2>5, <3>2
    <3> QED
      BY <2>4, <3>1, <3>3
  <2> QED
    BY <2>1, <2>3, <2>6, <2>7
<1>8. N \in A
  <2>1. 0 .. N \subseteq A
    <3> HIDE DEF A
    <3> QED
      BY <1>1, <1>6, <1>7, UpTo
  <2> QED
    BY <1>1, <2>1
<1> QED
  BY <1>1, <1>4, <1>8

(* However far a section is loaded, the module knows each of its blocks.    *)
LEMMA TypeSection ==
    ASSUME binary \in Binary, NEW h, HeapOK(h),
           \A l \in DOMAIN binary.type : h.types[l] = 0
    PROVE  /\ IsSeq(load_type_section)
           /\ \A m \in 0 .. Len(load_type_section) :
                 HeapOK(AfterSteps(h, SubSeq(load_type_section, 1, m)))
<1> DEFINE a == AllocIf(binary.type # << >>, <<"types">>)
           b == FlattenSeq(TypesLoad)
           g == AfterSteps(h, a)
<1>1. load_type_section = a \o b
  BY DEF load_type_section, ForEach, TypesLoad, TypeSteps
<1>2. IsPlain(a)
  BY NamedPtr, PlainAllocIf DEF ModuleNames
<1> HIDE DEF a
<1>3. IsSeq(a) /\ Len(a) \in Nat
  BY <1>2, SeqDomain DEF IsPlain
<1>4. \A m \in 0 .. Len(a) : Grown(h, AfterSteps(h, SubSeq(a, 1, m)))
  BY <1>2, PlainAfter DEF HeapOK
<1>5. \A m \in 0 .. Len(a) : HeapOK(AfterSteps(h, SubSeq(a, 1, m)))
  BY <1>4, GrownOK
<1>6. TypesUpTo(g, 0)
  <2>1. Len(a) \in 0 .. Len(a) /\ SubSeq(a, 1, Len(a)) = a
    BY <1>3, Prefix
  <2>2. Grown(h, g) /\ HeapOK(g)
    BY <1>4, <1>5, <2>1
  <2>3. \A l \in DOMAIN binary.type : ~(l =< 0)
    BY TypeDomain
  <2> QED
    BY <2>2, <2>3 DEF TypesUpTo, Grown
<1> HIDE DEF g, b
<1>7. IsSeq(b) /\ \A m \in 0 .. Len(b) : HeapOK(AfterSteps(g, SubSeq(b, 1, m)))
  BY <1>6, TypesLoaded DEF b
<1>8. Len(b) \in Nat /\ IsSeq(a \o b) /\ Len(a \o b) = Len(a) + Len(b)
  BY <1>3, <1>7, SeqDomain, SeqConcat
<1>9. /\ \A m \in 0 .. Len(a) :
            AfterSteps(h, SubSeq(a \o b, 1, m)) = AfterSteps(h, SubSeq(a, 1, m))
      /\ \A m \in 0 .. Len(b) :
            AfterSteps(h, SubSeq(a \o b, 1, Len(a) + m)) = AfterSteps(g, SubSeq(b, 1, m))
  BY <1>3, <1>7, AfterConcat DEF g
<1>10. ASSUME NEW m \in 0 .. Len(a \o b) PROVE HeapOK(AfterSteps(h, SubSeq(a \o b, 1, m)))
  <2>1. CASE m \in 0 .. Len(a)
    BY <1>5, <1>9, <2>1
  <2>2. CASE m \notin 0 .. Len(a)
    <3> DEFINE l == m - Len(a)
    <3>1. l \in 0 .. Len(b) /\ Len(a) + l = m
      BY <1>3, <1>8, <2>2
    <3> HIDE DEF l
    <3>2. AfterSteps(h, SubSeq(a \o b, 1, Len(a) + l)) = AfterSteps(g, SubSeq(b, 1, l))
      BY <1>9, <3>1
    <3>3. HeapOK(AfterSteps(g, SubSeq(b, 1, l)))
      BY <1>7, <3>1
    <3> QED
      BY <3>1, <3>2, <3>3
  <2> QED
    BY <2>1, <2>2
<1> QED
  BY <1>1, <1>8, <1>10

(* Plain steps keep the heap well formed and its types as they are.         *)
LEMMA PlainHeap ==
    ASSUME NEW h, HeapOK(h), NEW steps, IsPlain(steps), NEW m \in 0 .. Len(steps)
    PROVE  /\ HeapOK(AfterSteps(h, SubSeq(steps, 1, m)))
           /\ AfterSteps(h, SubSeq(steps, 1, m)).types = h.types
<1>1. Grown(h, AfterSteps(h, SubSeq(steps, 1, m)))
  BY PlainAfter DEF HeapOK
<1> QED
  BY <1>1, GrownOK DEF Grown

(* Every section but that of the types is loaded with plain steps.          *)
LEMMA SectionPlain ==
    ASSUME binary \in Binary, NEW s, s # "type"
    PROVE  IsPlain(LoadSteps(s))
BY ImportPlain, FunctionPlain, TablePlain, MemoryPlain, GlobalPlain, ExportPlain, StartPlain,
   ElemPlain, CodePlain, DataPlain, PlainEmpty DEF LoadSteps

(* However far a section is loaded, the module knows each of its blocks.    *)
LEMMA SectionLoads ==
    ASSUME binary \in Binary, NEW h, HeapOK(h), NEW s,
           s = "type" => \A l \in DOMAIN binary.type : h.types[l] = 0
    PROVE  /\ IsSeq(LoadSteps(s))
           /\ \A m \in 0 .. Len(LoadSteps(s)) :
                 /\ HeapOK(AfterSteps(h, SubSeq(LoadSteps(s), 1, m)))
                 /\ s # "type" => AfterSteps(h, SubSeq(LoadSteps(s), 1, m)).types = h.types
<1>1. CASE s = "type"
  <2>1. LoadSteps(s) = load_type_section
    BY <1>1 DEF LoadSteps
  <2> QED
    BY <1>1, <2>1, TypeSection
<1>2. CASE s # "type"
  <2>1. IsPlain(LoadSteps(s))
    BY <1>2, SectionPlain
  <2> QED
    BY <1>2, <2>1, PlainHeap DEF IsPlain
<1> QED
  BY <1>1, <1>2

-----------------------------------------------------------------------------
(* Unloading.                                                               *)

(* The types that remain to be freed when n have been.                      *)
LeftTypes(types, n) == {l \in DOMAIN binary.type : l > n /\ types[l] # 0}

FreedUpTo(h, g, n) ==
    /\ IsHeap(g) /\ g.bad = {} /\ g.ptr = h.ptr /\ g.types = h.types
    /\ g.ref \in [DOMAIN binary.type -> Nat]
    /\ \A l \in LeftTypes(h.types, n) :
          g.ref[h.types[l]] = Cardinality({k \in LeftTypes(h.types, n) : h.types[k] = h.types[l]})
    /\ g.live = (h.live \ TypeBlocks(h.types)) \cup
                {<<"type", h.types[l]>> : l \in LeftTypes(h.types, n)}

(* The types are destroyed one after the other.                             *)
LEMMA FreeTypesUnfold ==
    ASSUME binary \in Binary, NEW h
    PROVE  \E a : /\ a[0] = h
                  /\ \A n \in 0 .. (Len(binary.type) - 1) :
                        a[n + 1] = IF h.types[n + 1] = 0 THEN a[n]
                                   ELSE destroy_wasm_type(a[n], n + 1)
                  /\ FreeTypes(h) = FreedIfSet(a[Len(binary.type)], {<<"types">>})
<1> DEFINE N == Len(binary.type)
           G(u, k) == u = [n \in 0 .. k |-> IF n = 0 THEN h
                                            ELSE IF h.types[n] = 0 THEN u[n - 1]
                                            ELSE destroy_wasm_type(u[n - 1], n)]
           A == {k \in 0 .. N : \E u : G(u, k)}
<1>0. N \in Nat
  BY TypeDomain
<1> HIDE DEF N
<1>1. 0 \in A
  <2>1. G([n \in 0 .. 0 |-> h], 0)
    OBVIOUS
  <2>2. 0 \in 0 .. N
    BY <1>0
  <2> QED
    BY <2>1, <2>2
<1>2. ASSUME NEW k \in 0 .. (N - 1), k \in A PROVE k + 1 \in A
  <2>1. PICK u : G(u, k)
    BY <1>2
  <2> DEFINE x == IF h.types[k + 1] = 0 THEN u[k] ELSE destroy_wasm_type(u[k], k + 1)
             v == [n \in 0 .. (k + 1) |-> IF n = k + 1 THEN x ELSE u[n]]
  <2>2. v = [n \in 0 .. (k + 1) |-> v[n]] /\ v[0] = h
    BY <2>1
  <2>3. \A n \in 1 .. k : u[n] = IF h.types[n] = 0 THEN u[n - 1] ELSE destroy_wasm_type(u[n - 1], n)
    BY <2>1
  <2>4. \A n \in 0 .. k : v[n] = u[n]
    OBVIOUS
  <2>5. v[k + 1] = x
    OBVIOUS
  <2> HIDE DEF v, G, A
  <2>6. ASSUME NEW n \in 1 .. (k + 1)
        PROVE  v[n] = IF h.types[n] = 0 THEN v[n - 1] ELSE destroy_wasm_type(v[n - 1], n)
    <3>1. CASE n = k + 1
      <4>1. n - 1 = k /\ k \in 0 .. k
        BY <3>1
      <4> QED
        BY <3>1, <4>1, <2>4, <2>5
    <3>2. CASE n \in 1 .. k
      <4>1. n - 1 \in 0 .. k /\ n \in 0 .. k
        BY <3>2
      <4> QED
        BY <4>1, <3>2, <2>3, <2>4
    <3>3. n = k + 1 \/ n \in 1 .. k
      OBVIOUS
    <3> HIDE DEF x
    <3> QED
      BY <3>1, <3>2, <3>3, Zenon
  <2>7. G(v, k + 1)
    <3>1. \A n \in 0 .. (k + 1) : v[n] = IF n = 0 THEN h
                                         ELSE IF h.types[n] = 0 THEN v[n - 1]
                                         ELSE destroy_wasm_type(v[n - 1], n)
      <4>1. \A n \in 0 .. (k + 1) : n = 0 \/ n \in 1 .. (k + 1)
        BY <1>0
      <4> QED
        BY <4>1, <2>2, <2>6
    <3> QED
      BY <3>1, <2>2 DEF G
  <2>8. k + 1 \in 0 .. N
    BY <1>0
  <2> QED
    BY <2>7, <2>8 DEF A
<1>3. PICK f : G(f, N)
  <2> HIDE DEF A
  <2>1. 0 .. N \subseteq A
    BY <1>0, <1>1, <1>2, UpTo
  <2>2. N \in A
    BY <1>0, <2>1
  <2> QED
    BY <2>2 DEF A
<1> DEFINE H(u) == [n \in 0 .. N |-> IF n = 0 THEN h
                                     ELSE IF h.types[n] = 0 THEN u[n - 1]
                                     ELSE destroy_wasm_type(u[n - 1], n)]
           w == CHOOSE u : u = H(u)
<1>4. f = H(f)
  BY <1>3
<1>5. w = H(w)
  <2> HIDE DEF H, G
  <2> QED
    BY <1>4
<1>6. FreeTypes(h) = FreedIfSet(w[N], {<<"types">>})
  BY DEF FreeTypes, N
<1> HIDE DEF w
<1>7. /\ w[0] = h
      /\ \A n \in 0 .. (N - 1) : w[n + 1] = IF h.types[n + 1] = 0 THEN w[n]
                                            ELSE destroy_wasm_type(w[n], n + 1)
  <2>1. /\ w[0] = h
        /\ \A n \in 1 .. N : w[n] = IF h.types[n] = 0 THEN w[n - 1]
                                    ELSE destroy_wasm_type(w[n - 1], n)
    BY <1>0, <1>5
  <2>2. \A n \in 0 .. (N - 1) : n + 1 \in 1 .. N /\ (n + 1) - 1 = n
    BY <1>0
  <2> HIDE DEF H, G
  <2> QED
    BY <2>1, <2>2
<1> QED
  BY <1>6, <1>7 DEF N

(* One type more: its block is freed with the last reference.               *)
LEMMA OneTypeFreed ==
    ASSUME binary \in Binary, NEW h, TypesOK(h.types, h.ref),
           NEW n \in 0 .. (Len(binary.type) - 1), NEW g, FreedUpTo(h, g, n),
           h.types[n + 1] # 0
    PROVE  FreedUpTo(h, destroy_wasm_type(g, n + 1), n + 1)
<1> DEFINE i == n + 1
           D == DOMAIN binary.type
           t == h.types[i]
           S(m, u) == {k \in LeftTypes(h.types, m) : h.types[k] = u}
           e == destroy_wasm_type(g, i)
<1>0. i \in D /\ i \in Nat /\ Len(binary.type) \in Nat /\ D = 1 .. Len(binary.type) /\ n \in Nat
  BY TypeDomain
<1>1. h.types \in [D -> 0 .. Len(binary.type)]
  BY DEF TypesOK
<1>2. t \in D /\ t # 0
  BY <1>0, <1>1
<1>3. /\ IsHeap(g) /\ g.bad = {} /\ g.ptr = h.ptr /\ g.types = h.types
      /\ g.ref \in [D -> Nat]
      /\ \A l \in LeftTypes(h.types, n) : g.ref[h.types[l]] = Cardinality(S(n, h.types[l]))
      /\ g.live = (h.live \ TypeBlocks(h.types)) \cup
                    {<<"type", h.types[l]>> : l \in LeftTypes(h.types, n)}
  BY DEF FreedUpTo
<1>4. LeftTypes(h.types, n) = LeftTypes(h.types, i) \cup {i} /\ i \notin LeftTypes(h.types, i)
  BY <1>0 DEF LeftTypes
<1>5. \A m, u : IsFiniteSet(S(m, u))
  <2>1. \A m, u : S(m, u) \subseteq D
    BY DEF LeftTypes
  <2> HIDE DEF S
  <2> QED
    BY <2>1, TypeDomain, FS_Subset
<1>6. /\ S(n, t) = S(i, t) \cup {i} /\ i \notin S(i, t)
      /\ \A u : u # t => S(n, u) = S(i, u)
  BY <1>4
<1>7. Cardinality(S(i, t)) \in Nat /\ Cardinality(S(n, t)) = Cardinality(S(i, t)) + 1
  <2> HIDE DEF S, t, i
  <2> QED
    BY <1>5, <1>6, FS_AddElement, FS_CardinalityType
<1>8. g.ref[t] = Cardinality(S(i, t)) + 1
  BY <1>3, <1>4, <1>7
<1>9. \A l \in LeftTypes(h.types, i) : h.types[l] \in D /\ l \in LeftTypes(h.types, n)
  BY <1>0, <1>1, <1>4 DEF LeftTypes
<1>10. CASE g.ref[t] > 1
  <2>1. e = [g EXCEPT !.ref[t] = @ - 1]
    BY <1>3, <1>10 DEF destroy_wasm_type
  <2>2. /\ IsHeap(e) /\ e.bad = {} /\ e.ptr = h.ptr /\ e.types = h.types /\ e.live = g.live
        /\ e.ref = [g.ref EXCEPT ![t] = @ - 1]
    BY <1>3, <2>1 DEF IsHeap
  <2> HIDE DEF e
  <2>3. e.ref[t] = Cardinality(S(i, t)) /\ \A l \in D : l # t => e.ref[l] = g.ref[l]
    BY <1>2, <1>3, <1>7, <1>8, <2>2
  <2>4. e.ref \in [D -> Nat]
    BY <1>2, <1>3, <1>7, <2>2, <2>3
  <2>5. ASSUME NEW l \in LeftTypes(h.types, i)
        PROVE  e.ref[h.types[l]] = Cardinality(S(i, h.types[l]))
    <3>1. CASE h.types[l] = t
      BY <2>3, <3>1
    <3>2. CASE h.types[l] # t
      <4>1. e.ref[h.types[l]] = g.ref[h.types[l]]
        BY <1>9, <2>3, <3>2
      <4>2. S(n, h.types[l]) = S(i, h.types[l])
        BY <1>6, <3>2
      <4> HIDE DEF S, t
      <4> QED
        BY <1>3, <1>9, <4>1, <4>2
    <3> QED
      BY <3>1, <3>2
  <2>6. {<<"type", h.types[l]>> : l \in LeftTypes(h.types, n)}
            = {<<"type", h.types[l]>> : l \in LeftTypes(h.types, i)}
    <3>1. S(i, t) # {}
      <4>1. Cardinality(S(i, t)) # 0
        BY <1>7, <1>8, <1>10
      <4> HIDE DEF S, t, i
      <4> QED
        BY <4>1, FS_EmptySet
    <3>2. PICK k \in LeftTypes(h.types, i) : h.types[k] = t
      BY <3>1
    <3> QED
      BY <1>4, <3>2
  <2> QED
    BY <1>3, <2>2, <2>4, <2>5, <2>6 DEF FreedUpTo, e
<1>11. CASE ~(g.ref[t] > 1)
  <2>1. S(i, t) = {}
    <3>1. Cardinality(S(i, t)) = 0
      BY <1>7, <1>8, <1>11
    <3> HIDE DEF S, t, i
    <3> QED
      BY <3>1, <1>5, FS_EmptySet
  <2>2. <<"type", t>> \in g.live
    BY <1>3, <1>4
  <2>3. e = [g EXCEPT !.live = @ \ {<<"type", t>>}]
    BY <1>3, <1>11, <2>2 DEF destroy_wasm_type, Freed
  <2>4. /\ IsHeap(e) /\ e.bad = {} /\ e.ptr = h.ptr /\ e.types = h.types /\ e.ref = g.ref
        /\ e.live = g.live \ {<<"type", t>>}
    BY <1>3, <2>3 DEF IsHeap
  <2> HIDE DEF e
  <2>5. \A l \in LeftTypes(h.types, i) : h.types[l] # t
    BY <2>1
  <2>6. ASSUME NEW l \in LeftTypes(h.types, i)
        PROVE  e.ref[h.types[l]] = Cardinality(S(i, h.types[l]))
    <3>1. S(n, h.types[l]) = S(i, h.types[l])
      BY <1>6, <2>5
    <3> HIDE DEF S, t
    <3> QED
      BY <1>3, <1>9, <2>4, <3>1
  <2>7. e.live = (h.live \ TypeBlocks(h.types)) \cup
                    {<<"type", h.types[l]>> : l \in LeftTypes(h.types, i)}
    <3>1. <<"type", t>> \in TypeBlocks(h.types)
      BY <1>0, <1>1, <1>2 DEF TypeBlocks
    <3>2. {<<"type", h.types[l]>> : l \in LeftTypes(h.types, n)} \ {<<"type", t>>}
            = {<<"type", h.types[l]>> : l \in LeftTypes(h.types, i)}
      BY <1>4, <2>5
    <3> HIDE DEF t, i
    <3> QED
      BY <1>3, <2>4, <3>1, <3>2
  <2> QED
    BY <1>3, <2>4, <2>6, <2>7 DEF FreedUpTo, e
<1> QED
  BY <1>10, <1>11

(* Destroying the types frees each block of a type once.                    *)
LEMMA TypesFreed ==
    ASSUME binary \in Binary, NEW h, IsHeap(h), h.bad = {}, TypesOK(h.types, h.ref),
           TypeBlocks(h.types) \subseteq h.live
    PROVE  \E g : /\ IsHeap(g) /\ g.bad = {} /\ g.ptr = h.ptr
                  /\ g.live = h.live \ TypeBlocks(h.types)
                  /\ FreeTypes(h) = FreedIfSet(g, {<<"types">>})
<1> DEFINE N == Len(binary.type)
           D == DOMAIN binary.type
<1>0. N \in Nat /\ D = 1 .. N
  BY TypeDomain
<1>1. PICK a : /\ a[0] = h
               /\ \A n \in 0 .. (N - 1) :
                     a[n + 1] = IF h.types[n + 1] = 0 THEN a[n] ELSE destroy_wasm_type(a[n], n + 1)
               /\ FreeTypes(h) = FreedIfSet(a[N], {<<"types">>})
  BY FreeTypesUnfold
<1>2. h.types \in [D -> 0 .. N] /\ h.ref \in [D -> Nat]
  BY DEF TypesOK
<1> DEFINE A == {n \in 0 .. N : FreedUpTo(h, a[n], n)}
<1>3. 0 \in A
  <2>1. LeftTypes(h.types, 0) = {l \in D : h.types[l] # 0}
    BY <1>0 DEF LeftTypes
  <2>2. {<<"type", h.types[l]>> : l \in LeftTypes(h.types, 0)} = TypeBlocks(h.types)
    BY <1>2, <2>1 DEF TypeBlocks
  <2>3. \A l \in LeftTypes(h.types, 0) :
          h.ref[h.types[l]] = Cardinality({k \in LeftTypes(h.types, 0) : h.types[k] = h.types[l]})
    <3>1. ASSUME NEW l \in LeftTypes(h.types, 0)
          PROVE  h.ref[h.types[l]] =
                     Cardinality({k \in LeftTypes(h.types, 0) : h.types[k] = h.types[l]})
      <4>1. {k \in LeftTypes(h.types, 0) : h.types[k] = h.types[l]} =
                {k \in D : h.types[k] = h.types[l]}
        BY <2>1
      <4>2. l \in D /\ h.types[l] # 0
        BY <2>1
      <4>3. h.ref[h.types[l]] = Cardinality({k \in D : h.types[k] = h.types[l]})
        BY <4>2 DEF TypesOK
      <4> QED
        BY <4>1, <4>3
    <3> QED
      BY <3>1
  <2>4. FreedUpTo(h, h, 0)
    BY <1>2, <2>2, <2>3 DEF FreedUpTo
  <2> QED
    BY <1>0, <1>1, <2>4
<1>4. ASSUME NEW n \in 0 .. (N - 1), n \in A PROVE n + 1 \in A
  <2>0. n + 1 \in 0 .. N /\ n + 1 \in D /\ FreedUpTo(h, a[n], n)
    BY <1>0, <1>4
  <2>1. CASE h.types[n + 1] = 0
    <3>1. a[n + 1] = a[n]
      BY <1>1, <2>1
    <3>2. LeftTypes(h.types, n) = LeftTypes(h.types, n + 1)
      BY <1>0, <2>1 DEF LeftTypes
    <3>3. FreedUpTo(h, a[n], n + 1)
      BY <2>0, <3>2 DEF FreedUpTo
    <3> QED
      BY <2>0, <3>1, <3>3
  <2>2. CASE h.types[n + 1] # 0
    <3>1. a[n + 1] = destroy_wasm_type(a[n], n + 1)
      BY <1>1, <2>2
    <3>2. ASSUME NEW g, g = a[n] PROVE FreedUpTo(h, destroy_wasm_type(g, n + 1), n + 1)
      <4>1. FreedUpTo(h, g, n)
        BY <2>0, <3>2
      <4> QED
        BY <4>1, <2>2, OneTypeFreed
    <3> QED
      BY <2>0, <3>1, <3>2
  <2> QED
    BY <2>1, <2>2
<1>5. FreedUpTo(h, a[N], N)
  <2>1. 0 .. N \subseteq A
    <3> HIDE DEF A
    <3> QED
      BY <1>0, <1>3, <1>4, UpTo
  <2> QED
    BY <1>0, <2>1
<1>6. LeftTypes(h.types, N) = {}
  BY <1>0 DEF LeftTypes
<1> QED
  BY <1>1, <1>5, <1>6 DEF FreedUpTo

(* Freeing the pointers of a set that are live leaves no double free.       *)
LEMMA FreedHeap ==
    ASSUME NEW h, IsHeap(h), NEW X, X \cap h.ptr \subseteq h.live
    PROVE  /\ IsHeap(FreedIfSet(h, X)) /\ FreedIfSet(h, X).bad = h.bad
           /\ FreedIfSet(h, X).ptr = h.ptr /\ FreedIfSet(h, X).types = h.types
           /\ FreedIfSet(h, X).ref = h.ref
           /\ FreedIfSet(h, X).live = h.live \ (X \cap h.ptr)
<1> DEFINE g == FreedIfSet(h, X)
           L == h.live \ (X \cap h.ptr)
           B == h.bad \cup {}
<1>1. g = [h EXCEPT !.live = L, !.bad = B]
  BY DEF FreedIfSet
<1>2. B = h.bad
  OBVIOUS
<1> HIDE DEF g, L, B
<1>3. IsHeap(g) /\ g.bad = B /\ g.live = L /\ g.ptr = h.ptr /\ g.types = h.types /\ g.ref = h.ref
  BY <1>1 DEF IsHeap
<1> QED
  BY <1>2, <1>3 DEF g, L

(* What the last part of wasm_loader_unload frees.                          *)
RestBlocks(ptr) ==
    {<<"tables">>, <<"memories">>, <<"globals">>, <<"exports">>, <<"table_segments">>,
     <<"data_segments">>, <<"module">>} \cup
    {<<"func_indexes", i>> : i \in DOMAIN binary.elem} \cup
    {<<"data_segment", i>> : i \in DOMAIN binary.data} \cup
    {<<"br_table_cache", i>> : i \in DOMAIN binary.func} \cup
    {b \in ptr : b[1] = "string"}

FunctionBlocks ==
    {<<"functions">>} \cup
    {<<name, i>> : name \in {"local_offsets", "function"}, i \in DOMAIN binary.func}

(* wasm_loader_unload frees all that the module has, each block once.       *)
LEMMA Unloaded ==
    ASSUME binary \in Binary, NEW h, IsHeap(h), h.bad = {}, TypesOK(h.types, h.ref),
           \A b \in h.ptr : ModulePtr(b),
           h.live = (h.ptr \ SectionBlocks) \cup TypeBlocks(h.types)
    PROVE  wasm_loader_unload(h).live = {} /\ wasm_loader_unload(h).bad = {}
<1>1. PICK g : /\ IsHeap(g) /\ g.bad = {} /\ g.ptr = h.ptr
               /\ g.live = h.live \ TypeBlocks(h.types)
               /\ FreeTypes(h) = FreedIfSet(g, {<<"types">>})
  <2>1. TypeBlocks(h.types) \subseteq h.live
    OBVIOUS
  <2> QED
    BY <2>1, TypesFreed
<1> DEFINE g1 == FreedIfSet(g, {<<"types">>})
           g2 == FreedIfSet(g1, {<<"imports">>})
           g3 == FreedIfSet(g2, FunctionBlocks)
           g4 == FreedIfSet(g3, RestBlocks(h.ptr))
<1>2. g.live = h.ptr \ SectionBlocks
  <2>1. ASSUME NEW b \in h.ptr PROVE b \notin TypeBlocks(h.types)
    BY PtrNoType DEF TypeBlocks
  <2> QED
    BY <1>1, <2>1
<1>3. <<"types">> \notin SectionBlocks /\ <<"imports">> \notin SectionBlocks /\ <<"imports">> # <<"types">>
  BY DEF SectionBlocks
<1>4. \A b \in FunctionBlocks : b \notin SectionBlocks /\ b # <<"types">> /\ b # <<"imports">>
  BY DEF SectionBlocks, FunctionBlocks
<1>5. \A b \in RestBlocks(h.ptr) :
        b \notin SectionBlocks /\ b # <<"types">> /\ b # <<"imports">> /\ b \notin FunctionBlocks
  BY DEF SectionBlocks, FunctionBlocks, RestBlocks
<1>6. \A b \in h.ptr : \/ b \in SectionBlocks \/ b = <<"types">> \/ b = <<"imports">>
                       \/ b \in FunctionBlocks \/ b \in RestBlocks(h.ptr)
  <2>1. ASSUME NEW b \in h.ptr
        PROVE  \/ b \in SectionBlocks \/ b = <<"types">> \/ b = <<"imports">>
               \/ b \in FunctionBlocks \/ b \in RestBlocks(h.ptr)
    <3>1. CASE \E n : b = <<"string", n>>
      <4>1. b[1] = "string"
        BY <3>1
      <4> QED
        BY <4>1 DEF RestBlocks
    <3>2. CASE b \in ModuleBlocks
      BY <3>2 DEF ModuleBlocks, ModuleNames, FunctionBlocks, RestBlocks
    <3> QED
      BY <3>1, <3>2 DEF ModulePtr
  <2> QED
    BY <2>1
<1>7. IsHeap(g1) /\ g1.bad = {} /\ g1.ptr = h.ptr /\ g1.live = g.live \ {<<"types">>}
  <2>1. {<<"types">>} \cap g.ptr \subseteq g.live
    BY <1>1, <1>2, <1>3
  <2>2. /\ IsHeap(g1) /\ g1.bad = g.bad /\ g1.ptr = g.ptr
        /\ g1.live = g.live \ ({<<"types">>} \cap g.ptr)
    BY <1>1, <2>1, FreedHeap
  <2> QED
    BY <1>1, <1>2, <2>2
<1> HIDE DEF g1
<1>8. IsHeap(g2) /\ g2.bad = {} /\ g2.ptr = h.ptr /\ g2.live = g1.live \ {<<"imports">>}
  <2>1. {<<"imports">>} \cap g1.ptr \subseteq g1.live
    BY <1>2, <1>3, <1>7
  <2>2. /\ IsHeap(g2) /\ g2.bad = g1.bad /\ g2.ptr = g1.ptr
        /\ g2.live = g1.live \ ({<<"imports">>} \cap g1.ptr)
    BY <1>7, <2>1, FreedHeap
  <2> QED
    BY <1>2, <1>7, <2>2
<1> HIDE DEF g2
<1>9. IsHeap(g3) /\ g3.bad = {} /\ g3.ptr = h.ptr /\ g3.live = g2.live \ FunctionBlocks
  <2>1. FunctionBlocks \cap g2.ptr \subseteq g2.live
    BY <1>2, <1>4, <1>7, <1>8
  <2>2. /\ IsHeap(g3) /\ g3.bad = g2.bad /\ g3.ptr = g2.ptr
        /\ g3.live = g2.live \ (FunctionBlocks \cap g2.ptr)
    BY <1>8, <2>1, FreedHeap
  <2> QED
    BY <1>2, <1>7, <1>8, <2>2
<1> HIDE DEF g3
<1>10. g4.bad = {} /\ g4.live = g3.live \ RestBlocks(h.ptr)
  <2>1. RestBlocks(h.ptr) \cap g3.ptr \subseteq g3.live
    BY <1>2, <1>5, <1>7, <1>8, <1>9
  <2>2. g4.bad = g3.bad /\ g4.live = g3.live \ (RestBlocks(h.ptr) \cap g3.ptr)
    BY <1>9, <2>1, FreedHeap
  <2> QED
    BY <1>2, <1>7, <1>8, <1>9, <2>2
<1>11. wasm_loader_unload(h) = g4
  BY <1>1 DEF wasm_loader_unload, FreeFunctions, g1, g2, g3, RestBlocks, FunctionBlocks
<1>12. g4.live = {}
  <2>1. ASSUME NEW b \in g4.live PROVE FALSE
    BY <2>1, <1>2, <1>6, <1>7, <1>8, <1>9, <1>10
  <2> QED
    BY <2>1
<1> QED
  BY <1>10, <1>11, <1>12

-----------------------------------------------------------------------------
(* The invariant.                                                           *)

Idle(i) == inst[i].pc \in {"new", "gone"}

(* The variables have the fields that the actions keep.                     *)
ShapeInv ==
    /\ binary \in Binaries
    /\ module = [pc |-> module.pc, next |-> module.next, loaded |-> module.loaded,
                 ptr |-> module.ptr, types |-> module.types, ref |-> module.ref,
                 offsets |-> module.offsets]
    /\ inst = [i \in Instances |->
                  [pc |-> inst[i].pc, ptr |-> inst[i].ptr, global |-> inst[i].global,
                   memory |-> inst[i].memory, table |-> inst[i].table, intact |-> inst[i].intact]]

(* The sections are loaded in their order, none of them twice.              *)
Distinct ==
    \A k, l \in DOMAIN binary.order :
        (binary.order[k] # "user" /\ binary.order[k] = binary.order[l]) => k = l

OrderInv ==
    /\ module.pc \in {"new", "sections", "load", "loaded", "gone"}
    /\ module.next \in 1 .. Len(binary.order) + 1
    /\ module.pc # "gone" => module.loaded = {binary.order[k] : k \in 1 .. module.next - 1}
    /\ module.pc \in {"new", "sections"} => module.next = 1
    /\ module.pc \in {"load", "loaded"} => Distinct

(* Every block is that of one pointer, and instances exist only while the   *)
(* module does.                                                             *)
InstanceBlocks == UNION {inst[i].ptr : i \in {j \in Instances : ~Idle(j)}}

ModuleInv ==
    /\ bad = {}
    /\ module.pc # "gone" =>
          /\ \A b \in module.ptr : ModulePtr(b)
          /\ TypesOK(module.types, module.ref)
          /\ "type" \notin module.loaded => \A l \in DOMAIN binary.type : module.types[l] = 0
    /\ module.pc = "new" => module.ptr = {}
    /\ module.pc = "sections" => module.ptr \subseteq {<<"module">>}
    /\ module.pc \in {"new", "sections", "load"} => live = module.ptr \cup TypeBlocks(module.types)
    /\ module.pc = "loaded" =>
          live = ((module.ptr \ SectionBlocks) \cup TypeBlocks(module.types)) \cup InstanceBlocks
    /\ module.pc = "gone" => live = {}
    /\ module.pc # "loaded" => \A i \in Instances : Idle(i)

(* The fields that an instance can have before a part of its making.        *)
FieldsBefore(pc) ==
    CASE pc = "globals" -> {"inst"}
      [] pc = "memories" -> {"inst", "globals"}
      [] pc = "tables" -> {"inst", "globals", "memories", "memory_data", "heap_handle"}
      [] pc = "functions" ->
             {"inst", "globals", "memories", "memory_data", "heap_handle", "tables"}
      [] pc = "exports" ->
             {"inst", "globals", "memories", "memory_data", "heap_handle", "tables",
              "functions", "import_func_ptrs"}
      [] pc \in {"data", "elem", "wasi"} ->
             {"inst", "globals", "memories", "memory_data", "heap_handle", "tables",
              "functions", "import_func_ptrs", "export_functions"}
      [] OTHER -> inst_fields

InstanceInv ==
    \A i \in Instances :
        /\ inst[i].pc = "new" => inst[i].ptr = {}
        /\ ~Idle(i) => inst[i].ptr \subseteq {<<name, i>> : name \in FieldsBefore(inst[i].pc)}

(* What the loader has checked of the sections it has loaded.               *)
LoadedInv ==
    /\ "export" \in module.loaded =>
          \A k \in DOMAIN binary.export : binary.export[k].index < Total(binary.export[k].kind)
    /\ "start" \in module.loaded => binary.start < Total("func")
    /\ "elem" \in module.loaded =>
          \A k \in DOMAIN binary.elem :
              /\ check_table_index(binary.elem[k].table)
              /\ \A f \in DOMAIN binary.elem[k].funcs : check_function_index(binary.elem[k].funcs[f])
    /\ "data" \in module.loaded =>
          \A k \in DOMAIN binary.data :
              binary.data[k].passive \/ binary.data[k].memory < Total("memory")

BlocksInv == ShapeInv /\ OrderInv /\ ModuleInv /\ InstanceInv

(* What is loaded is a binary.                                              *)
LEMMA InBinary == ASSUME ShapeInv PROVE binary \in Binary
BY BinariesAssumption DEF ShapeInv

-----------------------------------------------------------------------------
(* The steps of the module.                                                 *)

(* The steps before the first check that fails are a beginning.             *)
LEMMA ReachIs ==
    ASSUME NEW steps, IsSeq(steps)
    PROVE  /\ Reach(steps) \in Nat /\ Reach(steps) =< Len(steps)
           /\ \A n \in 0 .. Reach(steps) : n \in 0 .. Len(steps)
<1> DEFINE failing == {k \in DOMAIN steps : steps[k].op = "check" /\ ~steps[k].ok}
           k == CHOOSE m \in failing : \A l \in failing : m =< l
<1>1. Len(steps) \in Nat /\ DOMAIN steps = 1 .. Len(steps)
  BY SeqDomain
<1>2. CASE failing = {}
  <2>1. Reach(steps) = Len(steps)
    BY <1>2 DEF Reach
  <2> QED
    BY <1>1, <2>1
<1>3. CASE failing # {}
  <2>1. failing \subseteq Nat /\ failing \subseteq 1 .. Len(steps)
    BY <1>1
  <2>2. Reach(steps) = k - 1
    BY <1>3 DEF Reach
  <2>3. k \in failing
    <3>1. \E m \in failing : \A l \in failing : m =< l
      <4> HIDE DEF failing
      <4> QED
        BY <1>3, <2>1, Least
    <3> HIDE DEF failing
    <3> QED
      BY <3>1
  <2>4. k \in 1 .. Len(steps)
    BY <2>1, <2>3
  <2> HIDE DEF k
  <2> QED
    BY <1>1, <2>2, <2>4
<1> QED
  BY <1>2, <1>3

(* All the steps are a beginning as well.                                   *)
LEMMA AfterAll ==
    ASSUME NEW h, NEW steps, IsSeq(steps)
    PROVE  /\ Len(steps) \in 0 .. Len(steps)
           /\ AfterSteps(h, SubSeq(steps, 1, Len(steps))) = AfterSteps(h, steps)
<1>1. Len(steps) \in 0 .. Len(steps)
  BY SeqDomain
<1> QED
  BY <1>1, Prefix

(* The sections of a heap destroyed.                                        *)
HeapLoaded(h) ==
    /\ IsHeap(h) /\ h.bad = {} /\ \A b \in h.ptr : ModulePtr(b)
    /\ TypesOK(h.types, h.ref)
    /\ h.live = (h.ptr \ SectionBlocks) \cup TypeBlocks(h.types)

(* The list of sections is destroyed.                                       *)
LEMMA SectionsDestroyed ==
    ASSUME NEW h, HeapOK(h)
    PROVE  HeapLoaded(destroy_sections(h)) /\ destroy_sections(h).types = h.types
<1> DEFINE g == destroy_sections(h)
<1>1. g = FreedIfSet(h, SectionBlocks)
  BY DEF destroy_sections, SectionBlocks
<1>2. /\ IsHeap(g) /\ g.bad = h.bad /\ g.ptr = h.ptr /\ g.types = h.types /\ g.ref = h.ref
      /\ g.live = h.live \ (SectionBlocks \cap h.ptr)
  BY <1>1, FreedHeap DEF HeapOK
<1> HIDE DEF g
<1>3. \A b \in TypeBlocks(h.types) : b \notin SectionBlocks
  BY DEF TypeBlocks, SectionBlocks
<1>4. g.live = (h.ptr \ SectionBlocks) \cup TypeBlocks(h.types)
  BY <1>2, <1>3 DEF HeapOK
<1> QED
  BY <1>2, <1>4 DEF HeapOK, HeapLoaded, g

(* A load that fails leaves nothing.                                        *)
LEMMA LoadFailed ==
    ASSUME binary \in Binary, NEW h, HeapOK(h)
    PROVE  /\ wasm_loader_unload(destroy_sections(h)).live = {}
           /\ wasm_loader_unload(destroy_sections(h)).bad = {}
<1>1. HeapLoaded(destroy_sections(h))
  BY SectionsDestroyed
<1> QED
  BY <1>1, Unloaded DEF HeapLoaded

(* What changes when the module does.                                       *)
LEMMA SetModule ==
    ASSUME ShapeInv, NEW h, NEW pc, NEW next, NEW loaded, SetModuleHeap(h, pc, next, loaded)
    PROVE  /\ ShapeInv' /\ live' = h.live /\ bad' = h.bad /\ binary' = binary /\ inst' = inst
           /\ module'.pc = pc /\ module'.next = next /\ module'.loaded = loaded
           /\ module'.ptr = h.ptr /\ module'.types = h.types /\ module'.ref = h.ref
           /\ module'.offsets = module.offsets
BY DEF ShapeInv, SetModuleHeap

(* The module after a step that leaves it with heap h.                      *)
LEMMA ModuleGone ==
    ASSUME BlocksInv, module.pc # "loaded" \/ \A i \in Instances : Idle(i),
           NEW h, h.live = {}, h.bad = {},
           SetModuleHeap(h, "gone", module.next, module.loaded)
    PROVE  BlocksInv'
<1>1. /\ ShapeInv' /\ live' = {} /\ bad' = {} /\ binary' = binary /\ inst' = inst
      /\ module'.pc = "gone" /\ module'.next = module.next
  BY SetModule DEF BlocksInv
<1>2. OrderInv'
  BY <1>1 DEF BlocksInv, OrderInv
<1>3. \A i \in Instances : Idle(i)
  BY DEF BlocksInv, ModuleInv
<1>4. ModuleInv'
  BY <1>1, <1>3 DEF ModuleInv, Idle
<1>5. InstanceInv'
  BY <1>1, <1>3 DEF BlocksInv, InstanceInv, Idle
<1> QED
  BY <1>1, <1>2, <1>4, <1>5 DEF BlocksInv

(* The references to types stay right when the types do not change.         *)
LEMMA TypesKept ==
    ASSUME NEW types, NEW ref, TypesOK(types, ref), binary' = binary,
           module'.types = types, module'.ref = ref
    PROVE  TypesOK(module.types, module.ref)'
<1> DEFINE D == DOMAIN binary.type
<1>1. ASSUME NEW i \in D, module'.types[i] # 0
      PROVE  module'.ref[module'.types[i]]
                 = Cardinality({l \in DOMAIN binary'.type : module'.types[l] = module'.types[i]})
  <2>1. {l \in DOMAIN binary'.type : module'.types[l] = module'.types[i]}
            = {l \in D : types[l] = types[i]}
    OBVIOUS
  <2>2. ref[types[i]] = Cardinality({l \in D : types[l] = types[i]})
    BY <1>1 DEF TypesOK
  <2> QED
    BY <2>1, <2>2
<1>2. /\ module'.types \in [DOMAIN binary'.type -> 0 .. Len(binary'.type)]
      /\ module'.ref \in [DOMAIN binary'.type -> Nat]
  BY DEF TypesOK
<1> QED
  BY <1>1, <1>2 DEF TypesOK

(* A step of the load that succeeds keeps the invariant.                    *)
LEMMA ModuleLoads ==
    ASSUME BlocksInv, module.pc \in {"new", "sections", "load"}, NEW h, HeapOK(h),
           NEW pc \in {"sections", "load"}, NEW next \in 1 .. Len(binary.order) + 1, NEW loaded,
           loaded = {binary.order[k] : k \in 1 .. next - 1},
           pc = "sections" => next = 1 /\ h.ptr \subseteq {<<"module">>},
           pc = "load" => Distinct,
           "type" \notin loaded => \A l \in DOMAIN binary.type : h.types[l] = 0,
           SetModuleHeap(h, pc, next, loaded)
    PROVE  BlocksInv'
<1>1. /\ ShapeInv' /\ live' = h.live /\ bad' = h.bad /\ binary' = binary /\ inst' = inst
      /\ module'.pc = pc /\ module'.next = next /\ module'.loaded = loaded
      /\ module'.ptr = h.ptr /\ module'.types = h.types /\ module'.ref = h.ref
  BY SetModule DEF BlocksInv
<1>2. OrderInv'
  BY <1>1 DEF OrderInv, Distinct
<1>3. \A i \in Instances : Idle(i)
  BY DEF BlocksInv, ModuleInv
<1>4. ModuleInv'
  <2>1. \A b \in h.ptr : ModulePtr(b)'
    BY <1>1 DEF HeapOK, ModulePtr, ModuleBlocks, SectionBlocks
  <2>2. TypesOK(module.types, module.ref)'
    BY <1>1, TypesKept DEF HeapOK
  <2>3. /\ module'.pc \notin {"new", "loaded", "gone"}
        /\ (\A i \in Instances : Idle(i))'
    BY <1>1, <1>3 DEF Idle
  <2>4. \A b \in module'.ptr : ModulePtr(b)'
    BY <1>1, <2>1
  <2>5. live' = module'.ptr \cup TypeBlocks(module'.types) /\ bad' = {}
    BY <1>1 DEF HeapOK
  <2>6. "type" \notin module'.loaded => \A l \in DOMAIN binary'.type : module'.types[l] = 0
    BY <1>1
  <2>7. module'.pc = "sections" => module'.ptr \subseteq {<<"module">>}
    BY <1>1
  <2> QED
    BY <2>2, <2>3, <2>4, <2>5, <2>6, <2>7 DEF ModuleInv
<1>5. InstanceInv'
  BY <1>1, <1>3 DEF BlocksInv, InstanceInv, Idle
<1> QED
  BY <1>1, <1>2, <1>4, <1>5 DEF BlocksInv

(* A load that fails leaves nothing allocated.                              *)
LEMMA StepsFail ==
    ASSUME BlocksInv, module.pc # "loaded", NEW steps, IsSeq(steps),
           \A n \in 0 .. Len(steps) : HeapOK(AfterSteps(ModuleHeap, SubSeq(steps, 1, n))),
           LoadFails(steps)
    PROVE  BlocksInv'
<1>1. PICK n \in 0 .. Reach(steps) :
          SetModuleHeap(
              wasm_loader_unload(destroy_sections(AfterSteps(ModuleHeap, SubSeq(steps, 1, n)))),
              "gone", module.next, module.loaded)
  BY DEF LoadFails
<1>2. n \in 0 .. Len(steps)
  BY ReachIs
<1> DEFINE g == AfterSteps(ModuleHeap, SubSeq(steps, 1, n))
           h == wasm_loader_unload(destroy_sections(g))
<1>3. HeapOK(g)
  BY <1>2
<1>4. SetModuleHeap(h, "gone", module.next, module.loaded)
  BY <1>1
<1> HIDE DEF g
<1>5. h.live = {} /\ h.bad = {}
  BY <1>3, InBinary, LoadFailed DEF BlocksInv
<1> HIDE DEF h
<1> QED
  BY <1>4, <1>5, ModuleGone

(* The heap while the module is loaded.                                     *)
LEMMA LoadingHeap ==
    ASSUME BlocksInv, module.pc \in {"new", "sections", "load"}
    PROVE  /\ HeapOK(ModuleHeap) /\ ModuleHeap.ptr = module.ptr
           /\ ModuleHeap.types = module.types
BY DEF BlocksInv, ModuleInv, HeapOK, ModuleHeap, IsHeap

(* Creating the module keeps the invariant.                                 *)
LEMMA CreateModuleBlocks == ASSUME BlocksInv, create_module PROVE BlocksInv'
<1> DEFINE steps == <<Alloc(<<"module">>)>>
           pc == IF binary.from_buf THEN "sections" ELSE "load"
           g == AfterSteps(ModuleHeap, steps)
<1>1. IsPlain(steps) /\ IsSeq(steps)
  BY NamedPtr, PlainAlloc DEF ModuleNames, IsPlain
<1>2. module.pc = "new" /\ HeapOK(ModuleHeap) /\ ModuleHeap.ptr = module.ptr
      /\ ModuleHeap.types = module.types
  BY LoadingHeap DEF create_module
<1>3. \A l \in DOMAIN binary.type : module.types[l] = 0
  BY <1>2 DEF BlocksInv, OrderInv, ModuleInv
<1>4. CASE LoadStep(steps, pc, 1, {})
  <2> HIDE DEF steps
  <2>1. HeapOK(g) /\ g.types = module.types
    <3>1. \A n \in 0 .. Len(steps) :
            /\ HeapOK(AfterSteps(ModuleHeap, SubSeq(steps, 1, n)))
            /\ AfterSteps(ModuleHeap, SubSeq(steps, 1, n)).types = module.types
      BY <1>1, <1>2, PlainHeap
    <3> QED
      BY <1>1, <3>1, AfterAll
  <2>2. SetModuleHeap(g, pc, 1, {})
    BY <1>4 DEF LoadStep
  <2>3. pc = "load" => Distinct
    <3>1. binary \in Binaries
      BY DEF BlocksInv, ShapeInv
    <3>2. pc = "load" => ~binary.from_buf
      OBVIOUS
    <3> HIDE DEF pc
    <3> QED
      BY <3>1, <3>2, BinariesAssumption DEF Distinct
  <2>4. pc \in {"sections", "load"} /\ 1 \in 1 .. Len(binary.order) + 1
    BY <1>2 DEF BlocksInv, OrderInv
  <2>5. {} = {binary.order[k] : k \in 1 .. 1 - 1}
    OBVIOUS
  <2>6. g.ptr \subseteq {<<"module">>}
    <3>1. g = Done(ModuleHeap, Alloc(<<"module">>))
      BY AfterOne DEF steps
    <3> QED
      BY <1>2, <3>1 DEF Done, Alloc, Allocated, BlocksInv, ModuleInv, ModuleHeap
  <2> HIDE DEF g, pc
  <2> QED
    BY <1>2, <1>3, <2>1, <2>2, <2>3, <2>4, <2>5, <2>6, ModuleLoads
<1>5. CASE SetModuleHeap(ModuleHeap, "gone", 1, {})
  <2>1. module.next = 1 /\ module.loaded = {}
    BY <1>2 DEF BlocksInv, OrderInv
  <2>2. ModuleHeap.live = {} /\ ModuleHeap.bad = {}
    <3>1. TypeBlocks(module.types) = {}
      BY <1>2, <1>3 DEF TypeBlocks, HeapOK, TypesOK
    <3> QED
      BY <1>2, <3>1 DEF BlocksInv, ModuleInv, ModuleHeap
  <2>3. SetModuleHeap(ModuleHeap, "gone", module.next, module.loaded)
    BY <1>5, <2>1
  <2> QED
    BY <1>2, <2>2, <2>3, ModuleGone
<1> QED
  BY <1>4, <1>5 DEF create_module

(* Creating the sections keeps the invariant.                               *)
LEMMA CreateSectionsBlocks == ASSUME BlocksInv, CreateSections PROVE BlocksInv'
<1> DEFINE steps == create_sections
           g == AfterSteps(ModuleHeap, steps)
<1>0. binary \in Binary
  BY InBinary DEF BlocksInv
<1>1. IsPlain(steps) /\ IsSeq(steps) /\ (Succeeds(steps) => Distinct)
  BY <1>0, OrderPlain DEF IsPlain, Distinct
<1>2. module.pc = "sections" /\ HeapOK(ModuleHeap) /\ ModuleHeap.types = module.types
  BY LoadingHeap DEF CreateSections
<1> HIDE DEF steps
<1>3. \A n \in 0 .. Len(steps) : /\ HeapOK(AfterSteps(ModuleHeap, SubSeq(steps, 1, n)))
                                 /\ AfterSteps(ModuleHeap, SubSeq(steps, 1, n)).types = module.types
  BY <1>1, <1>2, PlainHeap
<1>4. CASE LoadStep(steps, "load", 1, {})
  <2>1. HeapOK(g) /\ g.types = module.types
    BY <1>1, <1>3, AfterAll
  <2>2. SetModuleHeap(g, "load", 1, {}) /\ Distinct
    BY <1>1, <1>4 DEF LoadStep
  <2>3. \A l \in DOMAIN binary.type : module.types[l] = 0
    BY <1>2 DEF BlocksInv, OrderInv, ModuleInv
  <2>4. 1 \in 1 .. Len(binary.order) + 1
    BY <1>2 DEF BlocksInv, OrderInv
  <2>5. {} = {binary.order[k] : k \in 1 .. 1 - 1}
    OBVIOUS
  <2> HIDE DEF g
  <2> QED
    BY <1>2, <2>1, <2>2, <2>3, <2>4, <2>5, ModuleLoads
<1>5. CASE LoadFails(steps)
  BY <1>1, <1>2, <1>3, <1>5, StepsFail
<1> QED
  BY <1>4, <1>5 DEF CreateSections, steps

(* Loading a section keeps the invariant.                                   *)
LEMMA LoadSectionBlocks == ASSUME BlocksInv, LoadSection PROVE BlocksInv'
<1> DEFINE s == binary.order[module.next]
           steps == LoadSteps(s)
           g == AfterSteps(ModuleHeap, steps)
<1>0. binary \in Binary
  BY InBinary DEF BlocksInv
<1>1. /\ module.pc = "load" /\ module.next =< Len(binary.order)
      /\ HeapOK(ModuleHeap) /\ ModuleHeap.types = module.types
      /\ module.next \in 1 .. Len(binary.order) + 1
      /\ module.loaded = {binary.order[k] : k \in 1 .. module.next - 1}
      /\ Distinct
  BY LoadingHeap DEF LoadSection, BlocksInv, OrderInv
<1>2. Len(binary.order) \in Nat /\ DOMAIN binary.order = 1 .. Len(binary.order)
  BY <1>0, BinaryTypes
<1>3. s = "type" => "type" \notin module.loaded
  <2>1. SUFFICES ASSUME s = "type", "type" \in module.loaded PROVE FALSE
    OBVIOUS
  <2>2. PICK k \in 1 .. module.next - 1 : binary.order[k] = "type"
    BY <1>1, <2>1
  <2>3. k \in DOMAIN binary.order /\ module.next \in DOMAIN binary.order /\ k # module.next
    BY <1>1, <1>2
  <2> QED
    BY <1>1, <2>1, <2>2, <2>3 DEF Distinct
<1>4. "type" \notin module.loaded => \A l \in DOMAIN binary.type : module.types[l] = 0
  BY <1>1 DEF BlocksInv, ModuleInv
<1>5. /\ IsSeq(steps)
      /\ \A n \in 0 .. Len(steps) :
            /\ HeapOK(AfterSteps(ModuleHeap, SubSeq(steps, 1, n)))
            /\ s # "type" => AfterSteps(ModuleHeap, SubSeq(steps, 1, n)).types = module.types
  <2> HIDE DEF s
  <2> QED
    BY <1>0, <1>1, <1>3, <1>4, SectionLoads
<1>6. CASE LoadStep(steps, "load", module.next + 1, module.loaded \cup {s})
  <2>1. HeapOK(g) /\ (s # "type" => g.types = module.types)
    <3> HIDE DEF s, steps
    <3> QED
      BY <1>5, AfterAll
  <2>2. SetModuleHeap(g, "load", module.next + 1, module.loaded \cup {s})
    BY <1>6 DEF LoadStep
  <2>3. module.next + 1 \in 1 .. Len(binary.order) + 1
    BY <1>1, <1>2
  <2>4. module.loaded \cup {s} = {binary.order[k] : k \in 1 .. (module.next + 1) - 1}
    <3>1. \A k : k \in 1 .. (module.next + 1) - 1 <=> k \in 1 .. module.next - 1 \/ k = module.next
      BY <1>1, <1>2
    <3> QED
      BY <1>1, <3>1
  <2>5. "type" \notin module.loaded \cup {s} => \A l \in DOMAIN binary.type : g.types[l] = 0
    <3> HIDE DEF s, g
    <3> QED
      BY <1>4, <2>1
  <2> HIDE DEF g, s
  <2> QED
    BY <1>1, <2>1, <2>2, <2>3, <2>4, <2>5, ModuleLoads
<1>7. CASE LoadFails(steps)
  <2> HIDE DEF s, steps
  <2> QED
    BY <1>1, <1>5, <1>7, StepsFail
<1> QED
  BY <1>6, <1>7 DEF LoadSection

(* Preparing the bodies and destroying the sections keeps the invariant.    *)
LEMMA FinishLoadBlocks == ASSUME BlocksInv, FinishLoad PROVE BlocksInv'
<1> DEFINE steps == IF "func" \in module.loaded THEN PrepareBytecode ELSE << >>
           g == AfterSteps(ModuleHeap, steps)
           h == destroy_sections(g)
<1>0. binary \in Binary
  BY InBinary DEF BlocksInv
<1>1. IsPlain(steps) /\ IsSeq(steps)
  BY <1>0, PreparePlain, PlainEmpty DEF IsPlain
<1>2. /\ module.pc = "load" /\ HeapOK(ModuleHeap) /\ ModuleHeap.types = module.types
      /\ module.next \in 1 .. Len(binary.order) + 1
      /\ module.loaded = {binary.order[k] : k \in 1 .. module.next - 1}
      /\ Distinct
  BY LoadingHeap DEF FinishLoad, BlocksInv, OrderInv
<1>3. \/ SetModuleHeap(h, "loaded", module.next, module.loaded)
      \/ LoadFails(steps)
  BY DEF FinishLoad
<1> HIDE DEF steps
<1>4. \A n \in 0 .. Len(steps) : /\ HeapOK(AfterSteps(ModuleHeap, SubSeq(steps, 1, n)))
                                 /\ AfterSteps(ModuleHeap, SubSeq(steps, 1, n)).types = module.types
  BY <1>1, <1>2, PlainHeap
<1>5. CASE SetModuleHeap(h, "loaded", module.next, module.loaded)
  <2>1. HeapOK(g) /\ g.types = module.types
    BY <1>1, <1>4, AfterAll
  <2> HIDE DEF g
  <2>2. HeapLoaded(h) /\ h.types = module.types
    BY <2>1, SectionsDestroyed
  <2> HIDE DEF h
  <2>3. /\ ShapeInv' /\ live' = h.live /\ bad' = h.bad /\ binary' = binary /\ inst' = inst
        /\ module'.pc = "loaded" /\ module'.next = module.next /\ module'.loaded = module.loaded
        /\ module'.ptr = h.ptr /\ module'.types = h.types /\ module'.ref = h.ref
    BY <1>5, SetModule DEF BlocksInv
  <2>4. OrderInv'
    BY <1>2, <2>3 DEF OrderInv, Distinct
  <2>5. \A i \in Instances : Idle(i)
    BY <1>2 DEF BlocksInv, ModuleInv
  <2>6. InstanceInv'
    BY <2>3, <2>5 DEF BlocksInv, InstanceInv, Idle
  <2>7. ModuleInv'
    <3>1. \A b \in module'.ptr : ModulePtr(b)'
      BY <2>2, <2>3 DEF HeapLoaded, ModulePtr, ModuleBlocks, SectionBlocks
    <3>2. TypesOK(module.types, module.ref)'
      BY <2>2, <2>3, TypesKept DEF HeapLoaded
    <3>3. InstanceBlocks' = {} /\ SectionBlocks' = SectionBlocks
      BY <2>3, <2>5 DEF InstanceBlocks, Idle, SectionBlocks
    <3>4. live' = ((module'.ptr \ SectionBlocks') \cup TypeBlocks(module'.types)) \cup InstanceBlocks'
      BY <2>2, <2>3, <3>3 DEF HeapLoaded
    <3>5. "type" \notin module'.loaded => \A l \in DOMAIN binary'.type : module'.types[l] = 0
      BY <1>2, <2>2, <2>3 DEF BlocksInv, ModuleInv
    <3>6. bad' = {}
      BY <2>2, <2>3 DEF HeapLoaded
    <3> QED
      BY <2>3, <3>1, <3>2, <3>4, <3>5, <3>6 DEF ModuleInv
  <2> QED
    BY <2>3, <2>4, <2>6, <2>7 DEF BlocksInv
<1>6. CASE LoadFails(steps)
  BY <1>1, <1>2, <1>4, <1>6, StepsFail
<1> QED
  BY <1>3, <1>5, <1>6

(* Unloading the module keeps the invariant.                                *)
LEMMA UnloadBlocks == ASSUME BlocksInv, Unload PROVE BlocksInv'
<1> DEFINE h == wasm_loader_unload(ModuleHeap)
<1>0. binary \in Binary
  BY InBinary DEF BlocksInv
<1>1. module.pc = "loaded" /\ \A i \in Instances : Idle(i)
  BY DEF Unload, Idle
<1>2. InstanceBlocks = {}
  BY <1>1 DEF InstanceBlocks
<1>3. HeapLoaded(ModuleHeap)
  BY <1>1, <1>2 DEF BlocksInv, ModuleInv, HeapLoaded, IsHeap, ModuleHeap
<1>4. h.live = {} /\ h.bad = {}
  BY <1>0, <1>3, Unloaded DEF HeapLoaded
<1>5. SetModuleHeap(h, "gone", module.next, module.loaded)
  BY DEF Unload
<1> HIDE DEF h
<1> QED
  BY <1>1, <1>4, <1>5, ModuleGone

-----------------------------------------------------------------------------
(* The steps of an instance.                                                *)

(* The blocks of a wasi context.                                            *)
LEMMA WasiFields ==
    /\ IsSeq(wasi_fields)
    /\ ToSet(wasi_fields) = {"argv_list", "argv_buf", "env_list", "env_buf", "curfds", "prestats",
                             "argv_environ", "addr_pool", "ns_lookup_list", "ns_lookup_buf"}
<1>1. DOMAIN wasi_fields = 1 .. 10 /\ wasi_fields = [k \in 1 .. 10 |-> wasi_fields[k]]
  BY DEF wasi_fields
<1>2. IsSeq(wasi_fields)
  BY <1>1, SeqIs
<1>3. ToSet(wasi_fields) = {wasi_fields[1], wasi_fields[2], wasi_fields[3], wasi_fields[4],
                            wasi_fields[5], wasi_fields[6], wasi_fields[7], wasi_fields[8],
                            wasi_fields[9], wasi_fields[10]}
  <2>1. \A k \in 1 .. 10 : k = 1 \/ k = 2 \/ k = 3 \/ k = 4 \/ k = 5 \/ k = 6 \/ k = 7 \/ k = 8
                           \/ k = 9 \/ k = 10
    OBVIOUS
  <2> QED
    BY <1>1, <2>1 DEF ToSet
<1> QED
  BY <1>2, <1>3 DEF wasi_fields

Fields(i) == {<<name, i>> : name \in inst_fields}

(* No two instances, and no instance and the module, share a block.         *)
LEMMA FieldsApart ==
    ASSUME NEW i, NEW b \in Fields(i)
    PROVE  /\ ~ModulePtr(b) /\ \A types : b \notin TypeBlocks(types)
           /\ \A j : j # i => b \notin Fields(j)
<1>1. PICK name \in inst_fields : b = <<name, i>>
  BY DEF Fields
<1>2. b[1] = name /\ b[2] = i /\ DOMAIN b = {1, 2}
  BY <1>1
<1>3. name \notin {"local_offsets", "function", "br_table_cache", "func_indexes", "data_segment",
                   "section", "string", "type"}
  BY WasiFields DEF inst_fields
<1>4. \A n : b # <<n>>
  BY <1>2
<1>5. \A n, k : b = <<n, k>> => n = name /\ k = i
  BY <1>2
<1>6. ~ModulePtr(b)
  BY <1>3, <1>4, <1>5 DEF ModulePtr, ModuleBlocks, SectionBlocks
<1>7. \A types : b \notin TypeBlocks(types)
  BY <1>3, <1>5 DEF TypeBlocks
<1>8. \A j : j # i => b \notin Fields(j)
  BY <1>5 DEF Fields
<1> QED
  BY <1>6, <1>7, <1>8

(* The blocks that an instance has at a stage are its own.                  *)
LEMMA FieldsOf ==
    ASSUME NEW pc, NEW i
    PROVE  FieldsBefore(pc) \subseteq inst_fields
           /\ {<<name, i>> : name \in FieldsBefore(pc)} \subseteq Fields(i)
<1>1. FieldsBefore(pc) \subseteq inst_fields
  BY DEF FieldsBefore, inst_fields
<1> QED
  BY <1>1 DEF Fields

(* The blocks of an instance.                                               *)
Held(i) == IF Idle(i) THEN {} ELSE inst[i].ptr

(* An instance holds its own blocks, and they are live.                     *)
LEMMA HeldFields ==
    ASSUME BlocksInv, NEW i \in Instances
    PROVE  /\ Held(i) \subseteq Fields(i)
           /\ ~Idle(i) => module.pc = "loaded" /\ Held(i) \subseteq live
<1>1. Held(i) \subseteq Fields(i)
  BY FieldsOf DEF Held, BlocksInv, InstanceInv
<1>2. ~Idle(i) => module.pc = "loaded"
  BY DEF BlocksInv, ModuleInv
<1>3. ~Idle(i) => Held(i) \subseteq InstanceBlocks
  BY DEF Held, InstanceBlocks
<1> QED
  BY <1>1, <1>2, <1>3 DEF BlocksInv, ModuleInv

(* Whose block a live block is.                                             *)
LEMMA LiveIs ==
    ASSUME BlocksInv, module.pc = "loaded", NEW b
    PROVE  b \in live <=> \/ b \in module.ptr /\ b \notin SectionBlocks
                          \/ b \in TypeBlocks(module.types)
                          \/ \E j \in Instances : b \in Held(j)
BY DEF BlocksInv, ModuleInv, InstanceBlocks, Held

(* A live block of an instance is one that the instance holds.              *)
LEMMA LiveFields ==
    ASSUME BlocksInv, module.pc = "loaded", NEW i \in Instances, NEW b \in Fields(i), b \in live
    PROVE  b \in Held(i)
<1>1. ~ModulePtr(b) /\ b \notin TypeBlocks(module.types) /\ \A j : j # i => b \notin Fields(j)
  BY FieldsApart
<1>2. b \notin module.ptr
  BY <1>1 DEF BlocksInv, ModuleInv
<1>3. PICK j \in Instances : b \in Held(j)
  BY <1>1, <1>2, LiveIs
<1> QED
  BY <1>1, <1>3, HeldFields

ModuleKept ==
    /\ binary' = binary
    /\ module' = [module EXCEPT !.offsets = module'.offsets]

(* A step of an instance that replaces what it holds.                       *)
LEMMA InstanceStep ==
    ASSUME BlocksInv, module.pc = "loaded", ModuleKept, bad' = {}, NEW i \in Instances,
           NEW r, r = [pc |-> r.pc, ptr |-> r.ptr, global |-> r.global, memory |-> r.memory,
                       table |-> r.table, intact |-> r.intact],
           inst' = [inst EXCEPT ![i] = r], r.pc # "new",
           live' = (live \ Held(i)) \cup (IF r.pc = "gone" THEN {} ELSE r.ptr),
           r.pc # "gone" => r.ptr \subseteq {<<name, i>> : name \in FieldsBefore(r.pc)}
    PROVE  BlocksInv'
<1>1. /\ module'.pc = "loaded" /\ module'.next = module.next /\ module'.loaded = module.loaded
      /\ module'.ptr = module.ptr /\ module'.types = module.types /\ module'.ref = module.ref
      /\ binary' = binary
  BY DEF ModuleKept, BlocksInv, ShapeInv
<1>2. inst'[i] = r /\ \A j \in Instances : j # i => inst'[j] = inst[j]
  BY DEF BlocksInv, ShapeInv
<1>3. ShapeInv'
  <2>1. module' = [pc |-> module'.pc, next |-> module'.next, loaded |-> module'.loaded,
                   ptr |-> module'.ptr, types |-> module'.types, ref |-> module'.ref,
                   offsets |-> module'.offsets]
    BY DEF ModuleKept, BlocksInv, ShapeInv
  <2>2. DOMAIN inst' = Instances
    BY DEF BlocksInv, ShapeInv
  <2>3. ASSUME NEW j \in Instances
        PROVE  inst'[j] = [pc |-> inst'[j].pc, ptr |-> inst'[j].ptr, global |-> inst'[j].global,
                           memory |-> inst'[j].memory, table |-> inst'[j].table,
                           intact |-> inst'[j].intact]
    BY <1>2 DEF BlocksInv, ShapeInv
  <2>4. inst' = [j \in Instances |-> inst'[j]]
    BY DEF BlocksInv, ShapeInv
  <2> QED
    BY <1>1, <2>1, <2>3, <2>4 DEF BlocksInv, ShapeInv
<1>4. OrderInv'
  BY <1>1 DEF BlocksInv, OrderInv, Distinct
<1>5. InstanceInv'
  BY <1>2 DEF BlocksInv, InstanceInv, Idle
<1>6. ModuleInv'
  <2>1. \A b \in module'.ptr : ModulePtr(b)'
    BY <1>1 DEF BlocksInv, ModuleInv, ModulePtr, ModuleBlocks, SectionBlocks
  <2>2. TypesOK(module.types, module.ref)'
    BY <1>1, TypesKept DEF BlocksInv, ModuleInv
  <2>3. "type" \notin module'.loaded => \A l \in DOMAIN binary'.type : module'.types[l] = 0
    BY <1>1 DEF BlocksInv, ModuleInv
  <2> DEFINE P == IF r.pc = "gone" THEN {} ELSE r.ptr
             M == (module.ptr \ SectionBlocks) \cup TypeBlocks(module.types)
  <2>4. live' = M \cup (UNION {inst'[j].ptr : j \in {k \in Instances : inst'[k].pc \notin {"new", "gone"}}})
    <3>1. P \subseteq Fields(i)
      BY FieldsOf
    <3>2. \A b \in Fields(i) : b \notin M /\ \A j \in Instances : j # i => b \notin Held(j)
      BY FieldsApart, HeldFields DEF BlocksInv, ModuleInv
    <3>3. \A b : b \in live' <=> (b \in live /\ b \notin Held(i)) \/ b \in P
      OBVIOUS
    <3>4. \A b : b \in live <=> b \in M \/ \E j \in Instances : b \in Held(j)
      BY LiveIs
    <3>5. Held(i) \subseteq Fields(i)
      BY HeldFields
    <3>6. \A b : b \in live' <=> b \in M \/ b \in P \/ \E j \in Instances : j # i /\ b \in Held(j)
      <4> HIDE DEF M, P
      <4> QED
        BY <3>1, <3>2, <3>3, <3>4, <3>5
    <3>7. \A j \in Instances : j # i =>
            Held(j) = IF inst'[j].pc \in {"new", "gone"} THEN {} ELSE inst'[j].ptr
      BY <1>2 DEF Held, Idle
    <3>8. P = IF inst'[i].pc \in {"new", "gone"} THEN {} ELSE inst'[i].ptr
      BY <1>2
    <3>9. \A b : b \in (UNION {inst'[j].ptr : j \in {k \in Instances : inst'[k].pc \notin {"new", "gone"}}})
                 <=> \E j \in Instances : inst'[j].pc \notin {"new", "gone"} /\ b \in inst'[j].ptr
      OBVIOUS
    <3>10. \A b : b \in P \/ (\E j \in Instances : j # i /\ b \in Held(j))
                 <=> \E j \in Instances : inst'[j].pc \notin {"new", "gone"} /\ b \in inst'[j].ptr
      <4> HIDE DEF P
      <4> QED
        BY <3>7, <3>8
    <3> HIDE DEF M, P
    <3> QED
      BY <3>6, <3>9, <3>10
  <2>5. live' = ((module'.ptr \ SectionBlocks') \cup TypeBlocks(module'.types)) \cup InstanceBlocks'
    BY <1>1, <2>4 DEF InstanceBlocks, Idle, SectionBlocks
  <2> QED
    BY <1>1, <2>1, <2>2, <2>3, <2>5 DEF ModuleInv
<1> QED
  BY <1>3, <1>4, <1>5, <1>6 DEF BlocksInv

IsInst(r) ==
    r = [pc |-> r.pc, ptr |-> r.ptr, global |-> r.global, memory |-> r.memory,
         table |-> r.table, intact |-> r.intact]

(* An instance with other pointers.                                         *)
LEMMA SetPtr ==
    ASSUME NEW r, IsInst(r), NEW v
    PROVE  /\ IsInst([r EXCEPT !.ptr = v]) /\ [r EXCEPT !.ptr = v].ptr = v
           /\ [r EXCEPT !.ptr = v].pc = r.pc
           /\ [r EXCEPT !.ptr = v].global = r.global
           /\ [r EXCEPT !.ptr = v].memory = r.memory /\ [r EXCEPT !.ptr = v].table = r.table
           /\ [r EXCEPT !.ptr = v].intact = r.intact
BY DEF IsInst

(* An instance at another stage.                                            *)
LEMMA SetPc ==
    ASSUME NEW r, IsInst(r), NEW v
    PROVE  /\ IsInst([r EXCEPT !.pc = v]) /\ [r EXCEPT !.pc = v].pc = v
           /\ [r EXCEPT !.pc = v].ptr = r.ptr
           /\ [r EXCEPT !.pc = v].global = r.global
           /\ [r EXCEPT !.pc = v].memory = r.memory /\ [r EXCEPT !.pc = v].table = r.table
           /\ [r EXCEPT !.pc = v].intact = r.intact
BY DEF IsInst

(* The fields of an instance after one array has changed.                   *)
LEMMA SetGlobal ==
    ASSUME NEW r, IsInst(r), NEW v, NEW f, f = [r EXCEPT !.global = v]
    PROVE  IsInst(f) /\ f.pc = r.pc /\ f.global = v
BY DEF IsInst

(* The memory.                                                              *)
LEMMA SetMemory ==
    ASSUME NEW r, IsInst(r), NEW v, NEW f, f = [r EXCEPT !.memory = v]
    PROVE  IsInst(f) /\ f.pc = r.pc /\ f.memory = v /\ f.global = r.global
BY DEF IsInst

(* The table.                                                               *)
LEMMA SetTable ==
    ASSUME NEW r, IsInst(r), NEW v, NEW f, f = [r EXCEPT !.table = v]
    PROVE  /\ IsInst(f) /\ f.pc = r.pc /\ f.table = v
           /\ f.global = r.global /\ f.memory = r.memory
BY DEF IsInst

(* An instance has the fields of one.                                       *)
LEMMA ShapeOf == ASSUME BlocksInv, NEW i \in Instances PROVE IsInst(inst[i])
BY DEF BlocksInv, ShapeInv, IsInst

(* A step of an instance keeps the module.                                  *)
LEMMA Kept == ASSUME BlocksInv, UNCHANGED <<binary, module>> PROVE ModuleKept
BY DEF ModuleKept, BlocksInv, ShapeInv

(* A part of an instance is complete.                                       *)
LEMMA DoneBlocks ==
    ASSUME BlocksInv, module.pc = "loaded", ModuleKept, NEW i \in Instances,
           NEW fields, IsInst(fields), fields.pc \notin {"new", "gone"},
           NEW B, B \subseteq {<<name, i>> : name \in FieldsBefore(fields.pc)},
           Idle(i) => inst[i].pc = "new",
           ~Idle(i) => FieldsBefore(inst[i].pc) \subseteq FieldsBefore(fields.pc),
           NEW h, h.live = live \cup B, h.ptr = inst[i].ptr \cup B, h.bad = {},
           SetInstHeap(i, h, fields)
    PROVE  BlocksInv'
<1> DEFINE r == [fields EXCEPT !.ptr = h.ptr]
<1>1. IsInst(r) /\ r.pc = fields.pc /\ r.ptr = h.ptr
  BY SetPtr
<1>2. live' = h.live /\ bad' = {} /\ inst' = [inst EXCEPT ![i] = r]
  BY DEF SetInstHeap
<1> HIDE DEF r
<1>3. Held(i) = inst[i].ptr /\ Held(i) \subseteq {<<name, i>> : name \in FieldsBefore(fields.pc)}
  BY DEF Held, BlocksInv, InstanceInv
<1>4. live' = (live \ Held(i)) \cup (IF r.pc = "gone" THEN {} ELSE r.ptr)
  <2>1. Idle(i) => Held(i) = {}
    BY DEF Held
  <2>2. Held(i) \subseteq live
    BY <2>1, HeldFields
  <2> QED
    BY <1>1, <1>2, <1>3, <2>2
<1>5. r.ptr \subseteq {<<name, i>> : name \in FieldsBefore(r.pc)}
  BY <1>1, <1>3
<1> QED
  BY <1>1, <1>2, <1>4, <1>5, InstanceStep DEF IsInst

(* An instance whose making fails, or which is destroyed, keeps nothing.    *)
LEMMA FailsBlocks ==
    ASSUME BlocksInv, ModuleKept, NEW i \in Instances, ~Idle(i),
           NEW K, K \subseteq Fields(i),
           NEW h, h = [live |-> live \cup K, bad |-> {}, ptr |-> inst[i].ptr \cup K],
           Fails(i, h)
    PROVE  /\ BlocksInv'
           /\ \E p : inst' = [inst EXCEPT ![i] = [inst[i] EXCEPT !.pc = "gone", !.ptr = p]]
<1> DEFINE g == wasm_deinstantiate(h, i)
           fields == [inst[i] EXCEPT !.pc = "gone"]
           r == [fields EXCEPT !.ptr = g.ptr]
           got == Fields(i) \cap h.ptr
<1>0. Held(i) = inst[i].ptr /\ Held(i) \subseteq Fields(i) /\ Held(i) \subseteq live
      /\ module.pc = "loaded"
  BY HeldFields DEF Held
<1>1. got = h.ptr /\ got \subseteq h.live
  BY <1>0
<1>2. g = [h EXCEPT !.live = @ \ got, !.bad = @ \cup {}]
  BY <1>1 DEF wasm_deinstantiate, FreedIfSet, Fields
<1>3. g.live = (live \cup K) \ got /\ g.bad = {} /\ g.ptr = h.ptr
  BY <1>2
<1>4. IsInst(fields) /\ fields.pc = "gone"
  BY ShapeOf, SetPc
<1>5. SetInstHeap(i, g, fields)
  BY DEF Fails
<1>6. live' = g.live /\ bad' = g.bad /\ inst' = [inst EXCEPT ![i] = r]
  BY <1>5 DEF SetInstHeap
<1>7. r = [inst[i] EXCEPT !.pc = "gone", !.ptr = g.ptr]
  BY ShapeOf DEF IsInst
<1> HIDE DEF g, fields
<1>8. IsInst(r) /\ r.pc = "gone"
  BY <1>4 DEF IsInst
<1> HIDE DEF r
<1>9. live' = live \ Held(i)
  <2>1. ASSUME NEW b \in K, b \in live PROVE b \in Held(i)
    BY <1>0, <2>1, LiveFields
  <2>2. got = Held(i) \cup K
    BY <1>0, <1>1
  <2> HIDE DEF got
  <2> QED
    BY <1>3, <1>6, <2>1, <2>2
<1>10. BlocksInv'
  BY <1>0, <1>3, <1>6, <1>8, <1>9, InstanceStep DEF IsInst
<1> QED
  BY <1>6, <1>7, <1>10

(* No name is before the first.                                             *)
LEMMA NoNames == ToSet(SubSeq(<< >>, 1, 0)) = {}
<1>1. 0 \in 0 .. Len(<< >>) /\ IsSeq(<< >>)
  BY SeqEmpty
<1>2. IsSeq(SubSeq(<< >>, 1, 0)) /\ Len(SubSeq(<< >>, 1, 0)) = 0
  BY <1>1, Prefix
<1> QED
  BY <1>2 DEF ToSet, IsSeq

(* The blocks with some names.                                              *)
LEMMA BlocksOf ==
    ASSUME NEW names, NEW i
    PROVE  ToSet(Blocks(names, i)) = {<<name, i>> : name \in ToSet(names)}
BY DEF Blocks, ToSet

(* The heap after a part that failed.                                       *)
LEMMA FailedPartIs ==
    ASSUME NEW i, NEW blocks, NEW undo, NEW got, got = ToSet(blocks)
    PROVE  FailedPart(InstHeap(i), blocks, undo) =
               [live |-> (live \cup got) \ {b \in got : b[1] \in undo}, bad |-> bad,
                ptr |-> inst[i].ptr \cup {b \in got : b[1] = "wasi_ctx"}]
<1> DEFINE freed == {b \in got : b[1] \in undo}
           K == {b \in got : b[1] = "wasi_ctx"}
<1>1. FailedPart(InstHeap(i), blocks, undo) =
          [InstHeap(i) EXCEPT !.live = (@ \cup got) \ freed, !.ptr = @ \cup K]
  BY DEF FailedPart
<1> HIDE DEF freed, K
<1>2. FailedPart(InstHeap(i), blocks, undo) =
          [live |-> (live \cup got) \ freed, bad |-> bad, ptr |-> inst[i].ptr \cup K]
  BY <1>1 DEF InstHeap
<1> QED
  BY <1>2 DEF freed, K

(* A part fails after some of its blocks have been allocated.               *)
LEMMA PartFailsBlocks ==
    ASSUME BlocksInv, UNCHANGED <<binary, module>>, NEW i \in Instances, ~Idle(i),
           NEW names, IsSeq(names), ToSet(names) \subseteq inst_fields,
           NEW undo, NEW late \in BOOLEAN, PartFails(i, names, undo, late),
           undo \cap FieldsBefore(inst[i].pc) = {}, "wasi_ctx" \notin undo,
           \A n \in 0 .. Len(names) :
               n < Len(names) \/ (late /\ names # << >>) =>
                   ToSet(SubSeq(names, 1, n)) \subseteq undo \cup {"wasi_ctx"}
    PROVE  /\ BlocksInv'
           /\ \E p : inst' = [inst EXCEPT ![i] = [inst[i] EXCEPT !.pc = "gone", !.ptr = p]]
<1>1. PICK n \in 0 .. Len(names) :
          /\ n < Len(names) \/ (late /\ names # << >>)
          /\ Fails(i, FailedPart(InstHeap(i), Blocks(SubSeq(names, 1, n), i), undo))
  BY DEF PartFails
<1> DEFINE G == ToSet(SubSeq(names, 1, n))
           got == {<<name, i>> : name \in G}
           freed == {b \in got : b[1] \in undo}
           K == {b \in got : b[1] = "wasi_ctx"}
           h == FailedPart(InstHeap(i), Blocks(SubSeq(names, 1, n), i), undo)
<1>2. G \subseteq undo \cup {"wasi_ctx"} /\ G \subseteq inst_fields
  BY <1>1, Prefix
<1>3. ToSet(Blocks(SubSeq(names, 1, n), i)) = got
  BY BlocksOf
<1>4. h = [live |-> (live \cup got) \ freed, bad |-> bad, ptr |-> inst[i].ptr \cup K]
  <2> DEFINE blocks == Blocks(SubSeq(names, 1, n), i)
  <2>1. got = ToSet(blocks)
    BY <1>3
  <2> HIDE DEF got, blocks
  <2>2. FailedPart(InstHeap(i), blocks, undo) =
            [live |-> (live \cup got) \ {b \in got : b[1] \in undo}, bad |-> bad,
             ptr |-> inst[i].ptr \cup {b \in got : b[1] = "wasi_ctx"}]
    BY <2>1, FailedPartIs
  <2> QED
    BY <2>2 DEF blocks
<1>5. Held(i) = inst[i].ptr /\ module.pc = "loaded" /\ bad = {}
      /\ inst[i].ptr \subseteq {<<name, i>> : name \in FieldsBefore(inst[i].pc)}
  BY HeldFields DEF Held, BlocksInv, ModuleInv, InstanceInv
<1> HIDE DEF h, G
<1>6. (live \cup got) \ freed = live \cup K
  <2>1. ASSUME NEW b \in freed PROVE b \notin live
    <3>1. b \in Fields(i) /\ b[1] \in undo
      BY <1>2 DEF Fields
    <3>2. ASSUME b \in live PROVE FALSE
      <4>1. b \in inst[i].ptr
        BY <1>5, <3>1, <3>2, LiveFields
      <4>2. PICK name \in FieldsBefore(inst[i].pc) : b = <<name, i>>
        BY <1>5, <4>1
      <4>3. b[1] = name
        BY <4>2
      <4> QED
        BY <3>1, <4>2, <4>3
    <3> QED
      BY <3>2
  <2>2. \A b \in got : b \in freed \/ b \in K
    BY <1>2
  <2>3. \A b \in K : b \notin freed
    OBVIOUS
  <2>4. K \subseteq got /\ freed \subseteq got
    OBVIOUS
  <2> HIDE DEF got, K, freed
  <2> QED
    BY <2>1, <2>2, <2>3, <2>4
<1>7. K \subseteq Fields(i)
  BY <1>2 DEF Fields
<1>8. Fails(i, h) /\ h = [live |-> live \cup K, bad |-> {}, ptr |-> inst[i].ptr \cup K]
  <2> HIDE DEF K, got, freed
  <2> QED
    BY <1>1, <1>4, <1>5, <1>6 DEF h
<1>9. ModuleKept
  BY Kept
<1> HIDE DEF K
<1> QED
  BY <1>7, <1>8, <1>9, FailsBlocks

(* The heap after a part that is complete.                                  *)
LEMMA AfterPartIs ==
    ASSUME NEW h, h = [live |-> h.live, bad |-> h.bad, ptr |-> h.ptr], NEW names, NEW i
    PROVE  AfterPart(h, Blocks(names, i)) =
               [live |-> h.live \cup {<<name, i>> : name \in ToSet(names)}, bad |-> h.bad,
                ptr |-> h.ptr \cup {<<name, i>> : name \in ToSet(names)}]
<1> DEFINE B == {<<name, i>> : name \in ToSet(names)}
<1>1. ToSet(Blocks(names, i)) = B
  BY BlocksOf
<1>2. AfterPart(h, Blocks(names, i)) = [h EXCEPT !.live = @ \cup B, !.ptr = @ \cup B]
  BY <1>1 DEF AfterPart
<1> HIDE DEF B
<1>3. AfterPart(h, Blocks(names, i)) = [live |-> h.live \cup B, bad |-> h.bad, ptr |-> h.ptr \cup B]
  BY <1>2
<1> QED
  BY <1>3 DEF B

(* A part that is complete keeps the invariant.                             *)
LEMMA PartDoneBlocks ==
    ASSUME BlocksInv, module.pc = "loaded", NEW i \in Instances, NEW names, NEW next, NEW fields,
           IsInst(fields), next \notin {"new", "gone"}, ToSet(names) \subseteq FieldsBefore(next),
           Idle(i) => inst[i].pc = "new",
           ~Idle(i) => FieldsBefore(inst[i].pc) \subseteq FieldsBefore(next),
           PartDone(i, names, next, fields)
    PROVE  BlocksInv'
<1> DEFINE h == AfterPart(InstHeap(i), Blocks(names, i))
           f == [fields EXCEPT !.pc = next]
           B == {<<name, i>> : name \in ToSet(names)}
<1>1. SetInstHeap(i, h, f) /\ ModuleKept
  BY Kept DEF PartDone
<1>2. IsInst(f) /\ f.pc = next
  BY SetPc
<1>3. InstHeap(i) = [live |-> live, bad |-> {}, ptr |-> inst[i].ptr]
  BY DEF InstHeap, BlocksInv, ModuleInv
<1>4. h = [live |-> live \cup B, bad |-> {}, ptr |-> inst[i].ptr \cup B]
  <2> DEFINE g == InstHeap(i)
  <2>1. g = [live |-> g.live, bad |-> g.bad, ptr |-> g.ptr] /\ g.live = live /\ g.bad = {}
        /\ g.ptr = inst[i].ptr
    BY <1>3
  <2> HIDE DEF g
  <2>2. AfterPart(g, Blocks(names, i)) = [live |-> live \cup B, bad |-> {}, ptr |-> inst[i].ptr \cup B]
    BY <2>1, AfterPartIs
  <2> QED
    BY <2>2 DEF g
<1>5. B \subseteq {<<name, i>> : name \in FieldsBefore(f.pc)}
  BY <1>2
<1> HIDE DEF h, f, B
<1>6. h.live = live \cup B /\ h.ptr = inst[i].ptr \cup B /\ h.bad = {}
  BY <1>4
<1> QED
  BY <1>1, <1>2, <1>5, <1>6, DoneBlocks

(* A name under a condition.                                                *)
LEMMA NamesIs ==
    ASSUME NEW c, NEW n
    PROVE  IsSeq(Names(c, n)) /\ ToSet(Names(c, n)) \subseteq {n} /\ Len(Names(c, n)) \in {0, 1}
BY SeqSingle, SeqEmpty DEF Names

(* Nothing is before the first element.                                     *)
LEMMA PrefixNone ==
    ASSUME NEW s, IsSeq(s)
    PROVE  ToSet(SubSeq(s, 1, 0)) = {}
<1>1. 0 \in 0 .. Len(s)
  BY SeqDomain
<1>2. IsSeq(SubSeq(s, 1, 0)) /\ Len(SubSeq(s, 1, 0)) = 0
  BY <1>1, Prefix
<1> QED
  BY <1>2 DEF ToSet, IsSeq

(* Allocating an instance keeps the invariant.                              *)
LEMMA AllocBlocks ==
    ASSUME BlocksInv, NEW i \in Instances, AllocInstance(i)
    PROVE  BlocksInv'
<1>1. module.pc = "loaded" /\ inst[i].pc = "new" /\ Idle(i) /\ Held(i) = {}
  BY DEF AllocInstance, Idle, Held
<1>2. CASE PartDone(i, <<"inst">>, "globals", inst[i])
  <2>1. ToSet(<<"inst">>) \subseteq FieldsBefore("globals")
    BY SeqSingle DEF FieldsBefore
  <2> QED
    BY <1>1, <1>2, <2>1, ShapeOf, PartDoneBlocks
<1>3. CASE inst' = [inst EXCEPT ![i].pc = "gone"] /\ UNCHANGED <<binary, live, module, bad>>
  <2> DEFINE r == [inst[i] EXCEPT !.pc = "gone"]
  <2>1. inst' = [inst EXCEPT ![i] = r]
    BY <1>3
  <2>2. IsInst(r) /\ r.pc = "gone"
    BY ShapeOf, SetPc
  <2>3. ModuleKept /\ bad' = {} /\ live' = live
    BY <1>3, Kept DEF BlocksInv, ModuleInv
  <2> HIDE DEF r
  <2>4. live' = (live \ Held(i)) \cup (IF r.pc = "gone" THEN {} ELSE r.ptr)
    BY <1>1, <2>2, <2>3
  <2> QED
    BY <1>1, <2>1, <2>2, <2>3, <2>4, InstanceStep DEF IsInst
<1> QED
  BY <1>2, <1>3 DEF AllocInstance

(* An instance that is being made or in use has a module.                   *)
LEMMA Stage ==
    ASSUME BlocksInv, NEW i \in Instances, inst[i].pc \notin {"new", "gone"}
    PROVE  ~Idle(i) /\ module.pc = "loaded"
BY HeldFields DEF Idle

(* Making the globals keeps the invariant.                                  *)
LEMMA GlobalsBlocks ==
    ASSUME BlocksInv, NEW i \in Instances, globals_instantiate(i)
    PROVE  BlocksInv'
<1> DEFINE names == Names(Total("global") > 0, "globals")
           ok == \A k \in 1 .. Count("global") :
                     binary.global[k].op = "get" => check_global_init_expr(binary.global[k].arg)
           f == [inst[i] EXCEPT !.global = InitialGlobals]
<1>1. inst[i].pc = "globals" /\ ~Idle(i) /\ module.pc = "loaded"
  BY Stage DEF globals_instantiate
<1>2. IsSeq(names) /\ ToSet(names) \subseteq {"globals"}
  BY NamesIs
<1>3. IsInst(f)
  <2>1. PICK r, v : r = inst[i] /\ v = InitialGlobals
    OBVIOUS
  <2>2. IsInst(r) /\ f = [r EXCEPT !.global = v]
    BY <2>1, ShapeOf
  <2> HIDE DEF f
  <2>3. IsInst(f) /\ f.global = v
    BY ONLY <2>2, SetGlobal
  <2> QED
    BY ONLY <2>1, <2>3
<1>4. \/ PartDone(i, names, "memories", f)
      \/ PartFails(i, names, {"globals"}, ~ok) /\ (~ok) \in BOOLEAN
  BY DEF globals_instantiate
<1> HIDE DEF names, f, ok
<1>5. CASE PartDone(i, names, "memories", f)
  <2>1. ToSet(names) \subseteq FieldsBefore("memories")
        /\ FieldsBefore(inst[i].pc) \subseteq FieldsBefore("memories")
    BY <1>1, <1>2 DEF FieldsBefore
  <2> QED
    BY <1>1, <1>3, <1>5, <2>1, PartDoneBlocks
<1>6. CASE PartFails(i, names, {"globals"}, ~ok) /\ (~ok) \in BOOLEAN
  <2>1. UNCHANGED <<binary, module>>
    BY <1>6 DEF PartFails
  <2>2. {"globals"} \cap FieldsBefore(inst[i].pc) = {} /\ ToSet(names) \subseteq inst_fields
    BY <1>1, <1>2 DEF FieldsBefore, inst_fields
  <2>3. \A n \in 0 .. Len(names) : ToSet(SubSeq(names, 1, n)) \subseteq {"globals"} \cup {"wasi_ctx"}
    BY <1>2, Prefix
  <2> QED
    BY <1>1, <1>2, <1>6, <2>1, <2>2, <2>3, PartFailsBlocks
<1> QED
  BY <1>4, <1>5, <1>6

(* Making the memory keeps the invariant.                                   *)
LEMMA MemoriesBlocks ==
    ASSUME BlocksInv, NEW i \in Instances, memories_instantiate(i)
    PROVE  BlocksInv'
<1> DEFINE a == Names(MemorySize > 0, "memory_data")
           b == Names(MemorySize > 0 /\ binary.heap, "heap_handle")
           names == IF Total("memory") = 0 THEN << >> ELSE <<"memories">> \o a \o b
           undo == {"memories", "memory_data", "heap_handle"}
           f == [inst[i] EXCEPT !.memory = [m \in 1 .. MemorySize |-> 0]]
<1>1. inst[i].pc = "memories" /\ ~Idle(i) /\ module.pc = "loaded"
  BY Stage DEF memories_instantiate
<1>2. IsSeq(names) /\ ToSet(names) \subseteq undo
  <2>1. /\ IsSeq(a) /\ ToSet(a) \subseteq {"memory_data"}
        /\ IsSeq(b) /\ ToSet(b) \subseteq {"heap_handle"}
        /\ IsSeq(<<"memories">>) /\ ToSet(<<"memories">>) = {"memories"}
    BY NamesIs, SeqSingle
  <2> HIDE DEF a, b
  <2>2. IsSeq(<<"memories">> \o a)
        /\ ToSet(<<"memories">> \o a) = ToSet(<<"memories">>) \cup ToSet(a)
    BY <2>1, SeqConcat
  <2>3. IsSeq(<<"memories">> \o a \o b)
        /\ ToSet(<<"memories">> \o a \o b) = ToSet(<<"memories">> \o a) \cup ToSet(b)
    BY <2>1, <2>2, SeqConcat
  <2> QED
    BY <2>1, <2>2, <2>3, SeqEmpty
<1>3. IsInst(f)
  <2>1. PICK r, v : r = inst[i] /\ v = [m \in 1 .. MemorySize |-> 0]
    OBVIOUS
  <2>2. IsInst(r) /\ f = [r EXCEPT !.memory = v]
    BY <2>1, ShapeOf
  <2> HIDE DEF f
  <2>3. IsInst(f) /\ f.memory = v
    BY ONLY <2>2, SetMemory
  <2> QED
    BY ONLY <2>1, <2>3
<1>4. PartDone(i, names, "tables", f) \/ PartFails(i, names, undo, TRUE)
  BY DEF memories_instantiate
<1> HIDE DEF names, f
<1>5. CASE PartDone(i, names, "tables", f)
  <2>1. ToSet(names) \subseteq FieldsBefore("tables")
        /\ FieldsBefore(inst[i].pc) \subseteq FieldsBefore("tables")
    BY <1>1, <1>2 DEF FieldsBefore
  <2> QED
    BY <1>1, <1>3, <1>5, <2>1, PartDoneBlocks
<1>6. CASE PartFails(i, names, undo, TRUE)
  <2>1. UNCHANGED <<binary, module>>
    BY <1>6 DEF PartFails
  <2>2. undo \cap FieldsBefore(inst[i].pc) = {} /\ ToSet(names) \subseteq inst_fields
    BY <1>1, <1>2 DEF FieldsBefore, inst_fields
  <2>3. \A n \in 0 .. Len(names) : ToSet(SubSeq(names, 1, n)) \subseteq undo \cup {"wasi_ctx"}
    BY <1>2, Prefix
  <2> QED
    BY <1>1, <1>2, <1>6, <2>1, <2>2, <2>3, PartFailsBlocks
<1> QED
  BY <1>4, <1>5, <1>6

(* Making the table keeps the invariant.                                    *)
LEMMA TablesBlocks ==
    ASSUME BlocksInv, NEW i \in Instances, tables_instantiate(i)
    PROVE  BlocksInv'
<1> DEFINE names == Names(Total("table") > 0, "tables")
           f == [inst[i] EXCEPT !.table = [e \in 1 .. TableSize |-> NULL]]
<1>1. inst[i].pc = "tables" /\ ~Idle(i) /\ module.pc = "loaded"
  BY Stage DEF tables_instantiate
<1>2. IsSeq(names) /\ ToSet(names) \subseteq {"tables"} /\ Len(names) \in {0, 1}
  BY NamesIs
<1>3. IsInst(f)
  <2>1. PICK r, v : r = inst[i] /\ v = [e \in 1 .. TableSize |-> NULL]
    OBVIOUS
  <2>2. IsInst(r) /\ f = [r EXCEPT !.table = v]
    BY <2>1, ShapeOf
  <2> HIDE DEF f
  <2>3. IsInst(f) /\ f.table = v
    BY ONLY <2>2, SetTable
  <2> QED
    BY ONLY <2>1, <2>3
<1>4. PartDone(i, names, "functions", f) \/ PartFails(i, names, {}, FALSE)
  BY DEF tables_instantiate
<1> HIDE DEF names, f
<1>5. CASE PartDone(i, names, "functions", f)
  <2>1. ToSet(names) \subseteq FieldsBefore("functions")
        /\ FieldsBefore(inst[i].pc) \subseteq FieldsBefore("functions")
    BY <1>1, <1>2 DEF FieldsBefore
  <2> QED
    BY <1>1, <1>3, <1>5, <2>1, PartDoneBlocks
<1>6. CASE PartFails(i, names, {}, FALSE)
  <2>1. UNCHANGED <<binary, module>>
    BY <1>6 DEF PartFails
  <2>2. ToSet(names) \subseteq inst_fields
    BY <1>2 DEF inst_fields
  <2>3. ASSUME NEW n \in 0 .. Len(names), n < Len(names)
        PROVE  ToSet(SubSeq(names, 1, n)) \subseteq {} \cup {"wasi_ctx"}
    <3>1. n = 0
      <4> DEFINE N == Len(names)
      <4>1. N \in {0, 1} /\ n \in 0 .. N /\ n < N
        BY <1>2, <2>3
      <4> HIDE DEF N
      <4> QED
        BY <4>1
    <3> QED
      BY <1>2, <3>1, PrefixNone
  <2> QED
    BY <1>1, <1>2, <1>6, <2>1, <2>2, <2>3, PartFailsBlocks
<1> QED
  BY <1>4, <1>5, <1>6

(* Making the functions keeps the invariant.                                *)
LEMMA FunctionsBlocks ==
    ASSUME BlocksInv, NEW i \in Instances, functions_instantiate(i)
    PROVE  BlocksInv'
<1> DEFINE a == Names(Total("func") > 0, "functions")
           b == Names(ImportCount("func") > 0, "import_func_ptrs")
           names == a \o b
<1>1. inst[i].pc = "functions" /\ ~Idle(i) /\ module.pc = "loaded"
  BY Stage DEF functions_instantiate
<1>2. /\ IsSeq(a) /\ ToSet(a) \subseteq {"functions"} /\ Len(a) \in {0, 1}
      /\ IsSeq(b) /\ ToSet(b) \subseteq {"import_func_ptrs"} /\ Len(b) \in {0, 1}
  BY NamesIs
<1>3. PartDone(i, names, "exports", inst[i]) \/ PartFails(i, names, {"functions"}, FALSE)
  BY DEF functions_instantiate
<1> HIDE DEF a, b
<1>4. IsSeq(names) /\ ToSet(names) = ToSet(a) \cup ToSet(b) /\ Len(names) = Len(a) + Len(b)
  BY <1>2, SeqConcat
<1>5. Len(a) = 1 => names[1] = "functions"
  <2>1. ASSUME Len(a) = 1 PROVE names[1] = a[1] /\ a[1] \in ToSet(a)
    BY <1>2, <2>1, ConcatElements, SeqDomain
  <2> QED
    BY <1>2, <2>1
<1> HIDE DEF names
<1>6. CASE PartDone(i, names, "exports", inst[i])
  <2>1. ToSet(names) \subseteq FieldsBefore("exports")
        /\ FieldsBefore(inst[i].pc) \subseteq FieldsBefore("exports")
    BY <1>1, <1>2, <1>4 DEF FieldsBefore
  <2> QED
    BY <1>1, <1>6, <2>1, ShapeOf, PartDoneBlocks
<1>7. CASE PartFails(i, names, {"functions"}, FALSE)
  <2>1. UNCHANGED <<binary, module>>
    BY <1>7 DEF PartFails
  <2>2. {"functions"} \cap FieldsBefore(inst[i].pc) = {} /\ ToSet(names) \subseteq inst_fields
    BY <1>1, <1>2, <1>4 DEF FieldsBefore, inst_fields
  <2>3. ASSUME NEW n \in 0 .. Len(names), n < Len(names)
        PROVE  ToSet(SubSeq(names, 1, n)) \subseteq {"functions"} \cup {"wasi_ctx"}
    <3>1. n = 0 \/ (n = 1 /\ Len(a) = 1)
      <4> DEFINE N == Len(names)
                 A == Len(a)
                 B == Len(b)
      <4>1. A \in {0, 1} /\ B \in {0, 1} /\ N = A + B /\ n \in 0 .. N /\ n < N
        BY <1>2, <1>4, <2>3
      <4> HIDE DEF N, A, B
      <4>2. n = 0 \/ (n = 1 /\ A = 1)
        BY <4>1
      <4> QED
        BY <4>2 DEF A
    <3>2. CASE n = 0
      BY <1>4, <3>2, PrefixNone
    <3>3. CASE n = 1 /\ Len(a) = 1
      <4> DEFINE s == SubSeq(names, 1, n)
      <4>1. IsSeq(s) /\ Len(s) = 1 /\ \A k \in 1 .. n : s[k] = names[k]
        BY <1>4, <3>3, Prefix
      <4> HIDE DEF s
      <4>2. DOMAIN s = 1 .. 1 /\ s[1] = "functions"
        BY <1>5, <3>3, <4>1, SeqDomain
      <4>3. ToSet(s) = {"functions"}
        BY <4>2 DEF ToSet
      <4> QED
        BY <4>3 DEF s
    <3> QED
      BY <3>1, <3>2, <3>3
  <2> QED
    BY <1>1, <1>4, <1>7, <2>1, <2>2, <2>3, PartFailsBlocks
<1> QED
  BY <1>3, <1>6, <1>7

(* The heap of an instance.                                                 *)
LEMMA HeapOf ==
    ASSUME BlocksInv, NEW i \in Instances
    PROVE  InstHeap(i) = [live |-> live, bad |-> {}, ptr |-> inst[i].ptr]
BY DEF InstHeap, BlocksInv, ModuleInv

(* Steps that allocate nothing, and the end of an instance.                 *)
LEMMA StayBlocks ==
    ASSUME BlocksInv, ModuleKept, NEW i \in Instances, ~Idle(i), NEW fields, IsInst(fields),
           fields.pc \notin {"new", "gone"},
           FieldsBefore(inst[i].pc) \subseteq FieldsBefore(fields.pc),
           SetInstHeap(i, InstHeap(i), fields)
    PROVE  BlocksInv'
<1> DEFINE h == InstHeap(i)
<1>1. h.live = live \cup {} /\ h.ptr = inst[i].ptr \cup {} /\ h.bad = {}
  BY HeapOf
<1>2. module.pc = "loaded"
  BY HeldFields
<1>3. SetInstHeap(i, h, fields)
  OBVIOUS
<1> HIDE DEF h
<1>4. {} \subseteq {<<name, i>> : name \in FieldsBefore(fields.pc)}
  OBVIOUS
<1> QED
  BY <1>1, <1>2, <1>3, <1>4, DoneBlocks

(* Destroying an instance keeps the invariant.                              *)
LEMMA DestroyBlocks ==
    ASSUME BlocksInv, ModuleKept, NEW i \in Instances, ~Idle(i), Fails(i, InstHeap(i))
    PROVE  /\ BlocksInv'
           /\ \E p : inst' = [inst EXCEPT ![i] = [inst[i] EXCEPT !.pc = "gone", !.ptr = p]]
<1> DEFINE h == InstHeap(i)
<1>1. h = [live |-> live \cup {}, bad |-> {}, ptr |-> inst[i].ptr \cup {}]
  <2>1. live = live \cup {} /\ inst[i].ptr = inst[i].ptr \cup {}
    OBVIOUS
  <2> QED
    BY <2>1, HeapOf
<1>2. Fails(i, h) /\ {} \subseteq Fields(i)
  OBVIOUS
<1> HIDE DEF h
<1> QED
  BY <1>1, <1>2, FailsBlocks

(* An index that the loader has checked is used with no harm.               *)
LEMMA AccessOK == ASSUME NEW h, NEW ok, ok PROVE Accessed(h, ok) = h
BY DEF Accessed

(* A section that is counted is loaded.                                     *)
LEMMA CountOf == ASSUME NEW s, Count(s) # 0 PROVE s \in module.loaded /\ Count(s) = Len(binary[s])
BY DEF Count

(* An exported function is a function of the module.                        *)
LEMMA ExportsValid ==
    ASSUME binary \in Binary, LoadedInv, NEW f \in ExportedFunctions
    PROVE  f \in Nat /\ f < Total("func")
<1>1. Count("export") # 0
  BY DEF ExportedFunctions
<1>2. "export" \in module.loaded
  BY <1>1, CountOf
<1>3. PICK k \in DOMAIN binary.export : binary.export[k].kind = "func" /\ f = binary.export[k].index
  BY <1>1 DEF ExportedFunctions
<1>4. binary.export[k].index < Total(binary.export[k].kind)
  BY <1>2 DEF LoadedInv
<1> QED
  BY <1>3, <1>4, ElementTypes

(* An active data segment has a memory.                                     *)
LEMMA ActiveValid ==
    ASSUME binary \in Binary, LoadedInv, NEW k \in Active
    PROVE  k \in DOMAIN binary.data /\ binary.data[k].memory < Total("memory")
<1>1. k \in 1 .. Count("data") /\ ~binary.data[k].passive
  BY DEF Active
<1>2. Count("data") # 0
  BY <1>1
<1>3. "data" \in module.loaded /\ k \in DOMAIN binary.data
  BY <1>1, <1>2, CountOf, BinaryTypes
<1> QED
  BY <1>1, <1>3 DEF LoadedInv

(* A table segment has a table and functions of the module.                 *)
LEMMA ElemValid ==
    ASSUME binary \in Binary, LoadedInv, NEW k \in 1 .. Count("elem")
    PROVE  /\ k \in DOMAIN binary.elem /\ binary.elem[k].table < Total("table")
           /\ \A f \in DOMAIN binary.elem[k].funcs : binary.elem[k].funcs[f] < Total("func")
<1>1. Count("elem") # 0
  OBVIOUS
<1>2. "elem" \in module.loaded /\ k \in DOMAIN binary.elem
  BY <1>1, CountOf, BinaryTypes
<1> QED
  BY <1>2 DEF LoadedInv, check_table_index, check_function_index

(* Making the exports keeps the invariant.                                  *)
LEMMA ExportsBlocks ==
    ASSUME BlocksInv, LoadedInv, NEW i \in Instances, export_functions_instantiate(i)
    PROVE  BlocksInv'
<1> DEFINE h == Accessed(InstHeap(i), \A f \in ExportedFunctions : f < Total("func"))
           names == Names(ExportedFunctions # {}, "export_functions")
           f == [inst[i] EXCEPT !.pc = "data"]
           B == {<<name, i>> : name \in ToSet(names)}
<1>0. binary \in Binary
  BY InBinary DEF BlocksInv
<1>1. inst[i].pc = "exports" /\ ~Idle(i) /\ module.pc = "loaded"
  BY Stage DEF export_functions_instantiate
<1>2. IsSeq(names) /\ ToSet(names) \subseteq {"export_functions"} /\ Len(names) \in {0, 1}
  BY NamesIs
<1>3. h = InstHeap(i)
  <2>1. \A e \in ExportedFunctions : e < Total("func")
    BY <1>0, ExportsValid
  <2> QED
    BY <2>1, AccessOK
<1>4. IsInst(f) /\ f.pc = "data"
  BY ShapeOf, SetPc
<1>5. \/ SetInstHeap(i, AfterPart(h, Blocks(names, i)), f) /\ UNCHANGED <<binary, module>>
      \/ PartFails(i, names, {}, FALSE)
  BY DEF export_functions_instantiate
<1> HIDE DEF names, f, h
<1>6. CASE SetInstHeap(i, AfterPart(h, Blocks(names, i)), f) /\ UNCHANGED <<binary, module>>
  <2> DEFINE g == AfterPart(h, Blocks(names, i))
  <2>1. h = [live |-> live, bad |-> {}, ptr |-> inst[i].ptr]
    BY <1>3, HeapOf
  <2>2. g = [live |-> live \cup B, bad |-> {}, ptr |-> inst[i].ptr \cup B]
    <3>1. h = [live |-> h.live, bad |-> h.bad, ptr |-> h.ptr] /\ h.live = live /\ h.bad = {}
          /\ h.ptr = inst[i].ptr
      BY <2>1
    <3> QED
      BY <3>1, AfterPartIs
  <2>3. SetInstHeap(i, g, f) /\ ModuleKept
    BY <1>6, Kept
  <2>4. B \subseteq {<<name, i>> : name \in FieldsBefore(f.pc)}
        /\ FieldsBefore(inst[i].pc) \subseteq FieldsBefore(f.pc)
    BY <1>1, <1>2, <1>4 DEF FieldsBefore
  <2> HIDE DEF g, B
  <2>5. g.live = live \cup B /\ g.bad = {} /\ g.ptr = inst[i].ptr \cup B
    BY <2>2
  <2> QED
    BY <1>1, <1>4, <2>3, <2>4, <2>5, DoneBlocks
<1>7. CASE PartFails(i, names, {}, FALSE)
  <2>1. UNCHANGED <<binary, module>>
    BY <1>7 DEF PartFails
  <2>2. ToSet(names) \subseteq inst_fields
    BY <1>2 DEF inst_fields
  <2>3. ASSUME NEW n \in 0 .. Len(names), n < Len(names)
        PROVE  ToSet(SubSeq(names, 1, n)) \subseteq {} \cup {"wasi_ctx"}
    <3>1. n = 0
      <4> DEFINE N == Len(names)
      <4>1. N \in {0, 1} /\ n \in 0 .. N /\ n < N
        BY <1>2, <2>3
      <4> HIDE DEF N
      <4> QED
        BY <4>1
    <3> QED
      BY <1>2, <3>1, PrefixNone
  <2> QED
    BY <1>1, <1>2, <1>7, <2>1, <2>2, <2>3, PartFailsBlocks
<1> QED
  BY <1>5, <1>6, <1>7

DataStart(i) ==
    [ok |-> TRUE, array |-> inst[i].memory,
     offsets |-> [k \in DOMAIN binary.data |-> binary.data[k].arg]]

DataApplied(i) == AllApplied(i, DataStart(i), binary.data, Active, DataContents)

Used == IF Total("table") > 0 THEN 1 .. Count("elem") ELSE {}

ElemStart(i) == [ok |-> TRUE, array |-> inst[i].table, offsets |-> module.offsets]

ElemApplied(i) == AllApplied(i, ElemStart(i), binary.elem, Used, ElemContents)

(* The data segments are applied without a bad access.                      *)
LEMMA DataInitSteps ==
    ASSUME BlocksInv, LoadedInv, NEW i \in Instances, DataInit(i)
    PROVE  /\ inst[i].pc = "data" /\ ~Idle(i) /\ ModuleKept /\ UNCHANGED <<binary, module>>
           /\ \/ DataApplied(i).ok /\ SetInstHeap(i, InstHeap(i),
                     [inst[i] EXCEPT !.pc = "elem", !.memory = DataApplied(i).array])
              \/ Fails(i, InstHeap(i))
<1>1. \A k \in Active : binary.data[k].memory < Total("memory")
  BY InBinary, ActiveValid DEF BlocksInv
<1>2. Accessed(InstHeap(i), \A k \in Active : binary.data[k].memory < Total("memory")) = InstHeap(i)
  BY <1>1, AccessOK
<1>3. inst[i].pc = "data" /\ ~Idle(i) /\ ModuleKept /\ UNCHANGED <<binary, module>>
  BY Stage, Kept DEF DataInit
<1> QED
  BY <1>2, <1>3 DEF DataInit, DataApplied, DataStart

(* The table segments are applied without a bad access.                     *)
LEMMA ElemInitSteps ==
    ASSUME BlocksInv, LoadedInv, NEW i \in Instances, ElemInit(i)
    PROVE  /\ inst[i].pc = "elem" /\ ~Idle(i) /\ ModuleKept
           /\ module' = [module EXCEPT !.offsets = ElemApplied(i).offsets]
           /\ \/ ElemApplied(i).ok /\ SetInstHeap(i, InstHeap(i),
                     [inst[i] EXCEPT !.pc = "wasi", !.table = ElemApplied(i).array,
                      !.intact = \A k \in Used : module.offsets[k] = binary.elem[k].arg])
              \/ Fails(i, InstHeap(i))
<1>1. \A k \in Used : binary.elem[k].table < Total("table")
  BY InBinary, ElemValid DEF BlocksInv, Used
<1>2. Accessed(InstHeap(i), \A k \in Used : binary.elem[k].table < Total("table")) = InstHeap(i)
  BY <1>1, AccessOK
<1>3. inst[i].pc = "elem" /\ ~Idle(i) /\ binary' = binary
  BY Stage DEF ElemInit
<1>4. /\ module' = [module EXCEPT !.offsets = ElemApplied(i).offsets]
      /\ \/ ElemApplied(i).ok /\ SetInstHeap(i,
                Accessed(InstHeap(i), \A k \in Used : binary.elem[k].table < Total("table")),
                     [inst[i] EXCEPT !.pc = "wasi", !.table = ElemApplied(i).array,
                      !.intact = \A k \in Used : module.offsets[k] = binary.elem[k].arg])
         \/ Fails(i, Accessed(InstHeap(i), \A k \in Used : binary.elem[k].table < Total("table")))
  BY DEF ElemInit, ElemApplied, ElemStart, Used
<1>5. ModuleKept
  BY <1>3, <1>4 DEF ModuleKept, BlocksInv, ShapeInv
<1> QED
  BY <1>2, <1>3, <1>4, <1>5

(* An instance with another memory, at another stage.                       *)
LEMMA NewMemory ==
    ASSUME NEW r, IsInst(r), NEW pc, NEW v, NEW s, s = [r EXCEPT !.pc = pc, !.memory = v]
    PROVE  s = [pc |-> pc, ptr |-> r.ptr, global |-> r.global, memory |-> v,
                table |-> r.table, intact |-> r.intact]
BY DEF IsInst

(* An instance with another table, at another stage.                        *)
LEMMA NewTable ==
    ASSUME NEW r, IsInst(r), NEW pc, NEW v, NEW w,
           NEW s, s = [r EXCEPT !.pc = pc, !.table = v, !.intact = w]
    PROVE  s = [pc |-> pc, ptr |-> r.ptr, global |-> r.global, memory |-> r.memory,
                table |-> v, intact |-> w]
BY DEF IsInst

(* The same of an instance of the system.                                   *)
LEMMA WithMemory ==
    ASSUME BlocksInv, NEW i \in Instances, NEW pc, NEW v
    PROVE  /\ IsInst([inst[i] EXCEPT !.pc = pc, !.memory = v])
           /\ [inst[i] EXCEPT !.pc = pc, !.memory = v] =
                  [pc |-> pc, ptr |-> inst[i].ptr, global |-> inst[i].global, memory |-> v,
                   table |-> inst[i].table, intact |-> inst[i].intact]
<1>1. PICK r : r = inst[i] /\ IsInst(r)
  BY ShapeOf
<1>2. PICK s : s = [r EXCEPT !.pc = pc, !.memory = v]
  OBVIOUS
<1>3. s = [pc |-> pc, ptr |-> r.ptr, global |-> r.global, memory |-> v,
           table |-> r.table, intact |-> r.intact]
  BY <1>1, <1>2, NewMemory
<1>4. IsInst(s)
  BY <1>3 DEF IsInst
<1> QED
  BY <1>1, <1>2, <1>3, <1>4

(* The same of an instance of the system.                                   *)
LEMMA WithTable ==
    ASSUME BlocksInv, NEW i \in Instances, NEW pc, NEW v, NEW w
    PROVE  /\ IsInst([inst[i] EXCEPT !.pc = pc, !.table = v, !.intact = w])
           /\ [inst[i] EXCEPT !.pc = pc, !.table = v, !.intact = w] =
                  [pc |-> pc, ptr |-> inst[i].ptr, global |-> inst[i].global,
                   memory |-> inst[i].memory, table |-> v, intact |-> w]
<1>1. PICK r : r = inst[i] /\ IsInst(r)
  BY ShapeOf
<1>2. PICK s : s = [r EXCEPT !.pc = pc, !.table = v, !.intact = w]
  OBVIOUS
<1>3. s = [pc |-> pc, ptr |-> r.ptr, global |-> r.global, memory |-> r.memory,
           table |-> v, intact |-> w]
  BY <1>1, <1>2, NewTable
<1>4. IsInst(s)
  BY <1>3 DEF IsInst
<1> QED
  BY <1>1, <1>2, <1>3, <1>4

(* Applying the data segments keeps the invariant.                          *)
LEMMA DataBlocks ==
    ASSUME BlocksInv, LoadedInv, NEW i \in Instances, DataInit(i)
    PROVE  BlocksInv'
<1> DEFINE f == [inst[i] EXCEPT !.pc = "elem", !.memory = DataApplied(i).array]
<1>1. /\ inst[i].pc = "data" /\ ~Idle(i) /\ ModuleKept
      /\ SetInstHeap(i, InstHeap(i), f) \/ Fails(i, InstHeap(i))
  BY DataInitSteps
<1>2. IsInst(f) /\ f.pc = "elem"
  <2> DEFINE v == DataApplied(i).array
  <2>1. IsInst([inst[i] EXCEPT !.pc = "elem", !.memory = v])
        /\ [inst[i] EXCEPT !.pc = "elem", !.memory = v].pc = "elem"
    <3> HIDE DEF v
    <3> QED
      BY WithMemory
  <2> QED
    BY <2>1
<1> HIDE DEF f
<1>3. FieldsBefore(inst[i].pc) \subseteq FieldsBefore(f.pc)
  BY <1>1, <1>2 DEF FieldsBefore
<1> QED
  BY <1>1, <1>2, <1>3, StayBlocks, DestroyBlocks

(* Applying the table segments keeps the invariant.                         *)
LEMMA ElemBlocks ==
    ASSUME BlocksInv, LoadedInv, NEW i \in Instances, ElemInit(i)
    PROVE  BlocksInv'
<1> DEFINE ok == \A k \in Used : module.offsets[k] = binary.elem[k].arg
           f == [inst[i] EXCEPT !.pc = "wasi", !.table = ElemApplied(i).array, !.intact = ok]
<1>1. /\ inst[i].pc = "elem" /\ ~Idle(i) /\ ModuleKept
      /\ SetInstHeap(i, InstHeap(i), f) \/ Fails(i, InstHeap(i))
  BY ElemInitSteps
<1>2. IsInst(f) /\ f.pc = "wasi"
  <2> DEFINE v == ElemApplied(i).array
  <2>1. IsInst([inst[i] EXCEPT !.pc = "wasi", !.table = v, !.intact = ok])
        /\ [inst[i] EXCEPT !.pc = "wasi", !.table = v, !.intact = ok].pc = "wasi"
    <3> HIDE DEF v, ok
    <3> QED
      BY WithTable
  <2> QED
    BY <2>1
<1> HIDE DEF f
<1>3. FieldsBefore(inst[i].pc) \subseteq FieldsBefore(f.pc)
  BY <1>1, <1>2 DEF FieldsBefore
<1> QED
  BY <1>1, <1>2, <1>3, StayBlocks, DestroyBlocks

(* Making the wasi context keeps the invariant.                             *)
LEMMA WasiBlocks ==
    ASSUME BlocksInv, NEW i \in Instances, InitWasi(i)
    PROVE  BlocksInv'
<1> DEFINE names == IF i = Main THEN <<"wasi_ctx">> \o wasi_fields ELSE << >>
           undo == ToSet(wasi_fields)
<1>1. inst[i].pc = "wasi" /\ ~Idle(i) /\ module.pc = "loaded"
  BY Stage DEF InitWasi
<1>2. IsSeq(names) /\ ToSet(names) \subseteq undo \cup {"wasi_ctx"}
  <2>1. /\ IsSeq(wasi_fields) /\ IsSeq(<<"wasi_ctx">>) /\ ToSet(<<"wasi_ctx">>) = {"wasi_ctx"}
        /\ IsSeq(<< >>) /\ ToSet(<< >>) = {}
    BY WasiFields, SeqSingle, SeqEmpty
  <2>2. /\ IsSeq(<<"wasi_ctx">> \o wasi_fields)
        /\ ToSet(<<"wasi_ctx">> \o wasi_fields) = {"wasi_ctx"} \cup ToSet(wasi_fields)
    BY <2>1, SeqConcat
  <2> QED
    BY <2>1, <2>2
<1>3. PartDone(i, names, "start", inst[i]) \/ PartFails(i, names, undo, TRUE)
  BY DEF InitWasi
<1>4. undo \cup {"wasi_ctx"} \subseteq inst_fields
  BY DEF inst_fields
<1>5. undo \cap FieldsBefore("wasi") = {} /\ "wasi_ctx" \notin undo
  BY WasiFields DEF FieldsBefore
<1>6. FieldsBefore("start") = inst_fields /\ FieldsBefore("wasi") \subseteq inst_fields
  BY FieldsOf DEF FieldsBefore
<1> HIDE DEF names, undo
<1>7. CASE PartDone(i, names, "start", inst[i])
  <2>1. ToSet(names) \subseteq FieldsBefore("start")
        /\ FieldsBefore(inst[i].pc) \subseteq FieldsBefore("start")
    BY <1>1, <1>2, <1>4, <1>6
  <2> QED
    BY <1>1, <1>7, <2>1, ShapeOf, PartDoneBlocks
<1>8. CASE PartFails(i, names, undo, TRUE)
  <2>1. UNCHANGED <<binary, module>>
    BY <1>8 DEF PartFails
  <2>2. undo \cap FieldsBefore(inst[i].pc) = {} /\ ToSet(names) \subseteq inst_fields
    BY <1>1, <1>2, <1>4, <1>5
  <2>3. \A n \in 0 .. Len(names) : ToSet(SubSeq(names, 1, n)) \subseteq undo \cup {"wasi_ctx"}
    BY <1>2, Prefix
  <2> QED
    BY <1>1, <1>2, <1>5, <1>8, <2>1, <2>2, <2>3, PartFailsBlocks
<1> QED
  BY <1>3, <1>7, <1>8

(* The start function is one of the module.                                 *)
LEMMA StartSteps ==
    ASSUME BlocksInv, LoadedInv, NEW i \in Instances, RunStart(i)
    PROVE  /\ inst[i].pc = "start" /\ ~Idle(i) /\ ModuleKept /\ UNCHANGED <<binary, module>>
           /\ SetInstHeap(i, InstHeap(i), [inst[i] EXCEPT !.pc = "live"]) \/ Fails(i, InstHeap(i))
<1>1. "start" \in module.loaded => binary.start < Total("func")
  BY DEF LoadedInv
<1>2. Accessed(InstHeap(i), "start" \in module.loaded => binary.start < Total("func")) = InstHeap(i)
  BY <1>1, AccessOK
<1>3. inst[i].pc = "start" /\ ~Idle(i) /\ ModuleKept /\ UNCHANGED <<binary, module>>
  BY Stage, Kept DEF RunStart
<1> QED
  BY <1>2, <1>3 DEF RunStart

(* Running the start function keeps the invariant.                          *)
LEMMA StartBlocks ==
    ASSUME BlocksInv, LoadedInv, NEW i \in Instances, RunStart(i)
    PROVE  BlocksInv'
<1> DEFINE f == [inst[i] EXCEPT !.pc = "live"]
<1>1. /\ inst[i].pc = "start" /\ ~Idle(i) /\ ModuleKept
      /\ SetInstHeap(i, InstHeap(i), f) \/ Fails(i, InstHeap(i))
  BY StartSteps
<1>2. IsInst(f) /\ f.pc = "live"
  BY ShapeOf, SetPc
<1> HIDE DEF f
<1>3. FieldsBefore(inst[i].pc) \subseteq FieldsBefore(f.pc)
  BY <1>1, <1>2 DEF FieldsBefore
<1> QED
  BY <1>1, <1>2, <1>3, StayBlocks, DestroyBlocks

(* Destroying an instance in use keeps the invariant.                       *)
LEMMA DeinstantiateBlocks ==
    ASSUME BlocksInv, NEW i \in Instances, Deinstantiate(i)
    PROVE  BlocksInv'
<1>1. inst[i].pc = "live" /\ ~Idle(i) /\ ModuleKept /\ Fails(i, InstHeap(i))
  BY Stage, Kept DEF Deinstantiate
<1> QED
  BY <1>1, DestroyBlocks

-----------------------------------------------------------------------------
(* What the loader has checked stays true.                                  *)

(* The numbers of functions, tables, memories and globals.                  *)
LEMMA Lengths ==
    ASSUME binary \in Binary, NEW k \in {"func", "table", "memory", "global"}
    PROVE  Len(binary[k]) \in Nat /\ Len(binary.import[k]) \in Nat
<1> DEFINE LenOK(x) == Len(x) \in Nat
<1>1. LenOK(binary.func) /\ LenOK(binary.table) /\ LenOK(binary.memory) /\ LenOK(binary.global)
  <2>0. ASSUME NEW S, NEW x \in Seq(S) PROVE LenOK(x)
    OBVIOUS
  <2> HIDE DEF LenOK
  <2> QED
    BY BinaryTypes, <2>0
<1>2. /\ LenOK(binary.import.func) /\ LenOK(binary.import.table)
      /\ LenOK(binary.import.memory) /\ LenOK(binary.import.global)
  <2>0. ASSUME NEW S, NEW x \in Seq(S) PROVE LenOK(x)
    OBVIOUS
  <2> HIDE DEF LenOK
  <2> QED
    BY ImportTypes, <2>0
<1>3. CASE k = "func"
  BY <1>1, <1>2, <1>3
<1>4. CASE k = "table"
  BY <1>1, <1>2, <1>4
<1>5. CASE k = "memory"
  BY <1>1, <1>2, <1>5
<1>6. CASE k = "global"
  BY <1>1, <1>2, <1>6
<1> QED
  BY <1>3, <1>4, <1>5, <1>6

(* Each of them grows with the sections that are loaded.                    *)
LEMMA TotalGrows ==
    ASSUME binary \in Binary, binary' = binary, module.loaded \subseteq module'.loaded,
           NEW k \in {"func", "table", "memory", "global"}
    PROVE  Total(k) \in Nat /\ Total(k)' \in Nat /\ Total(k) =< Total(k)'
<1> DEFINE A == Len(binary[k])
           B == Len(binary.import[k])
<1>1. A \in Nat /\ B \in Nat
  BY Lengths
<1>2. /\ Total(k) = (IF "import" \in module.loaded THEN B ELSE 0) + (IF k \in module.loaded THEN A ELSE 0)
      /\ Total(k)' = (IF "import" \in module'.loaded THEN B ELSE 0)
                        + (IF k \in module'.loaded THEN A ELSE 0)
  BY DEF Total, Count, ImportCount
<1> HIDE DEF A, B
<1> QED
  BY <1>1, <1>2

(* One more section is loaded, and what its loader has checked holds.       *)
LEMMA LoadedStep ==
    ASSUME binary \in Binary, LoadedInv, binary' = binary, module.loaded \subseteq module'.loaded,
           NEW s, module'.loaded \subseteq module.loaded \cup {s},
           s = "export" => \A k \in DOMAIN binary.export :
               binary.export[k].index < Total(binary.export[k].kind),
           s = "start" => binary.start < Total("func"),
           s = "elem" => \A k \in DOMAIN binary.elem :
               /\ check_table_index(binary.elem[k].table)
               /\ \A f \in DOMAIN binary.elem[k].funcs : check_function_index(binary.elem[k].funcs[f]),
           s = "data" => \A k \in DOMAIN binary.data :
               binary.data[k].passive \/ binary.data[k].memory < Total("memory")
    PROVE  LoadedInv'
<1>1. ASSUME NEW k \in {"func", "table", "memory", "global"}, NEW n \in Nat, n < Total(k)
      PROVE  n < Total(k)'
  BY <1>1, TotalGrows
<1>2. ASSUME "export" \in module'.loaded, NEW k \in DOMAIN binary.export
      PROVE  binary.export[k].index < Total(binary.export[k].kind)'
  <2>1. binary.export[k].index < Total(binary.export[k].kind)
    BY <1>2 DEF LoadedInv
  <2> QED
    BY <2>1, <1>1, ElementTypes
<1>3. ASSUME "start" \in module'.loaded PROVE binary.start < Total("func")'
  <2>1. binary.start < Total("func")
    BY <1>3 DEF LoadedInv
  <2> QED
    BY <2>1, <1>1, BinaryTypes
<1>4. ASSUME "elem" \in module'.loaded, NEW k \in DOMAIN binary.elem
      PROVE  /\ binary.elem[k].table = 0 /\ binary.elem[k].table < Total("table")'
             /\ \A f \in DOMAIN binary.elem[k].funcs : binary.elem[k].funcs[f] < Total("func")'
  <2>1. /\ binary.elem[k].table = 0 /\ binary.elem[k].table < Total("table")
        /\ \A f \in DOMAIN binary.elem[k].funcs : binary.elem[k].funcs[f] < Total("func")
    BY <1>4 DEF LoadedInv, check_table_index, check_function_index
  <2>2. ASSUME NEW f \in DOMAIN binary.elem[k].funcs PROVE binary.elem[k].funcs[f] \in Nat
    BY ElementTypes, SeqElement
  <2> QED
    BY <2>1, <2>2, <1>1
<1>5. ASSUME "data" \in module'.loaded, NEW k \in DOMAIN binary.data
      PROVE  binary.data[k].passive \/ binary.data[k].memory < Total("memory")'
  <2>1. binary.data[k].passive \/ binary.data[k].memory < Total("memory")
    BY <1>5 DEF LoadedInv
  <2> QED
    BY <2>1, <1>1, ElementTypes
<1> QED
  BY <1>2, <1>3, <1>4, <1>5 DEF LoadedInv, check_table_index, check_function_index

(* What has been checked of the sections stays so,                          *)
LEMMA LoadedKept ==
    ASSUME BlocksInv, LoadedInv, binary' = binary, module'.loaded = module.loaded
    PROVE  LoadedInv'
<1>1. binary \in Binary
  BY InBinary DEF BlocksInv
<1>2. module.loaded \subseteq module'.loaded /\ module'.loaded \subseteq module.loaded \cup {"user"}
  OBVIOUS
<1> QED
  BY <1>1, <1>2, LoadedStep

(* and nothing is said before the first section.                            *)
LEMMA LoadedNone == ASSUME module'.loaded = {} PROVE LoadedInv'
BY DEF LoadedInv

(* A step of the module that fails keeps what has been loaded.              *)
LEMMA LoadFailKeeps ==
    ASSUME BlocksInv, NEW steps, LoadFails(steps)
    PROVE  binary' = binary /\ module'.loaded = module.loaded
<1>1. PICK n \in 0 .. Reach(steps) :
          SetModuleHeap(
              wasm_loader_unload(destroy_sections(AfterSteps(ModuleHeap, SubSeq(steps, 1, n)))),
              "gone", module.next, module.loaded)
  BY DEF LoadFails
<1>2. PICK h : SetModuleHeap(h, "gone", module.next, module.loaded)
  BY <1>1
<1> QED
  BY <1>2, SetModule DEF BlocksInv

(* The sections that are loaded after a step of the module.                 *)
LEMMA SetLoaded ==
    ASSUME BlocksInv, NEW h, NEW pc, NEW next, NEW loaded, SetModuleHeap(h, pc, next, loaded)
    PROVE  binary' = binary /\ module'.loaded = loaded
BY SetModule DEF BlocksInv

(* What a section's loader has checked when it succeeds.                    *)
LEMMA SectionChecks ==
    ASSUME binary \in Binary, NEW s, Succeeds(LoadSteps(s)), IsSeq(LoadSteps(s))
    PROVE  /\ s = "export" => \A k \in DOMAIN binary.export :
                binary.export[k].index < Total(binary.export[k].kind)
           /\ s = "start" => binary.start < Total("func")
           /\ s = "elem" => \A k \in DOMAIN binary.elem :
                /\ check_table_index(binary.elem[k].table)
                /\ \A f \in DOMAIN binary.elem[k].funcs :
                      check_function_index(binary.elem[k].funcs[f])
           /\ s = "data" => \A k \in DOMAIN binary.data :
                binary.data[k].passive \/ binary.data[k].memory < Total("memory")
<1>1. ASSUME s = "export", NEW k \in DOMAIN binary.export
      PROVE  binary.export[k].index < Total(binary.export[k].kind)
  <2>1. LoadSteps(s) = load_export_section
    BY <1>1 DEF LoadSteps
  <2>2. Check(binary.export[k].index < Total(binary.export[k].kind)) \in ToSet(load_export_section)
    BY ExportPlain
  <2> DEFINE ok == binary.export[k].index < Total(binary.export[k].kind)
  <2>3. Check(ok) \in ToSet(LoadSteps(s))
    BY <2>1, <2>2
  <2> HIDE DEF ok
  <2>4. ok
    BY <2>3, ChecksHold
  <2> QED
    BY <2>4 DEF ok
<1>2. ASSUME s = "start" PROVE binary.start < Total("func")
  <2>1. LoadSteps(s) = load_start_section
    BY <1>2 DEF LoadSteps
  <2> DEFINE ok == binary.start < Total("func")
  <2>3. Check(ok) \in ToSet(LoadSteps(s))
    BY <2>1, StartPlain
  <2> HIDE DEF ok
  <2>4. ok
    BY <2>3, ChecksHold
  <2> QED
    BY <2>4 DEF ok
<1>3. ASSUME s = "elem", NEW k \in DOMAIN binary.elem
      PROVE  /\ check_table_index(binary.elem[k].table)
             /\ \A f \in DOMAIN binary.elem[k].funcs :
                   check_function_index(binary.elem[k].funcs[f])
  <2>1. LoadSteps(s) = load_table_segment_section
    BY <1>3 DEF LoadSteps
  <2>2. check_table_index(binary.elem[k].table)
    <3>1. Check(check_table_index(binary.elem[k].table)) \in ToSet(load_table_segment_section)
      BY ElemPlain
    <3> QED
      BY <2>1, <3>1, ChecksHold
  <2>3. ASSUME NEW f \in DOMAIN binary.elem[k].funcs
        PROVE  check_function_index(binary.elem[k].funcs[f])
    <3>1. Check(check_function_index(binary.elem[k].funcs[f]))
              \in ToSet(load_table_segment_section)
      BY ElemPlain
    <3> QED
      BY <2>1, <3>1, ChecksHold
  <2> QED
    BY <2>2, <2>3
<1>4. ASSUME s = "data", NEW k \in DOMAIN binary.data
      PROVE  binary.data[k].passive \/ binary.data[k].memory < Total("memory")
  <2>1. LoadSteps(s) = load_data_segment_section
    BY <1>4 DEF LoadSteps
  <2>2. Check(binary.data[k].passive \/ binary.data[k].memory < Total("memory"))
            \in ToSet(load_data_segment_section)
    BY DataPlain
  <2> QED
    BY <2>1, <2>2, ChecksHold
<1> QED
  BY <1>1, <1>2, <1>3, <1>4

(* Loading a section checks what LoadedInv says of it.                      *)
LEMMA LoadSectionLoaded == ASSUME BlocksInv, LoadedInv, LoadSection PROVE LoadedInv'
<1> DEFINE s == binary.order[module.next]
           steps == LoadSteps(s)
<1>0. binary \in Binary
  BY InBinary DEF BlocksInv
<1>1. CASE LoadStep(steps, "load", module.next + 1, module.loaded \cup {s})
  <2>1. Succeeds(steps)
    BY <1>1 DEF LoadStep
  <2>2. IsSeq(steps)
    <3>1. /\ module.pc = "load" /\ HeapOK(ModuleHeap) /\ ModuleHeap.types = module.types
          /\ module.next \in 1 .. Len(binary.order) + 1 /\ module.next =< Len(binary.order)
          /\ module.loaded = {binary.order[k] : k \in 1 .. module.next - 1}
          /\ Distinct
      BY LoadingHeap DEF LoadSection, BlocksInv, OrderInv
    <3>2. Len(binary.order) \in Nat /\ DOMAIN binary.order = 1 .. Len(binary.order)
      BY <1>0, BinaryTypes
    <3>3. s = "type" => "type" \notin module.loaded
      <4>1. SUFFICES ASSUME s = "type", "type" \in module.loaded PROVE FALSE
        OBVIOUS
      <4>2. PICK k \in 1 .. module.next - 1 : binary.order[k] = "type"
        BY <3>1, <4>1
      <4>3. k \in DOMAIN binary.order /\ module.next \in DOMAIN binary.order /\ k # module.next
        BY <3>1, <3>2
      <4> QED
        BY <3>1, <4>1, <4>2, <4>3 DEF Distinct
    <3>4. "type" \notin module.loaded => \A l \in DOMAIN binary.type : module.types[l] = 0
      BY <3>1 DEF BlocksInv, ModuleInv
    <3> HIDE DEF s
    <3> QED
      BY <1>0, <3>1, <3>3, <3>4, SectionLoads
  <2>3. binary' = binary /\ module'.loaded = module.loaded \cup {s}
    <3>1. PICK h : SetModuleHeap(h, "load", module.next + 1, module.loaded \cup {s})
      BY <1>1 DEF LoadStep
    <3> HIDE DEF s
    <3> QED
      BY <3>1, SetLoaded
  <2> HIDE DEF s
  <2>4. /\ s = "export" => \A k \in DOMAIN binary.export :
              binary.export[k].index < Total(binary.export[k].kind)
        /\ s = "start" => binary.start < Total("func")
        /\ s = "elem" => \A k \in DOMAIN binary.elem :
              /\ check_table_index(binary.elem[k].table)
              /\ \A f \in DOMAIN binary.elem[k].funcs :
                    check_function_index(binary.elem[k].funcs[f])
        /\ s = "data" => \A k \in DOMAIN binary.data :
              binary.data[k].passive \/ binary.data[k].memory < Total("memory")
    BY <1>0, <2>1, <2>2, SectionChecks
  <2>5. module.loaded \subseteq module'.loaded /\ module'.loaded \subseteq module.loaded \cup {s}
    BY <2>3
  <2> QED
    BY <1>0, <2>3, <2>4, <2>5, LoadedStep
<1>2. CASE LoadFails(steps)
  <2> HIDE DEF steps
  <2> QED
    BY <1>2, LoadFailKeeps, LoadedKept
<1> QED
  BY <1>1, <1>2 DEF LoadSection

(* Creating the module keeps what has been checked.                         *)
LEMMA CreateModuleLoaded == ASSUME BlocksInv, LoadedInv, create_module PROVE LoadedInv'
<1> DEFINE pc == IF binary.from_buf THEN "sections" ELSE "load"
<1>1. \E h, c : SetModuleHeap(h, c, 1, {})
               \/ SetModuleHeap(h, c, 1, module.loaded)
  BY DEF create_module, LoadStep
<1> QED
  BY <1>1, SetLoaded, LoadedNone, LoadedKept

(* Creating the sections keeps what has been checked.                       *)
LEMMA CreateSectionsLoaded == ASSUME BlocksInv, LoadedInv, CreateSections PROVE LoadedInv'
<1>1. CASE LoadStep(create_sections, "load", 1, {})
  BY <1>1, SetLoaded, LoadedNone DEF LoadStep
<1>2. CASE LoadFails(create_sections)
  BY <1>2, LoadFailKeeps, LoadedKept
<1> QED
  BY <1>1, <1>2 DEF CreateSections

(* Preparing the bodies keeps what has been checked.                        *)
LEMMA FinishLoadLoaded == ASSUME BlocksInv, LoadedInv, FinishLoad PROVE LoadedInv'
<1>1. \/ \E h : SetModuleHeap(h, "loaded", module.next, module.loaded)
      \/ \E steps : LoadFails(steps)
  BY DEF FinishLoad
<1> QED
  BY <1>1, SetLoaded, LoadFailKeeps, LoadedKept

(* Unloading the module keeps what has been checked.                        *)
LEMMA UnloadLoaded == ASSUME BlocksInv, LoadedInv, Unload PROVE LoadedInv'
BY SetLoaded, LoadedKept DEF Unload

(* A step of an instance keeps what has been checked.                       *)
LEMMA KeptLoaded == ASSUME BlocksInv, LoadedInv, ModuleKept PROVE LoadedInv'
<1>1. binary' = binary /\ module'.loaded = module.loaded
  BY DEF ModuleKept, BlocksInv, ShapeInv
<1> QED
  BY <1>1, LoadedKept

-----------------------------------------------------------------------------
(* The invariant of the blocks and of what is loaded.                       *)

LoadInv == BlocksInv /\ LoadedInv

(* The invariant holds at first.                                            *)
LEMMA InitLoad == Init => LoadInv
<1> SUFFICES ASSUME Init PROVE LoadInv
  OBVIOUS
<1>1. binary \in Binaries /\ binary \in Binary /\ live = {} /\ bad = {}
  BY BinariesAssumption DEF Init
<1>2. /\ module.pc = "new" /\ module.next = 1 /\ module.loaded = {} /\ module.ptr = {}
      /\ module.types = [i \in DOMAIN binary.type |-> 0]
      /\ module.ref = [i \in DOMAIN binary.type |-> 0]
  BY DEF Init
<1>3. \A i \in Instances : inst[i].pc = "new" /\ inst[i].ptr = {}
  BY DEF Init
<1>4. ShapeInv
  BY <1>1 DEF Init, ShapeInv
<1>5. OrderInv
  <2>1. Len(binary.order) \in Nat
    BY <1>1, BinaryTypes
  <2> QED
    BY <1>2, <2>1 DEF OrderInv
<1>6. ModuleInv
  <2>1. Len(binary.type) \in Nat
    BY <1>1, BinaryTypes
  <2>2. TypesOK(module.types, module.ref)
    BY <1>2, <2>1 DEF TypesOK
  <2>3. \A l \in DOMAIN binary.type : module.types[l] = 0
    BY <1>2
  <2>4. TypeBlocks(module.types) = {}
    BY <1>2 DEF TypeBlocks
  <2>5. \A i \in Instances : Idle(i)
    BY <1>3 DEF Idle
  <2> QED
    BY <1>1, <1>2, <2>2, <2>3, <2>4, <2>5 DEF ModuleInv
<1>7. InstanceInv
  BY <1>3 DEF InstanceInv, Idle
<1>8. LoadedInv
  BY <1>2 DEF LoadedInv
<1> QED
  BY <1>4, <1>5, <1>6, <1>7, <1>8 DEF LoadInv, BlocksInv

(* A step that changes nothing keeps it.                                    *)
LEMMA StutterLoad == ASSUME LoadInv, UNCHANGED vars PROVE LoadInv'
<1>1. /\ binary' = binary /\ live' = live /\ module' = module /\ inst' = inst /\ bad' = bad
  BY DEF vars
<1>2. TypesOK(module.types, module.ref)' = TypesOK(module.types, module.ref)
  BY <1>1 DEF TypesOK
<1>3. ShapeInv' /\ OrderInv'
  BY <1>1 DEF LoadInv, BlocksInv, ShapeInv, OrderInv, Distinct
<1>4. ModuleInv'
  BY <1>1, <1>2 DEF LoadInv, BlocksInv, ModuleInv, ModulePtr, ModuleBlocks, SectionBlocks,
                    InstanceBlocks, Idle
<1>5. InstanceInv'
  BY <1>1 DEF LoadInv, BlocksInv, InstanceInv, Idle
<1>6. LoadedInv'
  BY <1>1, LoadedKept DEF LoadInv
<1> QED
  BY <1>3, <1>4, <1>5, <1>6 DEF LoadInv, BlocksInv

(* A step of an instance that keeps the module keeps what has been checked. *)
LEMMA KeptInstance ==
    ASSUME LoadInv, UNCHANGED <<binary, module>>
    PROVE  LoadedInv'
BY Kept, KeptLoaded DEF LoadInv

(* A step of an instance keeps the invariant.                               *)
LEMMA InstanceLoad ==
    ASSUME LoadInv, NEW i \in Instances,
           \/ AllocInstance(i) \/ globals_instantiate(i) \/ memories_instantiate(i)
           \/ tables_instantiate(i) \/ functions_instantiate(i)
           \/ export_functions_instantiate(i)
           \/ DataInit(i) \/ ElemInit(i) \/ InitWasi(i) \/ RunStart(i) \/ Deinstantiate(i)
    PROVE  LoadInv'
<1>1. CASE AllocInstance(i)
  <2>1. UNCHANGED <<binary, module>>
    BY <1>1 DEF AllocInstance, PartDone
  <2> QED
    BY <1>1, <2>1, AllocBlocks, KeptInstance DEF LoadInv
<1>2. CASE globals_instantiate(i)
  <2>1. UNCHANGED <<binary, module>>
    BY <1>2 DEF globals_instantiate, PartDone, PartFails
  <2> QED
    BY <1>2, <2>1, GlobalsBlocks, KeptInstance DEF LoadInv
<1>3. CASE memories_instantiate(i)
  <2>1. UNCHANGED <<binary, module>>
    BY <1>3 DEF memories_instantiate, PartDone, PartFails
  <2> QED
    BY <1>3, <2>1, MemoriesBlocks, KeptInstance DEF LoadInv
<1>4. CASE tables_instantiate(i)
  <2>1. UNCHANGED <<binary, module>>
    BY <1>4 DEF tables_instantiate, PartDone, PartFails
  <2> QED
    BY <1>4, <2>1, TablesBlocks, KeptInstance DEF LoadInv
<1>5. CASE functions_instantiate(i)
  <2>1. UNCHANGED <<binary, module>>
    BY <1>5 DEF functions_instantiate, PartDone, PartFails
  <2> QED
    BY <1>5, <2>1, FunctionsBlocks, KeptInstance DEF LoadInv
<1>6. CASE export_functions_instantiate(i)
  <2>1. UNCHANGED <<binary, module>>
    BY <1>6 DEF export_functions_instantiate, PartFails
  <2> QED
    BY <1>6, <2>1, ExportsBlocks, KeptInstance DEF LoadInv
<1>7. CASE DataInit(i)
  BY <1>7, DataInitSteps, DataBlocks, KeptInstance DEF LoadInv
<1>8. CASE ElemInit(i)
  BY <1>8, ElemInitSteps, ElemBlocks, KeptLoaded DEF LoadInv
<1>9. CASE InitWasi(i)
  <2>1. UNCHANGED <<binary, module>>
    BY <1>9 DEF InitWasi, PartDone, PartFails
  <2> QED
    BY <1>9, <2>1, WasiBlocks, KeptInstance DEF LoadInv
<1>10. CASE RunStart(i)
  BY <1>10, StartSteps, StartBlocks, KeptInstance DEF LoadInv
<1>11. CASE Deinstantiate(i)
  <2>1. UNCHANGED <<binary, module>>
    BY <1>11 DEF Deinstantiate
  <2> QED
    BY <1>11, <2>1, DeinstantiateBlocks, KeptInstance DEF LoadInv
<1> QED
  BY <1>1, <1>2, <1>3, <1>4, <1>5, <1>6, <1>7, <1>8, <1>9, <1>10, <1>11

(* Every step keeps the invariant.                                          *)
LEMMA StepLoad == LoadInv /\ [Next]_vars => LoadInv'
<1> SUFFICES ASSUME LoadInv, [Next]_vars PROVE LoadInv'
  OBVIOUS
<1>1. CASE create_module
  BY <1>1, CreateModuleBlocks, CreateModuleLoaded DEF LoadInv
<1>2. CASE CreateSections
  BY <1>2, CreateSectionsBlocks, CreateSectionsLoaded DEF LoadInv
<1>3. CASE LoadSection
  BY <1>3, LoadSectionBlocks, LoadSectionLoaded DEF LoadInv
<1>4. CASE FinishLoad
  BY <1>4, FinishLoadBlocks, FinishLoadLoaded DEF LoadInv
<1>5. CASE Unload
  BY <1>5, UnloadBlocks, UnloadLoaded DEF LoadInv
<1>6. ASSUME NEW i \in Instances,
             \/ AllocInstance(i) \/ globals_instantiate(i) \/ memories_instantiate(i)
             \/ tables_instantiate(i) \/ functions_instantiate(i)
             \/ export_functions_instantiate(i)
             \/ DataInit(i) \/ ElemInit(i) \/ InitWasi(i) \/ RunStart(i) \/ Deinstantiate(i)
      PROVE  LoadInv'
  BY <1>6, InstanceLoad
<1>7. CASE UNCHANGED vars
  BY <1>7, StutterLoad
<1> QED
  BY <1>1, <1>2, <1>3, <1>4, <1>5, <1>6, <1>7 DEF Next, Ended

(* The invariant of the blocks and of what is loaded holds of every         *)
(* behaviour, for every set of binaries and of instances.                   *)
THEOREM LoadInvariant == Spec => []LoadInv
BY InitLoad, StepLoad, PTL DEF Spec

(* The invariant gives that nothing is leaked or freed twice.               *)
LEMMA LoadBlocks == LoadInv => BlocksExact
<1> SUFFICES ASSUME LoadInv PROVE BlocksExact
  OBVIOUS
<1>1. bad = {} /\ (module.pc = "gone" => live = {})
  BY DEF LoadInv, BlocksInv, ModuleInv
<1>2. \A types : \A b \in TypeBlocks(types) : b[1] # "section"
  BY DEF TypeBlocks
<1>3. ASSUME NEW b, ModulePtr(b), b[1] = "section" PROVE b \in SectionBlocks
  <2>1. \A name \in ModuleNames : b # <<name>>
    BY <1>3 DEF ModuleNames
  <2>2. b \notin ModuleBlocks
    BY <1>3, <2>1 DEF ModuleBlocks
  <2>3. \A n : b # <<"string", n>>
    BY <1>3
  <2> QED
    BY <1>3, <2>2, <2>3 DEF ModulePtr
<1>4. ASSUME NEW i, NEW b \in Fields(i) PROVE b[1] # "section"
  <2>1. PICK name \in inst_fields : b = <<name, i>>
    BY <1>4 DEF Fields
  <2>2. name # "section"
    BY WasiFields DEF inst_fields
  <2> QED
    BY <2>1, <2>2
<1>5. ASSUME module.pc # "load", NEW b \in live PROVE b[1] # "section"
  <2>1. module.pc \in {"new", "sections", "loaded", "gone"}
    BY <1>5 DEF LoadInv, BlocksInv, OrderInv
  <2>2. CASE module.pc = "new"
    BY <1>2, <1>5, <2>2 DEF LoadInv, BlocksInv, ModuleInv
  <2>3. CASE module.pc = "sections"
    <3>1. b = <<"module">> \/ b \in TypeBlocks(module.types)
      BY <1>5, <2>3 DEF LoadInv, BlocksInv, ModuleInv
    <3> QED
      BY <1>2, <3>1
  <2>4. CASE module.pc = "loaded"
    <3>1. CASE b \in module.ptr /\ b \notin SectionBlocks
      BY <1>3, <2>4, <3>1 DEF LoadInv, BlocksInv, ModuleInv
    <3>2. CASE b \in TypeBlocks(module.types)
      BY <1>2, <3>2
    <3>3. ASSUME NEW j \in Instances, b \in Held(j) PROVE b[1] # "section"
      BY <1>4, <3>3, HeldFields DEF LoadInv
    <3> QED
      BY <1>5, <2>4, <3>1, <3>2, <3>3, LiveIs DEF LoadInv
  <2>5. CASE module.pc = "gone"
    BY <1>1, <1>5, <2>5
  <2> QED
    BY <2>1, <2>2, <2>3, <2>4, <2>5
<1>6. ASSUME NEW i \in Instances, Idle(i), NEW b \in Fields(i), b \in live PROVE FALSE
  <2>1. CASE module.pc = "loaded"
    <3>1. b \in Held(i)
      BY <1>6, <2>1, LiveFields DEF LoadInv
    <3> QED
      BY <1>6, <3>1 DEF Held
  <2>2. CASE module.pc \in {"new", "sections", "load"}
    <3>1. b \in module.ptr \/ b \in TypeBlocks(module.types)
      BY <1>6, <2>2 DEF LoadInv, BlocksInv, ModuleInv
    <3>2. b \in module.ptr => ModulePtr(b)
      BY <2>2 DEF LoadInv, BlocksInv, ModuleInv
    <3> QED
      BY <1>6, <3>1, <3>2, FieldsApart
  <2>3. CASE module.pc = "gone"
    BY <1>1, <1>6, <2>3
  <2> QED
    BY <2>1, <2>2, <2>3 DEF LoadInv, BlocksInv, OrderInv
<1>7. \A i \in Instances : inst[i].pc \in {"new", "gone"} =>
          live \cap {<<name, i>> : name \in inst_fields} = {}
  BY <1>6 DEF Idle, Fields
<1> QED
  BY <1>1, <1>5, <1>7 DEF BlocksExact

(* Whatever fails in whatever order, no block is freed twice, and a module  *)
(* or an instance that is gone leaves nothing allocated.                    *)
THEOREM LoadBlocksExact == Spec => []BlocksExact
BY LoadInvariant, LoadBlocks, PTL

-----------------------------------------------------------------------------
(* The segments of a module.                                                *)

SegmentStep(i, x, n, segs, used, contents) ==
    IF n \notin used THEN x ELSE Applied(i, x, n, segs[n], contents[n])

(* The segments are applied one after the other.                            *)
LEMMA AllAppliedUnfold ==
    ASSUME NEW i, NEW s, NEW segs, NEW used, NEW contents, Len(segs) \in Nat
    PROVE  \E a : /\ a[0] = s
                  /\ \A n \in 0 .. (Len(segs) - 1) :
                        a[n + 1] = SegmentStep(i, a[n], n + 1, segs, used, contents)
                  /\ AllApplied(i, s, segs, used, contents) = a[Len(segs)]
<1> DEFINE N == Len(segs)
           F(x, n) == SegmentStep(i, x, n, segs, used, contents)
           G(u, k) == u = [n \in 0 .. k |-> IF n = 0 THEN s ELSE F(u[n - 1], n)]
           A == {k \in 0 .. N : \E u : G(u, k)}
<1>0. N \in Nat
  OBVIOUS
<1> HIDE DEF N, F
<1>1. 0 \in A
  <2>1. G([n \in 0 .. 0 |-> s], 0)
    OBVIOUS
  <2>2. 0 \in 0 .. N
    BY <1>0
  <2> QED
    BY <2>1, <2>2
<1>2. ASSUME NEW k \in 0 .. (N - 1), k \in A PROVE k + 1 \in A
  <2>1. PICK u : G(u, k)
    BY <1>2
  <2> DEFINE x == F(u[k], k + 1)
             v == [n \in 0 .. (k + 1) |-> IF n = k + 1 THEN x ELSE u[n]]
  <2>2. v = [n \in 0 .. (k + 1) |-> v[n]] /\ v[0] = s
    BY <2>1
  <2>3. \A n \in 1 .. k : u[n] = F(u[n - 1], n)
    BY <2>1
  <2>4. \A n \in 0 .. k : v[n] = u[n]
    OBVIOUS
  <2>5. v[k + 1] = x
    OBVIOUS
  <2> HIDE DEF v, G, A
  <2>6. ASSUME NEW n \in 1 .. (k + 1) PROVE v[n] = F(v[n - 1], n)
    <3>1. CASE n = k + 1
      <4>1. n - 1 = k /\ k \in 0 .. k
        BY <3>1
      <4> QED
        BY <3>1, <4>1, <2>4, <2>5
    <3>2. CASE n \in 1 .. k
      <4>1. n - 1 \in 0 .. k /\ n \in 0 .. k
        BY <3>2
      <4> QED
        BY <4>1, <3>2, <2>3, <2>4
    <3>3. n = k + 1 \/ n \in 1 .. k
      OBVIOUS
    <3> HIDE DEF x
    <3> QED
      BY <3>1, <3>2, <3>3, Zenon
  <2>7. G(v, k + 1)
    <3>1. \A n \in 0 .. (k + 1) : v[n] = IF n = 0 THEN s ELSE F(v[n - 1], n)
      <4>1. \A n \in 0 .. (k + 1) : n = 0 \/ n \in 1 .. (k + 1)
        BY <1>0
      <4> QED
        BY <4>1, <2>2, <2>6
    <3> QED
      BY <3>1, <2>2 DEF G
  <2>8. k + 1 \in 0 .. N
    BY <1>0
  <2> QED
    BY <2>7, <2>8 DEF A
<1>3. PICK f : G(f, N)
  <2> HIDE DEF A
  <2>1. 0 .. N \subseteq A
    BY <1>0, <1>1, <1>2, UpTo
  <2>2. N \in A
    BY <1>0, <2>1
  <2> QED
    BY <2>2 DEF A
<1> DEFINE H(u) == [n \in 0 .. N |-> IF n = 0 THEN s ELSE F(u[n - 1], n)]
           w == CHOOSE u : u = H(u)
<1>4. f = H(f)
  BY <1>3
<1>5. w = H(w)
  <2> HIDE DEF H, G
  <2> QED
    BY <1>4
<1>6. AllApplied(i, s, segs, used, contents) = w[N]
  BY DEF AllApplied, N, F, SegmentStep
<1> HIDE DEF w
<1>7. w[0] = s /\ \A n \in 0 .. (N - 1) : w[n + 1] = F(w[n], n + 1)
  <2>1. w[0] = s /\ \A n \in 1 .. N : w[n] = F(w[n - 1], n)
    BY <1>0, <1>5
  <2>2. \A n \in 0 .. (N - 1) : n + 1 \in 1 .. N /\ (n + 1) - 1 = n
    BY <1>0
  <2> HIDE DEF H, G
  <2> QED
    BY <2>1, <2>2
<1> QED
  BY <1>6, <1>7 DEF N, F

(* What the array shows at e when n segments have been applied.             *)
Covers(e, k, offsets, contents) == e \in offsets[k] + 1 .. offsets[k] + Len(contents[k])

Shown(e, v, n, offsets, used, contents, empty) ==
    \/ v = empty /\ \A l \in used : l =< n => ~Covers(e, l, offsets, contents)
    \/ \E k \in used :
          /\ k =< n /\ Covers(e, k, offsets, contents) /\ v = contents[k][e - offsets[k]]
          /\ \A l \in used : (k < l /\ l =< n) => ~Covers(e, l, offsets, contents)

(* What an element shows after one more segment.                            *)
LEMMA ShownStep ==
    ASSUME NEW e, NEW v, NEW n \in Nat, NEW offsets, NEW used, used \subseteq Nat, NEW contents,
           NEW empty, Shown(e, v, n, offsets, used, contents, empty)
    PROVE  /\ n + 1 \notin used => Shown(e, v, n + 1, offsets, used, contents, empty)
           /\ (n + 1 \in used /\ ~Covers(e, n + 1, offsets, contents)) =>
                 Shown(e, v, n + 1, offsets, used, contents, empty)
           /\ (n + 1 \in used /\ Covers(e, n + 1, offsets, contents)) =>
                 Shown(e, contents[n + 1][e - offsets[n + 1]], n + 1, offsets, used, contents, empty)
<1>1. \A l \in used : l \in Nat /\ (l =< n + 1 <=> l =< n \/ l = n + 1)
  OBVIOUS
<1>2. ASSUME n + 1 \notin used \/ ~Covers(e, n + 1, offsets, contents)
      PROVE  Shown(e, v, n + 1, offsets, used, contents, empty)
  BY <1>1, <1>2 DEF Shown
<1>3. ASSUME n + 1 \in used, Covers(e, n + 1, offsets, contents)
      PROVE  Shown(e, contents[n + 1][e - offsets[n + 1]], n + 1, offsets, used, contents, empty)
  <2>1. \A l \in used : ~(n + 1 < l /\ l =< n + 1)
    BY <1>1
  <2>2. n + 1 =< n + 1
    OBVIOUS
  <2> QED
    BY <1>3, <2>1, <2>2 DEF Shown
<1> QED
  BY <1>2, <1>3

IsShown(V, array, size, N, offsets, used, contents, empty) ==
    /\ size \in Nat /\ N \in Nat /\ array \in [1 .. size -> V] /\ used \subseteq 1 .. N
    /\ \A k \in used : offsets[k] + Len(contents[k]) =< size
    /\ \A e \in 1 .. size : Shown(e, array[e], N, offsets, used, contents, empty)

(* An array whose elements all show the last segment over them is the       *)
(* reference.                                                               *)
LEMMA ShownReference ==
    ASSUME NEW V, NEW array, NEW size, NEW N, NEW offsets, NEW used, NEW contents, NEW empty,
           IsShown(V, array, size, N, offsets, used, contents, empty)
    PROVE  array = Reference(size, offsets, used, contents, empty)
<1> DEFINE over(a) == {k \in used : a \in offsets[k] + 1 .. offsets[k] + Len(contents[k])}
           last(a) == CHOOSE k \in over(a) : \A l \in over(a) : l =< k
           ref == [a \in 1 .. size |->
                     IF over(a) = {} THEN empty ELSE contents[last(a)][a - offsets[last(a)]]]
<1>0. /\ size \in Nat /\ N \in Nat /\ array \in [1 .. size -> V] /\ used \subseteq 1 .. N
      /\ \A k \in used : offsets[k] + Len(contents[k]) =< size
      /\ \A e \in 1 .. size : Shown(e, array[e], N, offsets, used, contents, empty)
  BY DEF IsShown
<1>1. Reference(size, offsets, used, contents, empty) = ref
  BY <1>0 DEF Reference
<1>2. \A e, k : k \in over(e) <=> k \in used /\ Covers(e, k, offsets, contents)
  BY DEF Covers
<1>3. \A k \in used : k \in Nat /\ k =< N
  BY <1>0
<1>4. ASSUME NEW e \in 1 .. size PROVE array[e] = ref[e]
  <2>1. ref[e] = IF over(e) = {} THEN empty ELSE contents[last(e)][e - offsets[last(e)]]
    OBVIOUS
  <2> HIDE DEF ref
  <2>2. CASE array[e] = empty /\ \A l \in used : l =< N => ~Covers(e, l, offsets, contents)
    <3>1. over(e) = {}
      <4> HIDE DEF over
      <4> QED
        BY <1>2, <1>3, <2>2
    <3> QED
      BY <2>1, <2>2, <3>1
  <2>3. ASSUME NEW k \in used, k =< N, Covers(e, k, offsets, contents),
               array[e] = contents[k][e - offsets[k]],
               \A l \in used : (k < l /\ l =< N) => ~Covers(e, l, offsets, contents)
        PROVE  array[e] = ref[e]
    <3> HIDE DEF over
    <3>0. k \in over(e) /\ k \in Nat
      BY <1>2, <1>3, <2>3
    <3>1. ASSUME NEW l \in over(e) PROVE l \in Nat /\ l =< k
      <4>1. l \in used /\ Covers(e, l, offsets, contents)
        BY <1>2
      <4>2. l \in Nat /\ l =< N
        BY <1>3, <4>1
      <4>3. ~(k < l)
        BY <2>3, <4>1, <4>2
      <4> QED
        BY <3>0, <4>2, <4>3
    <3>3. last(e) \in over(e) /\ \A l \in over(e) : l =< last(e)
      BY <3>0, <3>1
    <3>4. last(e) = k
      <4> HIDE DEF last
      <4>1. last(e) \in Nat /\ last(e) =< k /\ k =< last(e)
        BY <3>0, <3>1, <3>3
      <4> QED
        BY <3>0, <4>1
    <3>5. over(e) # {}
      BY <3>0
    <3> HIDE DEF last
    <3> QED
      BY <2>1, <2>3, <3>4, <3>5
  <2> QED
    BY <1>0, <2>2, <2>3 DEF Shown
<1>5. DOMAIN ref = 1 .. size /\ ref = [a \in 1 .. size |-> ref[a]]
  OBVIOUS
<1> HIDE DEF ref
<1>6. array = [a \in 1 .. size |-> array[a]]
  BY <1>0
<1> QED
  BY <1>1, <1>4, <1>5, <1>6

(* The offset that an init expression gives.                                *)
OffsetFor(seg) ==
    IF seg.op = "get" THEN binary.import.global[seg.arg + 1].value ELSE seg.arg

(* An offset that is not refused is the one the init expression gives.      *)
LEMMA BaseOffsetIs ==
    ASSUME binary \in Binary, NEW i, inst[i].global = InitialGlobals,
           NEW op \in {"const", "get"}, NEW arg \in Nat, BaseOffset(i, op, arg) # NULL
    PROVE  /\ BaseOffset(i, op, arg) \in Nat
           /\ BaseOffset(i, op, arg) =
                 IF op = "get" THEN binary.import.global[arg + 1].value ELSE arg
<1>1. CASE op = "const"
  BY <1>1 DEF BaseOffset
<1>2. CASE op = "get"
  <2>1. arg < ImportCount("global") /\ BaseOffset(i, op, arg) = inst[i].global[arg + 1].value
    BY <1>2 DEF BaseOffset, check_global_init_expr
  <2> DEFINE n == ImportCount("global")
             N == Len(binary.import.global)
             M == Len(binary.global)
  <2>2. N \in Nat /\ M \in Nat /\ DOMAIN binary.import.global = 1 .. N
    <3>1. M \in Nat
      BY BinaryTypes
    <3>2. N \in Nat /\ DOMAIN binary.import.global = 1 .. N
      BY ImportTypes
    <3> QED
      BY <3>1, <3>2
  <2>3. n = (IF "import" \in module.loaded THEN N ELSE 0)
        /\ Count("global") = (IF "global" \in module.loaded THEN M ELSE 0)
    BY DEF ImportCount, Count
  <2> HIDE DEF N, M
  <2>4. n = N /\ n \in Nat /\ Count("global") \in Nat /\ arg < n
    BY <2>1, <2>2, <2>3
  <2>5. Total("global") = n + Count("global")
    BY DEF Total
  <2>6. arg + 1 \in 1 .. n /\ arg + 1 \in 1 .. Total("global")
    <3> HIDE DEF n
    <3> QED
      BY <2>4, <2>5
  <2>7. arg + 1 =< n
    <3> HIDE DEF n
    <3> QED
      BY <2>4, <2>6
  <2>8. InitialGlobals[arg + 1] = [type |-> binary.import.global[arg + 1].type,
                                   value |-> binary.import.global[arg + 1].value]
    BY <2>6, <2>7 DEF InitialGlobals
  <2>9. arg + 1 \in DOMAIN binary.import.global
    BY <2>2, <2>4, <2>6
  <2>10. binary.import.global[arg + 1].value \in Nat
    BY <2>9, ElementTypes
  <2> QED
    BY <1>2, <2>1, <2>8, <2>10
<1> QED
  BY <1>1, <1>2

(* A number below 2^32 does not wrap.                                       *)
LEMMA Remainder == ASSUME NEW x \in Nat, x < U32 PROVE x % U32 = x
BY WasmModuleAssumption

(* Element e of an array with contents at off is element e - off of these.  *)
Within(e, off, contents) == e \in off + 1 .. off + Len(contents)
At(e, off, contents) == contents[e - off]
HasRoom(V, size, array, off, contents) ==
    /\ size \in Nat /\ array \in [1 .. size -> V] /\ off \in Nat /\ contents \in Seq(V)
    /\ off + Len(contents) =< size

(* A segment is written into an array of the same size.                     *)
LEMMA WrittenIs ==
    ASSUME NEW V, NEW size \in Nat, NEW array \in [1 .. size -> V], NEW off \in Nat,
           NEW contents \in Seq(V)
    PROVE  Written(array, off, contents) \in [1 .. size -> V]
<1> DEFINE L == Len(contents)
           w == [a \in DOMAIN array |-> IF a \in off + 1 .. off + L THEN contents[a - off]
                                        ELSE array[a]]
<1>1. L \in Nat /\ DOMAIN contents = 1 .. L /\ \A n \in 1 .. L : contents[n] \in V
  OBVIOUS
<1>2. Len(array) = size /\ DOMAIN array = 1 .. size
  OBVIOUS
<1>3. Written(array, off, contents) = IF L > size - off THEN array ELSE w
  BY <1>2 DEF Written
<1>4. w \in [1 .. size -> V]
  <2>1. ASSUME NEW a \in off + 1 .. off + L PROVE a - off \in 1 .. L
    BY <1>1
  <2> HIDE DEF L
  <2> QED
    BY <1>1, <1>2, <2>1
<1> HIDE DEF w
<1> QED
  BY <1>3, <1>4

(* Where a segment is written.                                              *)
LEMMA WrittenAt ==
    ASSUME NEW V, NEW size, NEW array, NEW off, NEW contents,
           HasRoom(V, size, array, off, contents), NEW e \in 1 .. size
    PROVE  /\ Within(e, off, contents) => Written(array, off, contents)[e] = At(e, off, contents)
           /\ ~Within(e, off, contents) => Written(array, off, contents)[e] = array[e]
<1> DEFINE L == Len(contents)
           w == [a \in DOMAIN array |-> IF a \in off + 1 .. off + L THEN contents[a - off]
                                        ELSE array[a]]
<1>0. /\ size \in Nat /\ array \in [1 .. size -> V] /\ off \in Nat /\ contents \in Seq(V)
      /\ off + L =< size
  BY DEF HasRoom
<1>1. L \in Nat
  BY <1>0
<1>2. Len(array) = size /\ DOMAIN array = 1 .. size
  BY <1>0
<1>3. Written(array, off, contents) = IF L > size - off THEN array ELSE w
  BY <1>2 DEF Written
<1>4. ~(L > size - off)
  <2> HIDE DEF L
  <2> QED
    BY <1>0, <1>1
<1>5. w[e] = IF Within(e, off, contents) THEN At(e, off, contents) ELSE array[e]
  BY <1>2 DEF Within, At
<1> HIDE DEF w
<1> QED
  BY <1>3, <1>4, <1>5

(* One segment applied.                                                     *)
IsApplied(i, V, size, N, x, k, seg, contents, y) ==
    /\ binary \in Binary /\ inst[i].global = InitialGlobals
    /\ size \in Nat /\ size < U32 /\ N \in Nat
    /\ x.offsets \in [1 .. N -> Nat] /\ x.array \in [1 .. size -> V]
    /\ k \in 1 .. N /\ seg.op \in {"const", "get"} /\ contents \in Seq(V)
    /\ y = Applied(i, x, k, seg, contents)

(* One segment applied: it fits, and changes only the elements it covers;   *)
(* when its end wraps it changes nothing.                                   *)
LEMMA AppliedIs ==
    ASSUME NEW i, NEW V, NEW size, NEW N, NEW x, NEW k, NEW seg, NEW contents, NEW y,
           IsApplied(i, V, size, N, x, k, seg, contents, y), NEW T, T = OffsetFor(seg)
    PROVE  /\ y.offsets \in [1 .. N -> Nat] /\ \A l \in 1 .. N : l # k => y.offsets[l] = x.offsets[l]
           /\ y.array \in [1 .. size -> V]
           /\ y.ok => x.ok
           /\ (y.ok /\ x.offsets[k] = seg.arg /\ T + Len(contents) < U32) =>
                 /\ T \in Nat /\ T + Len(contents) =< size
                 /\ \A e \in 1 .. size :
                       /\ Within(e, T, contents) => y.array[e] = At(e, T, contents)
                       /\ ~Within(e, T, contents) => y.array[e] = x.array[e]
           /\ (y.ok /\ x.offsets[k] = seg.arg /\ ~(T + Len(contents) < U32)) =>
                 y.array = x.array
<1>0. /\ binary \in Binary /\ inst[i].global = InitialGlobals
      /\ size \in Nat /\ size < U32 /\ N \in Nat
      /\ x.offsets \in [1 .. N -> Nat] /\ x.array \in [1 .. size -> V]
      /\ k \in 1 .. N /\ seg.op \in {"const", "get"} /\ contents \in Seq(V)
      /\ y = Applied(i, x, k, seg, contents)
  BY DEF IsApplied
<1> DEFINE off == BaseOffset(i, seg.op, x.offsets[k])
           ok == off # NULL /\ Fits(off, Len(contents), Len(x.array))
           offsets == IF off = NULL THEN x.offsets ELSE [x.offsets EXCEPT ![k] = off]
           array == IF ok THEN Written(x.array, off, contents) ELSE x.array
<1>1. x.offsets[k] \in Nat /\ Len(x.array) = size /\ Len(contents) \in Nat
  BY <1>0
<1>2. off # NULL => /\ off \in Nat
                    /\ x.offsets[k] = seg.arg => off = T
  <2>1. PICK op, arg : op = seg.op /\ arg = x.offsets[k]
    OBVIOUS
  <2>2. /\ binary \in Binary /\ inst[i].global = InitialGlobals
        /\ op \in {"const", "get"} /\ arg \in Nat /\ off = BaseOffset(i, op, arg)
    BY <1>0, <1>1, <2>1
  <2> HIDE DEF off
  <2>3. off # NULL =>
           /\ off \in Nat
           /\ off = IF op = "get" THEN binary.import.global[arg + 1].value ELSE arg
    BY ONLY <2>2, BaseOffsetIs
  <2> QED
    BY ONLY <2>1, <2>3, T = OffsetFor(seg) DEF OffsetFor
<1>3. CASE ~x.ok
  <2>1. y = x
    BY <1>0, <1>3 DEF Applied
  <2> QED
    BY <1>0, <1>3, <2>1
<1>4. CASE x.ok
  <2>1. y = [ok |-> ok, offsets |-> offsets, array |-> array]
    BY <1>0, <1>4 DEF Applied
  <2>2. ok => /\ off # NULL /\ off \in Nat /\ off =< size
              /\ (off + Len(contents)) % U32 =< size
    BY <1>0, <1>1, <1>2 DEF Fits
  <2>3. offsets \in [1 .. N -> Nat] /\ \A l \in 1 .. N : l # k => offsets[l] = x.offsets[l]
    <3> HIDE DEF off
    <3> QED
      BY <1>0, <1>2
  <2> HIDE DEF ok, off
  <2>4. array \in [1 .. size -> V]
    BY <1>0, <2>2, WrittenIs
  <2>5. ASSUME ok, x.offsets[k] = seg.arg, T + Len(contents) < U32
        PROVE  /\ T \in Nat /\ T + Len(contents) =< size
               /\ \A e \in 1 .. size :
                     /\ Within(e, T, contents) => array[e] = At(e, T, contents)
                     /\ ~Within(e, T, contents) => array[e] = x.array[e]
    <3>1. off = T /\ T \in Nat
      BY <1>2, <2>2, <2>5
    <3>2. (T + Len(contents)) % U32 = T + Len(contents)
      <4>1. T + Len(contents) \in Nat
        BY <1>1, <3>1
      <4> QED
        BY <2>5, <4>1, Remainder
    <3>3. T + Len(contents) =< size
      BY <1>0, <2>2, <2>5, <3>1, <3>2
    <3>4. array = Written(x.array, T, contents)
      BY <2>5, <3>1
    <3>5. HasRoom(V, size, x.array, T, contents)
      BY <1>0, <3>1, <3>3 DEF HasRoom
    <3>6. \A e \in 1 .. size :
              /\ Within(e, T, contents) => Written(x.array, T, contents)[e] = At(e, T, contents)
              /\ ~Within(e, T, contents) => Written(x.array, T, contents)[e] = x.array[e]
      BY ONLY <3>5, WrittenAt
    <3> HIDE DEF array
    <3> QED
      BY <3>1, <3>3, <3>4, <3>6
  <2>5a. ASSUME ok, x.offsets[k] = seg.arg, ~(T + Len(contents) < U32)
         PROVE  array = x.array
    <3>1. off = T /\ T \in Nat /\ T =< size
      BY <1>2, <2>2, <2>5a
    <3>2. PICK L \in Nat : L = Len(contents)
      BY <1>1
    <3>3. L > size - T
      <4>1. U32 \in Nat
        BY WasmModuleAssumption
      <4> QED
        BY <1>0, <2>5a, <3>1, <3>2, <4>1
    <3>4. Written(x.array, T, contents) = x.array
      BY <1>1, <3>2, <3>3 DEF Written
    <3> QED
      BY <2>5a, <3>1, <3>4
  <2> HIDE DEF offsets, array
  <2>6. y.ok = ok /\ y.offsets = offsets /\ y.array = array
    BY ONLY <2>1
  <2> QED
    BY ONLY <1>4, <2>3, <2>4, <2>5, <2>5a, <2>6
<1> QED
  BY <1>3, <1>4

(* All the segments of a module.                                            *)
SegmentsOK(V, size, N, segs, used, contents) ==
    /\ size \in Nat /\ size < U32 /\ N \in Nat /\ Len(segs) = N /\ DOMAIN segs = 1 .. N
    /\ \A k \in 1 .. N : segs[k].op \in {"const", "get"}
    /\ used \subseteq 1 .. N /\ \A k \in used : contents[k] \in Seq(V)

(* Every segment is where its init expression says, and shown are those     *)
(* that end below 2^32.                                                     *)
Exact(segs, used, shown, contents, first) ==
    /\ shown \subseteq used
    /\ \A k \in used : /\ first[k] = segs[k].arg
                       /\ k \in shown <=> OffsetFor(segs[k]) + Len(contents[k]) < U32

SegmentsFit(n, size, segs, shown, contents) ==
    \A l \in shown : l =< n => OffsetFor(segs[l]) + Len(contents[l]) =< size

AllShown(array, n, size, segs, shown, contents, empty) ==
    \A e \in 1 .. size : Shown(e, array[e], n, OffsetsOf(segs), shown, contents, empty)

(* What holds when n segments have been applied.                            *)
SegmentTypes(x, n, V, size, N, first) ==
    /\ x.offsets \in [1 .. N -> Nat] /\ \A l \in 1 .. N : n < l => x.offsets[l] = first[l]
    /\ x.array \in [1 .. size -> V]

SegmentsShown(x, n, size, segs, shown, contents, empty) ==
    /\ SegmentsFit(n, size, segs, shown, contents)
    /\ AllShown(x.array, n, size, segs, shown, contents, empty)

(* The offset of one segment.                                               *)
LEMMA OffsetsAre ==
    ASSUME NEW segs, NEW k \in DOMAIN segs
    PROVE  OffsetsOf(segs)[k] = OffsetFor(segs[k])
BY DEF OffsetsOf, OffsetFor

(* One more segment keeps the size of the array and the offsets of the      *)
(* segments to come.                                                        *)
LEMMA SegmentTyped ==
    ASSUME binary \in Binary, NEW i, inst[i].global = InitialGlobals,
           NEW V, NEW size, NEW N, NEW segs, NEW used, NEW contents,
           SegmentsOK(V, size, N, segs, used, contents),
           NEW first, NEW n \in 0 .. (N - 1), NEW x, SegmentTypes(x, n, V, size, N, first),
           NEW y, y = SegmentStep(i, x, n + 1, segs, used, contents)
    PROVE  /\ SegmentTypes(y, n + 1, V, size, N, first)
           /\ y.ok => x.ok
<1>1. /\ size \in Nat /\ size < U32 /\ N \in Nat /\ \A k \in 1 .. N : segs[k].op \in {"const", "get"}
      /\ \A k \in used : contents[k] \in Seq(V)
  BY DEF SegmentsOK
<1>2. n + 1 \in 1 .. N /\ n \in Nat /\ \A l \in 1 .. N : n + 1 < l => n < l /\ l # n + 1
  BY <1>1
<1>3. CASE n + 1 \notin used
  <2>1. y = x
    BY <1>3 DEF SegmentStep
  <2> QED
    BY <1>2, <2>1 DEF SegmentTypes
<1>4. CASE n + 1 \in used
  <2>1. y = Applied(i, x, n + 1, segs[n + 1], contents[n + 1])
    BY <1>4 DEF SegmentStep
  <2>2. /\ y.offsets \in [1 .. N -> Nat]
        /\ \A l \in 1 .. N : l # n + 1 => y.offsets[l] = x.offsets[l]
        /\ y.array \in [1 .. size -> V] /\ (y.ok => x.ok)
    <3>1. x.offsets \in [1 .. N -> Nat] /\ x.array \in [1 .. size -> V]
      BY DEF SegmentTypes
    <3>2. PICK k, seg, c : k = n + 1 /\ seg = segs[k] /\ c = contents[k]
      OBVIOUS
    <3>3. k \in 1 .. N /\ seg.op \in {"const", "get"} /\ c \in Seq(V)
      BY <1>1, <1>2, <1>4, <3>2
    <3>4. IsApplied(i, V, size, N, x, k, seg, c, y)
      BY <1>1, <2>1, <3>1, <3>2, <3>3 DEF IsApplied
    <3>5. /\ y.offsets \in [1 .. N -> Nat]
          /\ \A l \in 1 .. N : l # k => y.offsets[l] = x.offsets[l]
          /\ y.array \in [1 .. size -> V] /\ (y.ok => x.ok)
      BY <3>4, AppliedIs
    <3> QED
      BY <3>2, <3>5
  <2> QED
    BY <1>2, <2>2 DEF SegmentTypes
<1> QED
  BY <1>3, <1>4

(* One more segment that fits is shown where it is, one whose end wraps is  *)
(* not.                                                                     *)
LEMMA SegmentShown ==
    ASSUME binary \in Binary, NEW i, inst[i].global = InitialGlobals,
           NEW V, NEW size, NEW N, NEW segs, NEW used, NEW contents,
           SegmentsOK(V, size, N, segs, used, contents),
           NEW first, NEW shown, Exact(segs, used, shown, contents, first),
           NEW n \in 0 .. (N - 1), NEW x, SegmentTypes(x, n, V, size, N, first), NEW empty,
           SegmentsShown(x, n, size, segs, shown, contents, empty),
           NEW y, y = SegmentStep(i, x, n + 1, segs, used, contents), y.ok
    PROVE  SegmentsShown(y, n + 1, size, segs, shown, contents, empty)
<1> DEFINE offsets == OffsetsOf(segs)
           k == n + 1
           T == OffsetFor(segs[k])
<1>1. /\ size \in Nat /\ size < U32 /\ N \in Nat /\ \A l \in 1 .. N : segs[l].op \in {"const", "get"}
      /\ used \subseteq 1 .. N /\ used \subseteq Nat /\ DOMAIN segs = 1 .. N
      /\ \A l \in used : contents[l] \in Seq(V)
  BY DEF SegmentsOK
<1>1a. shown \subseteq used /\ shown \subseteq Nat
  BY <1>1 DEF Exact
<1>2. k \in 1 .. N /\ n \in Nat /\ n < k /\ \A l \in used : l =< k <=> l =< n \/ l = k
  BY <1>1
<1>3. ASSUME k \notin shown, y.array = x.array
      PROVE  SegmentsShown(y, k, size, segs, shown, contents, empty)
  <2>1. SegmentsFit(k, size, segs, shown, contents)
    BY <1>1a, <1>2, <1>3 DEF SegmentsShown, SegmentsFit
  <2>2. ASSUME NEW e \in 1 .. size
        PROVE  Shown(e, x.array[e], k, offsets, shown, contents, empty)
    <3>1. Shown(e, x.array[e], n, offsets, shown, contents, empty)
      BY DEF SegmentsShown, AllShown
    <3> HIDE DEF offsets
    <3> QED
      BY <1>1a, <1>2, <1>3, <3>1, ShownStep
  <2> QED
    BY <1>3, <2>1, <2>2 DEF SegmentsShown, AllShown
<1>3a. CASE k \notin used
  <2>1. y = x
    BY <1>3a DEF SegmentStep
  <2> QED
    BY <1>1a, <1>3, <1>3a, <2>1
<1>3b. CASE k \in used /\ k \notin shown
  <2>1. y = Applied(i, x, k, segs[k], contents[k])
    BY <1>3b DEF SegmentStep
  <2>2. /\ x.offsets \in [1 .. N -> Nat] /\ x.array \in [1 .. size -> V]
        /\ x.offsets[k] = segs[k].arg /\ ~(T + Len(contents[k]) < U32)
    BY <1>2, <1>3b DEF SegmentTypes, Exact
  <2>3. y.array = x.array
    <3>1. PICK m, seg, c : m = k /\ seg = segs[m] /\ c = contents[m]
      OBVIOUS
    <3>2. /\ m \in 1 .. N /\ seg.op \in {"const", "get"} /\ c \in Seq(V)
          /\ x.offsets[m] = seg.arg /\ ~(OffsetFor(seg) + Len(c) < U32)
      BY <1>1, <1>2, <1>3b, <2>2, <3>1
    <3>3. IsApplied(i, V, size, N, x, m, seg, c, y)
      BY <1>1, <2>1, <2>2, <3>1, <3>2 DEF IsApplied
    <3>4. y.ok
      OBVIOUS
    <3> QED
      BY ONLY <3>2, <3>3, <3>4, AppliedIs
  <2> QED
    BY <1>3, <1>3b, <2>3
<1>4. CASE k \in shown
  <2>1. k \in used /\ y = Applied(i, x, k, segs[k], contents[k])
    BY <1>1a, <1>4 DEF SegmentStep
  <2>2. /\ x.offsets \in [1 .. N -> Nat] /\ x.array \in [1 .. size -> V]
        /\ x.offsets[k] = segs[k].arg /\ T + Len(contents[k]) < U32
    BY <1>2, <1>4, <2>1 DEF SegmentTypes, Exact
  <2>3. /\ T \in Nat /\ T + Len(contents[k]) =< size
        /\ \A e \in 1 .. size :
              /\ Within(e, T, contents[k]) => y.array[e] = At(e, T, contents[k])
              /\ ~Within(e, T, contents[k]) => y.array[e] = x.array[e]
    <3>1. PICK m, seg, c : m = k /\ seg = segs[m] /\ c = contents[m]
      OBVIOUS
    <3>2. /\ m \in 1 .. N /\ seg.op \in {"const", "get"} /\ c \in Seq(V)
          /\ x.offsets[m] = seg.arg /\ OffsetFor(seg) + Len(c) < U32
      BY <1>1, <1>2, <2>1, <2>2, <3>1
    <3>3. IsApplied(i, V, size, N, x, m, seg, c, y)
      BY <1>1, <2>1, <2>2, <3>1, <3>2 DEF IsApplied
    <3>4. y.ok
      OBVIOUS
    <3>5. /\ OffsetFor(seg) \in Nat /\ OffsetFor(seg) + Len(c) =< size
          /\ \A e \in 1 .. size :
                /\ Within(e, OffsetFor(seg), c) => y.array[e] = At(e, OffsetFor(seg), c)
                /\ ~Within(e, OffsetFor(seg), c) => y.array[e] = x.array[e]
      BY ONLY <3>2, <3>3, <3>4, AppliedIs
    <3>6. OffsetFor(seg) = T /\ c = contents[k]
      BY <3>1 DEF T
    <3> HIDE DEF T, k
    <3> QED
      BY ONLY <3>5, <3>6
  <2>4. SegmentsFit(k, size, segs, shown, contents)
    BY <1>1a, <1>2, <2>3 DEF SegmentsShown, SegmentsFit
  <2>5. offsets[k] = T
    BY <1>1, <1>2, OffsetsAre
  <2>6. ASSUME NEW e \in 1 .. size
        PROVE  Shown(e, y.array[e], k, offsets, shown, contents, empty)
    <3>1. Shown(e, x.array[e], n, offsets, shown, contents, empty)
      BY DEF SegmentsShown, AllShown
    <3> HIDE DEF offsets, T
    <3>2. CASE Within(e, T, contents[k])
      <4>1. y.array[e] = contents[k][e - offsets[k]] /\ Covers(e, k, offsets, contents)
        BY <2>3, <2>5, <3>2 DEF At, Within, Covers
      <4>2. Shown(e, contents[k][e - offsets[k]], k, offsets, shown, contents, empty)
        BY <1>1a, <1>2, <1>4, <3>1, <4>1, ShownStep
      <4> QED
        BY <4>1, <4>2
    <3>3. CASE ~Within(e, T, contents[k])
      <4>1. y.array[e] = x.array[e] /\ ~Covers(e, k, offsets, contents)
        BY <2>3, <2>5, <3>3 DEF Within, Covers
      <4>2. Shown(e, x.array[e], k, offsets, shown, contents, empty)
        BY <1>1a, <1>2, <1>4, <3>1, <4>1, ShownStep
      <4> QED
        BY <4>1, <4>2
    <3> QED
      BY <3>2, <3>3
  <2> QED
    BY <2>4, <2>6 DEF SegmentsShown, AllShown
<1> QED
  BY <1>3a, <1>3b, <1>4

(* All segments in used are applied to an array of empty elements.          *)
SegmentsRun(i, V, size, N, segs, used, contents, first, empty, z) ==
    /\ binary \in Binary /\ inst[i].global = InitialGlobals
    /\ SegmentsOK(V, size, N, segs, used, contents)
    /\ first \in [1 .. N -> Nat] /\ empty \in V
    /\ \E s : /\ s.offsets = first /\ s.array = [e \in 1 .. size |-> empty]
              /\ z = AllApplied(i, s, segs, used, contents)

(* When every segment fits, the array is the reference for those shown.     *)
LEMMA SegmentsApplied ==
    ASSUME NEW i, NEW V, NEW size, NEW N, NEW segs, NEW used, NEW contents,
           NEW first, NEW shown, NEW empty, NEW z,
           SegmentsRun(i, V, size, N, segs, used, contents, first, empty, z)
    PROVE  /\ z.offsets \in [1 .. N -> Nat] /\ z.array \in [1 .. size -> V]
           /\ (z.ok /\ Exact(segs, used, shown, contents, first)) =>
                 z.array = Reference(size, OffsetsOf(segs), shown, contents, empty)
<1>a. /\ binary \in Binary /\ inst[i].global = InitialGlobals
      /\ SegmentsOK(V, size, N, segs, used, contents)
      /\ first \in [1 .. N -> Nat] /\ empty \in V
  BY DEF SegmentsRun
<1>b. PICK s : /\ s.offsets = first /\ s.array = [e \in 1 .. size |-> empty]
               /\ z = AllApplied(i, s, segs, used, contents)
  BY DEF SegmentsRun
<1> USE <1>a, <1>b
<1>1. /\ size \in Nat /\ N \in Nat /\ Len(segs) = N /\ DOMAIN segs = 1 .. N
      /\ used \subseteq 1 .. N /\ \A k \in used : k \in Nat /\ 0 < k /\ k =< N
  <2>1. /\ size \in Nat /\ N \in Nat /\ Len(segs) = N /\ DOMAIN segs = 1 .. N
        /\ used \subseteq 1 .. N
    BY DEF SegmentsOK
  <2>2. \A k \in used : k \in 1 .. N
    BY <2>1
  <2>3. \A k \in used : k \in Nat /\ 0 < k /\ k =< N
    BY ONLY <2>1, <2>2
  <2> QED
    BY <2>1, <2>3
<1>2. PICK a : /\ a[0] = s
               /\ \A n \in 0 .. (N - 1) :
                     a[n + 1] = SegmentStep(i, a[n], n + 1, segs, used, contents)
               /\ z = a[N]
  BY <1>1, AllAppliedUnfold
<1> DEFINE P(n) ==
        /\ SegmentTypes(a[n], n, V, size, N, first)
        /\ (a[n].ok /\ Exact(segs, used, shown, contents, first)) =>
              SegmentsShown(a[n], n, size, segs, shown, contents, empty)
           A == {n \in 0 .. N : P(n)}
<1>2a. Exact(segs, used, shown, contents, first) => shown \subseteq used
  BY DEF Exact
<1>3. 0 \in A
  <2>1. SegmentTypes(a[0], 0, V, size, N, first)
    BY <1>2 DEF SegmentTypes
  <2>2. \A k \in used : ~(k =< 0)
    BY <1>1
  <2>3. shown \subseteq used => SegmentsFit(0, size, segs, shown, contents)
    BY <2>2 DEF SegmentsFit
  <2>4. shown \subseteq used => AllShown(a[0].array, 0, size, segs, shown, contents, empty)
    BY <1>2, <2>2 DEF AllShown, Shown
  <2>5. 0 \in 0 .. N
    BY <1>1
  <2> QED
    BY <1>2a, <2>1, <2>3, <2>4, <2>5 DEF SegmentsShown
<1>4. ASSUME NEW n \in 0 .. (N - 1), n \in A PROVE n + 1 \in A
  <2>1. P(n) /\ n + 1 \in 0 .. N
    BY <1>1, <1>4
  <2>2. PICK x, y : x = a[n] /\ y = a[n + 1]
    OBVIOUS
  <2>3. y = SegmentStep(i, x, n + 1, segs, used, contents)
    BY <1>2, <2>2
  <2>4. SegmentTypes(x, n, V, size, N, first)
    BY <2>1, <2>2
  <2>5. SegmentTypes(y, n + 1, V, size, N, first) /\ (y.ok => x.ok)
    BY <2>3, <2>4, SegmentTyped
  <2>6. ASSUME y.ok, Exact(segs, used, shown, contents, first)
        PROVE  SegmentsShown(y, n + 1, size, segs, shown, contents, empty)
    <3>1. SegmentsShown(x, n, size, segs, shown, contents, empty)
      BY <2>1, <2>2, <2>5, <2>6
    <3> QED
      BY <2>3, <2>4, <2>6, <3>1, SegmentShown
  <2> QED
    BY <2>1, <2>2, <2>5, <2>6
<1>5. P(N)
  <2> HIDE DEF P
  <2>1. 0 .. N \subseteq A
    <3> HIDE DEF A
    <3> QED
      BY <1>1, <1>3, <1>4, UpTo
  <2>2. N \in 0 .. N
    BY <1>1
  <2> QED
    BY <2>1, <2>2
<1>6. z.offsets \in [1 .. N -> Nat] /\ z.array \in [1 .. size -> V]
  BY <1>2, <1>5 DEF SegmentTypes
<1>7. ASSUME z.ok, Exact(segs, used, shown, contents, first)
      PROVE  z.array = Reference(size, OffsetsOf(segs), shown, contents, empty)
  <2>1. PICK array, offsets : array = z.array /\ offsets = OffsetsOf(segs)
    OBVIOUS
  <2>2. SegmentsShown(z, N, size, segs, shown, contents, empty)
    BY <1>2, <1>5, <1>7
  <2>3. array \in [1 .. size -> V]
    BY <1>6, <2>1
  <2>3a. shown \subseteq used
    BY <1>2a, <1>7
  <2>4. \A k \in shown : offsets[k] + Len(contents[k]) =< size
    BY <1>1, <2>1, <2>2, <2>3a, OffsetsAre DEF SegmentsShown, SegmentsFit
  <2>5. \A e \in 1 .. size : Shown(e, array[e], N, offsets, shown, contents, empty)
    BY <2>1, <2>2 DEF SegmentsShown, AllShown
  <2>6. array = Reference(size, offsets, shown, contents, empty)
    <3>1. IsShown(V, array, size, N, offsets, shown, contents, empty)
      BY <1>1, <2>3, <2>3a, <2>4, <2>5 DEF IsShown
    <3> QED
      BY ONLY <3>1, ShownReference
  <2> QED
    BY <2>1, <2>6
<1> QED
  BY <1>6, <1>7

-----------------------------------------------------------------------------
(* What an instance holds at each stage of its making.                      *)

DataShown == Unwrapped(OffsetsOf(binary.data), Active, DataContents)
ElemShown == Unwrapped(OffsetsOf(binary.elem), 1 .. Count("elem"), ElemContents)
MemoryWritten == Reference(MemorySize, OffsetsOf(binary.data), DataShown, DataContents, 0)
TableWritten == Reference(TableSize, OffsetsOf(binary.elem), ElemShown, ElemContents, NULL)
EmptyMemory == [a \in 1 .. MemorySize |-> 0]
EmptyTable == [e \in 1 .. TableSize |-> NULL]
Entries == {NULL} \cup 0 .. Total("func") - 1

Made(r) ==
    /\ r.pc \in {"memories", "tables", "functions", "exports", "data", "elem"} =>
          r.global = InitialGlobals
    /\ r.pc \in {"tables", "functions", "exports", "data"} => r.memory = EmptyMemory
    /\ r.pc \in {"elem", "wasi", "start", "live"} => r.memory = MemoryWritten
    /\ r.pc \in {"functions", "exports", "data", "elem"} => r.table = EmptyTable
    /\ r.pc \in {"wasi", "start", "live"} =>
          /\ \A e \in DOMAIN r.table : r.table[e] \in Entries
          /\ r.intact => r.table = TableWritten

MadeInv ==
    /\ module.offsets \in [DOMAIN binary.elem -> Nat]
    /\ \A i \in Instances : Made(inst[i])

(* What the binary describes does not change while no section is loaded.    *)
LEMMA SizesKept ==
    ASSUME binary' = binary, module'.loaded = module.loaded
    PROVE  /\ InitialGlobals' = InitialGlobals
           /\ MemoryWritten' = MemoryWritten
           /\ TableWritten' = TableWritten /\ EmptyMemory' = EmptyMemory
           /\ EmptyTable' = EmptyTable /\ Entries' = Entries
<1>1. /\ \A s : Count(s)' = Count(s)
      /\ \A k : ImportCount(k)' = ImportCount(k) /\ Total(k)' = Total(k)
  BY DEF Count, ImportCount, Total
<1>2. Active' = Active /\ DataContents' = DataContents /\ ElemContents' = ElemContents
  BY <1>1 DEF Active, DataContents, ElemContents
<1>3. OffsetsOf(binary.data)' = OffsetsOf(binary.data)
      /\ OffsetsOf(binary.elem)' = OffsetsOf(binary.elem)
  BY DEF OffsetsOf
<1>4. MemorySize' = MemorySize /\ TableSize' = TableSize
  BY <1>1 DEF MemorySize, TableSize
<1>5. InitialGlobals' = InitialGlobals
  BY <1>1 DEF InitialGlobals
<1>6. DataShown' = DataShown /\ ElemShown' = ElemShown
  BY <1>1, <1>2, <1>3 DEF DataShown, ElemShown
<1>7. MemoryWritten' = MemoryWritten /\ TableWritten' = TableWritten
  BY <1>1, <1>2, <1>3, <1>4, <1>6 DEF MemoryWritten, TableWritten
<1>8. EmptyMemory' = EmptyMemory /\ EmptyTable' = EmptyTable /\ Entries' = Entries
  BY <1>1, <1>4 DEF EmptyMemory, EmptyTable, Entries
<1> QED
  BY <1>5, <1>7, <1>8

(* An instance changes, the others stay as they were made.                  *)
LEMMA MadeStep ==
    ASSUME BlocksInv, MadeInv, binary' = binary, module'.loaded = module.loaded,
           module'.offsets \in [DOMAIN binary.elem -> Nat],
           NEW i \in Instances, NEW r, inst' = [inst EXCEPT ![i] = r], Made(r)
    PROVE  MadeInv'
<1>1. inst'[i] = r /\ \A j \in Instances : j # i => inst'[j] = inst[j]
  BY DEF BlocksInv, ShapeInv
<1>2. /\ InitialGlobals' = InitialGlobals
      /\ MemoryWritten' = MemoryWritten
      /\ TableWritten' = TableWritten /\ EmptyMemory' = EmptyMemory
      /\ EmptyTable' = EmptyTable /\ Entries' = Entries
  BY SizesKept
<1>3. Made(inst[i])'
  BY <1>1, <1>2 DEF Made
<1>4. ASSUME NEW j \in Instances, j # i PROVE Made(inst[j])'
  <2>1. Made(inst[j]) /\ inst'[j] = inst[j]
    BY <1>1, <1>4 DEF MadeInv
  <2> QED
    BY <1>2, <2>1 DEF Made
<1>5. module'.offsets \in [DOMAIN binary'.elem -> Nat]
  OBVIOUS
<1> QED
  BY <1>3, <1>4, <1>5 DEF MadeInv

(* Nothing is said of an instance that does not exist.                      *)
LEMMA MadeIdle ==
    ASSUME BlocksInv, MadeInv, binary' = binary, inst' = inst, module'.offsets = module.offsets,
           \A i \in Instances : Idle(i)
    PROVE  MadeInv'
<1>1. \A i \in Instances : Made(inst[i])'
  BY DEF Made, Idle
<1> QED
  BY <1>1 DEF MadeInv

(* Nothing is said of an instance without globals.                          *)
LEMMA MadeGone == ASSUME NEW r, r.pc \in {"new", "gone", "globals"} PROVE Made(r)
BY DEF Made

(* How the actions change an instance.                                      *)
LEMMA FailsMade ==
    ASSUME BlocksInv, NEW i \in Instances, NEW h, Fails(i, h)
    PROVE  \E r : inst' = [inst EXCEPT ![i] = r] /\ Made(r)
<1> DEFINE g == wasm_deinstantiate(h, i)
           f == [inst[i] EXCEPT !.pc = "gone"]
           r == [f EXCEPT !.ptr = g.ptr]
<1>1. inst' = [inst EXCEPT ![i] = r]
  BY DEF Fails, SetInstHeap
<1>2. IsInst(f) /\ f.pc = "gone"
  BY ShapeOf, SetPc
<1> HIDE DEF f, g
<1>3. r.pc = "gone"
  BY <1>2, SetPtr
<1> HIDE DEF r
<1>4. Made(r)
  BY <1>3, MadeGone
<1> QED
  BY <1>1, <1>4

(* A part that fails leaves an instance that is gone.                       *)
LEMMA PartFailsMade ==
    ASSUME BlocksInv, NEW i \in Instances, NEW names, NEW undo, NEW late,
           PartFails(i, names, undo, late)
    PROVE  \E r : inst' = [inst EXCEPT ![i] = r] /\ Made(r)
<1>1. PICK h : Fails(i, h)
  BY DEF PartFails
<1> QED
  BY <1>1, FailsMade

(* An instance changes its heap and keeps its arrays.                       *)
LEMMA SetMade ==
    ASSUME NEW i, NEW h, NEW f, IsInst(f), SetInstHeap(i, h, f)
    PROVE  \E r : /\ inst' = [inst EXCEPT ![i] = r]
                  /\ r.pc = f.pc /\ r.global = f.global /\ r.memory = f.memory
                  /\ r.table = f.table /\ r.intact = f.intact
<1> DEFINE p == h.ptr
           r == [f EXCEPT !.ptr = p]
<1>1. inst' = [inst EXCEPT ![i] = r]
  BY DEF SetInstHeap
<1> HIDE DEF p
<1>2. /\ r.pc = f.pc /\ r.global = f.global /\ r.memory = f.memory
      /\ r.table = f.table /\ r.intact = f.intact
  BY SetPtr
<1> HIDE DEF r
<1> QED
  BY <1>1, <1>2

(* A part that is complete keeps the arrays.                                *)
LEMMA PartMade ==
    ASSUME NEW i, NEW names, NEW next, NEW f, IsInst(f), PartDone(i, names, next, f)
    PROVE  \E r : /\ inst' = [inst EXCEPT ![i] = r]
                  /\ r.pc = next /\ r.global = f.global /\ r.memory = f.memory
                  /\ r.table = f.table /\ r.intact = f.intact
<1> DEFINE h == AfterPart(InstHeap(i), Blocks(names, i))
           g == [f EXCEPT !.pc = next]
<1>1. SetInstHeap(i, h, g)
  BY DEF PartDone
<1>2. /\ IsInst(g) /\ g.pc = next /\ g.global = f.global /\ g.memory = f.memory
      /\ g.table = f.table /\ g.intact = f.intact
  BY SetPc
<1> HIDE DEF g, h
<1>3. PICK r : /\ inst' = [inst EXCEPT ![i] = r]
               /\ r.pc = g.pc /\ r.global = g.global /\ r.memory = g.memory
               /\ r.table = g.table /\ r.intact = g.intact
  BY <1>1, <1>2, SetMade
<1> QED
  BY <1>2, <1>3

(* A step that keeps the module.                                            *)
LEMMA MadeKeeps ==
    ASSUME BlocksInv, MadeInv, UNCHANGED <<binary, module>>, NEW i \in Instances,
           \E r : inst' = [inst EXCEPT ![i] = r] /\ Made(r)
    PROVE  MadeInv'
<1>1. module'.offsets \in [DOMAIN binary.elem -> Nat]
  BY DEF MadeInv
<1> QED
  BY <1>1, MadeStep

(* Allocating an instance keeps what the instances hold.                    *)
LEMMA AllocMade ==
    ASSUME BlocksInv, MadeInv, NEW i \in Instances, AllocInstance(i)
    PROVE  MadeInv'
<1>1. UNCHANGED <<binary, module>> /\ IsInst(inst[i])
  BY ShapeOf DEF AllocInstance, PartDone
<1>2. CASE PartDone(i, <<"inst">>, "globals", inst[i])
  BY <1>1, <1>2, PartMade, MadeGone, MadeKeeps
<1>3. CASE inst' = [inst EXCEPT ![i].pc = "gone"]
  <2> DEFINE f == [inst[i] EXCEPT !.pc = "gone"]
  <2>1. inst' = [inst EXCEPT ![i] = f]
    BY <1>3
  <2>2. f.pc = "gone"
    BY <1>1, SetPc
  <2> HIDE DEF f
  <2>3. Made(f)
    BY <2>2, MadeGone
  <2> QED
    BY <1>1, <2>1, <2>3, MadeKeeps
<1> QED
  BY <1>2, <1>3 DEF AllocInstance

(* The globals have their initial values.                                   *)
LEMMA GlobalsMade ==
    ASSUME BlocksInv, MadeInv, NEW i \in Instances, globals_instantiate(i)
    PROVE  MadeInv'
<1> DEFINE names == Names(Total("global") > 0, "globals")
           ok == \A k \in 1 .. Count("global") :
                     binary.global[k].op = "get" => check_global_init_expr(binary.global[k].arg)
           late == ~ok
           f == [inst[i] EXCEPT !.global = InitialGlobals]
<1>1. UNCHANGED <<binary, module>>
  BY DEF globals_instantiate, PartDone, PartFails
<1>2. IsInst(f) /\ f.global = InitialGlobals
  <2>1. PICK r, v : r = inst[i] /\ v = InitialGlobals
    OBVIOUS
  <2>2. IsInst(r) /\ f = [r EXCEPT !.global = v]
    BY <2>1, ShapeOf
  <2> HIDE DEF f
  <2>3. IsInst(f) /\ f.global = v
    BY ONLY <2>2, SetGlobal
  <2> QED
    BY ONLY <2>1, <2>3
<1>3. PartDone(i, names, "memories", f) \/ PartFails(i, names, {"globals"}, late)
  BY DEF globals_instantiate
<1> HIDE DEF names, f, ok, late
<1>4. CASE PartDone(i, names, "memories", f)
  <2>1. PICK r : inst' = [inst EXCEPT ![i] = r] /\ r.pc = "memories" /\ r.global = InitialGlobals
    BY <1>2, <1>4, PartMade
  <2>2. Made(r)
    BY <2>1 DEF Made
  <2> QED
    BY <1>1, <2>1, <2>2, MadeKeeps
<1>5. CASE PartFails(i, names, {"globals"}, late)
  BY <1>1, <1>5, PartFailsMade, MadeKeeps
<1> QED
  BY <1>3, <1>4, <1>5

(* The memory is made empty.                                                *)
LEMMA MemoriesMade ==
    ASSUME BlocksInv, MadeInv, NEW i \in Instances, memories_instantiate(i)
    PROVE  MadeInv'
<1> DEFINE f == [inst[i] EXCEPT !.memory = EmptyMemory]
<1>1. UNCHANGED <<binary, module>> /\ inst[i].pc = "memories" /\ Made(inst[i])
  BY DEF memories_instantiate, PartDone, PartFails, MadeInv
<1>2. IsInst(f) /\ f.memory = EmptyMemory /\ f.global = inst[i].global
  <2>1. PICK r, v : r = inst[i] /\ v = EmptyMemory
    OBVIOUS
  <2>2. IsInst(r) /\ f = [r EXCEPT !.memory = v]
    BY <2>1, ShapeOf
  <2> HIDE DEF f
  <2>3. IsInst(f) /\ f.memory = v /\ f.global = r.global
    BY ONLY <2>2, SetMemory
  <2> QED
    BY ONLY <2>1, <2>3
<1>3. \E names : \/ PartDone(i, names, "tables", f)
                 \/ PartFails(i, names, {"memories", "memory_data", "heap_handle"}, TRUE)
  BY DEF memories_instantiate, EmptyMemory
<1>4. PICK names : \/ PartDone(i, names, "tables", f)
                   \/ PartFails(i, names, {"memories", "memory_data", "heap_handle"}, TRUE)
  BY <1>3
<1> HIDE DEF f
<1>5. CASE PartDone(i, names, "tables", f)
  <2>1. PICK r : /\ inst' = [inst EXCEPT ![i] = r] /\ r.pc = "tables"
                 /\ r.global = inst[i].global /\ r.memory = EmptyMemory
    BY <1>2, <1>5, PartMade
  <2>2. Made(r)
    BY <1>1, <2>1 DEF Made
  <2> QED
    BY <1>1, <2>1, <2>2, MadeKeeps
<1>6. CASE PartFails(i, names, {"memories", "memory_data", "heap_handle"}, TRUE)
  BY <1>1, <1>6, PartFailsMade, MadeKeeps
<1> QED
  BY <1>4, <1>5, <1>6

(* The table is made empty.                                                 *)
LEMMA TablesMade ==
    ASSUME BlocksInv, MadeInv, NEW i \in Instances, tables_instantiate(i)
    PROVE  MadeInv'
<1> DEFINE f == [inst[i] EXCEPT !.table = EmptyTable]
<1>1. UNCHANGED <<binary, module>> /\ inst[i].pc = "tables" /\ Made(inst[i])
  BY DEF tables_instantiate, PartDone, PartFails, MadeInv
<1>2. IsInst(f) /\ f.table = EmptyTable /\ f.global = inst[i].global /\ f.memory = inst[i].memory
  <2>1. PICK r, v : r = inst[i] /\ v = EmptyTable
    OBVIOUS
  <2>2. IsInst(r) /\ f = [r EXCEPT !.table = v]
    BY <2>1, ShapeOf
  <2> HIDE DEF f
  <2>3. IsInst(f) /\ f.table = v /\ f.global = r.global /\ f.memory = r.memory
    BY ONLY <2>2, SetTable
  <2> QED
    BY ONLY <2>1, <2>3
<1>3. \E names : PartDone(i, names, "functions", f) \/ PartFails(i, names, {}, FALSE)
  BY DEF tables_instantiate, EmptyTable
<1>4. PICK names : PartDone(i, names, "functions", f) \/ PartFails(i, names, {}, FALSE)
  BY <1>3
<1> HIDE DEF f
<1>5. CASE PartDone(i, names, "functions", f)
  <2>1. PICK r : /\ inst' = [inst EXCEPT ![i] = r] /\ r.pc = "functions"
                 /\ r.global = inst[i].global /\ r.memory = inst[i].memory /\ r.table = EmptyTable
    BY <1>2, <1>5, PartMade
  <2>2. Made(r)
    BY <1>1, <2>1 DEF Made
  <2> QED
    BY <1>1, <2>1, <2>2, MadeKeeps
<1>6. CASE PartFails(i, names, {}, FALSE)
  BY <1>1, <1>6, PartFailsMade, MadeKeeps
<1> QED
  BY <1>4, <1>5, <1>6

(* Making the functions keeps the arrays.                                   *)
LEMMA FunctionsMade ==
    ASSUME BlocksInv, MadeInv, NEW i \in Instances, functions_instantiate(i)
    PROVE  MadeInv'
<1>1. /\ UNCHANGED <<binary, module>> /\ inst[i].pc = "functions" /\ Made(inst[i])
      /\ IsInst(inst[i])
  BY ShapeOf DEF functions_instantiate, PartDone, PartFails, MadeInv
<1>2. PICK names : PartDone(i, names, "exports", inst[i]) \/ PartFails(i, names, {"functions"}, FALSE)
  BY DEF functions_instantiate
<1>3. CASE PartDone(i, names, "exports", inst[i])
  <2>1. PICK r : /\ inst' = [inst EXCEPT ![i] = r] /\ r.pc = "exports"
                 /\ r.global = inst[i].global /\ r.memory = inst[i].memory
                 /\ r.table = inst[i].table
    BY <1>1, <1>3, PartMade
  <2>2. Made(r)
    BY <1>1, <2>1 DEF Made
  <2> QED
    BY <1>1, <2>1, <2>2, MadeKeeps
<1>4. CASE PartFails(i, names, {"functions"}, FALSE)
  BY <1>1, <1>4, PartFailsMade, MadeKeeps
<1> QED
  BY <1>2, <1>3, <1>4

(* Making the exports keeps the arrays.                                     *)
LEMMA ExportsMade ==
    ASSUME BlocksInv, MadeInv, NEW i \in Instances, export_functions_instantiate(i)
    PROVE  MadeInv'
<1> DEFINE f == [inst[i] EXCEPT !.pc = "data"]
<1>1. UNCHANGED <<binary, module>> /\ inst[i].pc = "exports" /\ Made(inst[i])
  BY DEF export_functions_instantiate, PartFails, MadeInv
<1>2. /\ IsInst(f) /\ f.pc = "data" /\ f.global = inst[i].global /\ f.memory = inst[i].memory
      /\ f.table = inst[i].table
  BY ShapeOf, SetPc
<1>3. (\E h : SetInstHeap(i, h, f)) \/ \E names : PartFails(i, names, {}, FALSE)
  BY DEF export_functions_instantiate
<1> HIDE DEF f
<1>4. ASSUME NEW h, SetInstHeap(i, h, f) PROVE MadeInv'
  <2>1. PICK r : /\ inst' = [inst EXCEPT ![i] = r] /\ r.pc = "data"
                 /\ r.global = inst[i].global /\ r.memory = inst[i].memory
                 /\ r.table = inst[i].table
    BY <1>2, <1>4, SetMade
  <2>2. Made(r)
    BY <1>1, <2>1 DEF Made
  <2> QED
    BY <1>1, <2>1, <2>2, MadeKeeps
<1>5. ASSUME NEW names, PartFails(i, names, {}, FALSE) PROVE MadeInv'
  BY <1>1, <1>5, PartFailsMade, MadeKeeps
<1> QED
  BY <1>3, <1>4, <1>5

(* Making the wasi context keeps the arrays.                                *)
LEMMA WasiMade ==
    ASSUME BlocksInv, MadeInv, NEW i \in Instances, InitWasi(i)
    PROVE  MadeInv'
<1>1. UNCHANGED <<binary, module>> /\ inst[i].pc = "wasi" /\ Made(inst[i]) /\ IsInst(inst[i])
  BY ShapeOf DEF InitWasi, PartDone, PartFails, MadeInv
<1>2. PICK names : \/ PartDone(i, names, "start", inst[i])
                   \/ PartFails(i, names, ToSet(wasi_fields), TRUE)
  BY DEF InitWasi
<1>3. CASE PartDone(i, names, "start", inst[i])
  <2>1. PICK r : /\ inst' = [inst EXCEPT ![i] = r] /\ r.pc = "start"
                 /\ r.memory = inst[i].memory /\ r.table = inst[i].table
                 /\ r.intact = inst[i].intact
    BY <1>1, <1>3, PartMade
  <2>2. Made(r)
    BY <1>1, <2>1 DEF Made
  <2> QED
    BY <1>1, <2>1, <2>2, MadeKeeps
<1>4. CASE PartFails(i, names, ToSet(wasi_fields), TRUE)
  BY <1>1, <1>4, PartFailsMade, MadeKeeps
<1> QED
  BY <1>2, <1>3, <1>4

(* Running the start function keeps the arrays.                             *)
LEMMA StartMade ==
    ASSUME BlocksInv, MadeInv, NEW i \in Instances, RunStart(i)
    PROVE  MadeInv'
<1> DEFINE f == [inst[i] EXCEPT !.pc = "live"]
<1>1. UNCHANGED <<binary, module>> /\ inst[i].pc = "start" /\ Made(inst[i])
  BY DEF RunStart, MadeInv
<1>2. /\ IsInst(f) /\ f.pc = "live" /\ f.memory = inst[i].memory
      /\ f.table = inst[i].table /\ f.intact = inst[i].intact
  BY ShapeOf, SetPc
<1>3. \E h : SetInstHeap(i, h, f) \/ Fails(i, h)
  BY DEF RunStart
<1> HIDE DEF f
<1>4. ASSUME NEW h, SetInstHeap(i, h, f) PROVE MadeInv'
  <2>1. PICK r : /\ inst' = [inst EXCEPT ![i] = r] /\ r.pc = "live"
                 /\ r.memory = inst[i].memory /\ r.table = inst[i].table
                 /\ r.intact = inst[i].intact
    BY <1>2, <1>4, SetMade
  <2>2. Made(r)
    BY <1>1, <2>1 DEF Made
  <2> QED
    BY <1>1, <2>1, <2>2, MadeKeeps
<1>5. ASSUME NEW h, Fails(i, h) PROVE MadeInv'
  BY <1>1, <1>5, FailsMade, MadeKeeps
<1> QED
  BY <1>3, <1>4, <1>5

(* Destroying an instance keeps what the others hold.                       *)
LEMMA DeinstantiateMade ==
    ASSUME BlocksInv, MadeInv, NEW i \in Instances, Deinstantiate(i)
    PROVE  MadeInv'
<1>1. UNCHANGED <<binary, module>> /\ Fails(i, InstHeap(i))
  BY DEF Deinstantiate
<1> QED
  BY <1>1, FailsMade, MadeKeeps

-----------------------------------------------------------------------------
(* The sizes of the memory and of the table.                                *)
LEMMA SeqGrows == ASSUME NEW A, NEW B, A \subseteq B, NEW s \in Seq(A) PROVE s \in Seq(B)
<1>1. Len(s) \in Nat /\ s \in [1 .. Len(s) -> B]
  OBVIOUS
<1> QED
  BY <1>1

(* The first element of one of two sequences.                               *)
LEMMA HeadOf ==
    ASSUME NEW A, NEW x \in Seq(A), NEW y \in Seq(A), x \o y # << >>
    PROVE  Head(x \o y) \in A
<1>1. x \o y \in Seq(A)
  OBVIOUS
<1> DEFINE z == x \o y
<1>2. z \in Seq(A) /\ z # << >>
  BY <1>1
<1> HIDE DEF z
<1>3. Head(z) \in A
  BY <1>2
<1> QED
  BY <1>3 DEF z

(* Both sizes are numbers below 2^32.                                       *)
LEMMA SizesOK ==
    ASSUME binary \in Binary
    PROVE  MemorySize \in Size /\ TableSize \in Size
<1> DEFINE A == [size : Size] \cup [module : STRING, name : STRING, size : Size]
<1>1. \A a \in A : a.size \in Size
  OBVIOUS
<1>2. /\ binary.memory \in Seq(A) /\ binary.table \in Seq(A)
      /\ binary.import.memory \in Seq(A) /\ binary.import.table \in Seq(A)
  <2>1. PICK B, C : B = [size : Size] /\ C = [module : STRING, name : STRING, size : Size]
    OBVIOUS
  <2>2. B \subseteq A /\ C \subseteq A
    BY <2>1
  <2>3. /\ binary.memory \in Seq(B) /\ binary.table \in Seq(B)
        /\ binary.import.memory \in Seq(C) /\ binary.import.table \in Seq(C)
    BY <2>1, BinaryTypes, ImportTypes
  <2> HIDE DEF A
  <2> QED
    BY <2>2, <2>3, SeqGrows
<1> HIDE DEF A
<1>3. << >> \in Seq(A) /\ 0 \in Size
  BY WasmModuleAssumption DEF Size
<1>4. MemorySize \in Size
  <2>1. PICK x, y : /\ x = (IF ImportCount("memory") > 0 THEN binary.import.memory ELSE << >>)
                    /\ y = (IF Count("memory") > 0 THEN binary.memory ELSE << >>)
    OBVIOUS
  <2>2. x \in Seq(A) /\ y \in Seq(A)
    BY <1>2, <1>3, <2>1
  <2>3. MemorySize = IF x \o y = << >> THEN 0 ELSE Head(x \o y).size
    BY <2>1 DEF MemorySize
  <2>4. x \o y # << >> => Head(x \o y) \in A
    BY <2>2, HeadOf
  <2>5. x \o y # << >> => Head(x \o y).size \in Size
    BY ONLY <1>1, <2>4
  <2> QED
    BY <1>3, <2>3, <2>5
<1>5. TableSize \in Size
  <2>1. PICK x, y : /\ x = (IF ImportCount("table") > 0 THEN binary.import.table ELSE << >>)
                    /\ y = (IF Count("table") > 0 THEN binary.table ELSE << >>)
    OBVIOUS
  <2>2. x \in Seq(A) /\ y \in Seq(A)
    BY <1>2, <1>3, <2>1
  <2>3. TableSize = IF x \o y = << >> THEN 0 ELSE Head(x \o y).size
    BY <2>1 DEF TableSize
  <2>4. x \o y # << >> => Head(x \o y) \in A
    BY <2>2, HeadOf
  <2>5. x \o y # << >> => Head(x \o y).size \in Size
    BY ONLY <1>1, <2>4
  <2> QED
    BY <1>3, <2>3, <2>5
<1> QED
  BY <1>4, <1>5

(* So is the number of functions.                                           *)
LEMMA TotalNat == ASSUME binary \in Binary PROVE Total("func") \in Nat
<1>1. PICK m, n : m = Len(binary.func) /\ n = Len(binary.import.func)
  OBVIOUS
<1>2. m \in Nat /\ n \in Nat
  BY <1>1, Lengths
<1>3. Count("func") \in Nat /\ ImportCount("func") \in Nat
  BY <1>1, <1>2 DEF Count, ImportCount
<1> QED
  BY <1>3 DEF Total

(* The data segments of a module as a list of segments.                     *)
LEMMA DataSegments ==
    ASSUME binary \in Binary, LoadedInv
    PROVE  \E N \in Nat :
              /\ DOMAIN binary.data = 1 .. N
              /\ SegmentsOK(Nat, MemorySize, N, binary.data, Active, DataContents)
              /\ [k \in DOMAIN binary.data |-> binary.data[k].arg] \in [1 .. N -> Nat]
<1>1. PICK N \in Nat : Len(binary.data) = N /\ DOMAIN binary.data = 1 .. N
  BY BinaryTypes
<1>2. /\ \A k \in 1 .. N : /\ binary.data[k].op \in {"const", "get"}
                           /\ binary.data[k].arg \in Nat /\ binary.data[k].len \in Nat
  BY <1>1, ElementTypes
<1>3. Active \subseteq 1 .. N
  BY <1>1, ActiveValid
<1>4. \A k \in Active : DataContents[k] \in Seq(Nat)
  <2> SUFFICES ASSUME NEW k \in Active PROVE DataContents[k] \in Seq(Nat)
    OBVIOUS
  <2>1. k \in 1 .. N /\ k \in Nat /\ binary.data[k].len \in Nat
    BY <1>2, <1>3
  <2>2. DataContents[k] = [n \in 1 .. binary.data[k].len |-> k]
    BY <1>1, <2>1 DEF DataContents
  <2> QED
    BY <2>1, <2>2
<1>5. MemorySize \in Nat /\ MemorySize < U32
  BY SizesOK, WasmModuleAssumption DEF Size
<1>6. SegmentsOK(Nat, MemorySize, N, binary.data, Active, DataContents)
  BY <1>1, <1>2, <1>3, <1>4, <1>5 DEF SegmentsOK
<1>7. [k \in DOMAIN binary.data |-> binary.data[k].arg] \in [1 .. N -> Nat]
  BY <1>1, <1>2
<1> QED
  BY <1>1, <1>6, <1>7

(* The element segments of a module as a list of segments.                  *)
LEMMA ElemSegments ==
    ASSUME binary \in Binary, LoadedInv
    PROVE  /\ Used = 1 .. Count("elem")
           /\ \E N \in Nat :
                 /\ DOMAIN binary.elem = 1 .. N
                 /\ SegmentsOK(Entries, TableSize, N, binary.elem, Used, ElemContents)
<1>1. PICK N \in Nat : Len(binary.elem) = N /\ DOMAIN binary.elem = 1 .. N
  BY BinaryTypes
<1>2. Count("elem") \in {0, N}
  BY <1>1 DEF Count
<1>3. Used = 1 .. Count("elem")
  <2>1. CASE Count("elem") = 0
    BY <2>1 DEF Used
  <2>2. CASE Count("elem") # 0
    <3>1. 1 \in 1 .. Count("elem")
      BY <1>2, <2>2
    <3>2. 1 \in DOMAIN binary.elem /\ binary.elem[1].table < Total("table")
      BY <3>1, ElemValid
    <3>3. binary.elem[1].table \in Nat
      BY <3>2, ElementTypes
    <3>4. Total("table") > 0
      <4>1. "elem" \in module.loaded
        BY <2>2, CountOf
      <4>2. check_table_index(binary.elem[1].table)
        BY <3>2, <4>1 DEF LoadedInv
      <4> QED
        BY <4>2 DEF check_table_index
    <3> QED
      BY <3>4 DEF Used
  <2> QED
    BY <2>1, <2>2
<1>4. Used \subseteq 1 .. N
  BY <1>1, <1>2, <1>3
<1>5. \A k \in 1 .. N : binary.elem[k].op \in {"const", "get"} /\ binary.elem[k].funcs \in Seq(Nat)
  BY <1>1, ElementTypes
<1>6. \A k \in Used : ElemContents[k] \in Seq(Entries)
  <2> SUFFICES ASSUME NEW k \in Used PROVE ElemContents[k] \in Seq(Entries)
    OBVIOUS
  <2>1. k \in 1 .. N /\ k \in 1 .. Count("elem")
    BY <1>3, <1>4
  <2>2. PICK funcs : funcs = binary.elem[k].funcs
    OBVIOUS
  <2>3. ElemContents[k] = funcs /\ funcs \in Seq(Nat)
    BY <1>1, <1>5, <2>1, <2>2 DEF ElemContents
  <2>4. \A f \in DOMAIN funcs : funcs[f] < Total("func")
    BY <2>1, <2>2, ElemValid
  <2>5. \A f \in DOMAIN funcs : funcs[f] \in Entries
    <3> SUFFICES ASSUME NEW f \in DOMAIN funcs PROVE funcs[f] \in Entries
      OBVIOUS
    <3>1. PICK x, t : x = funcs[f] /\ t = Total("func")
      OBVIOUS
    <3>2. x \in Nat /\ x < t
      BY <2>3, <2>4, <3>1
    <3>3. t \in Nat
      BY <3>1, TotalNat
    <3>4. x \in 0 .. t - 1
      BY ONLY <3>2, <3>3
    <3> QED
      BY <3>1, <3>4 DEF Entries
  <2>6. funcs \in Seq(Entries)
    <3>1. Len(funcs) \in Nat /\ funcs \in [1 .. Len(funcs) -> Nat]
      BY <2>3
    <3>2. funcs \in [1 .. Len(funcs) -> Entries]
      BY <2>5, <3>1
    <3> QED
      BY <3>1, <3>2
  <2> QED
    BY <2>3, <2>6
<1>7. TableSize \in Nat /\ TableSize < U32
  BY SizesOK, WasmModuleAssumption DEF Size
<1>8. SegmentsOK(Entries, TableSize, N, binary.elem, Used, ElemContents)
  BY <1>1, <1>4, <1>5, <1>6, <1>7 DEF SegmentsOK
<1> QED
  BY <1>1, <1>3, <1>8

(* Segments that are where the binary puts them.                            *)
LEMMA ExactFrom ==
    ASSUME NEW segs, NEW used, used \subseteq DOMAIN segs, NEW contents, NEW first,
           \A k \in used : first[k] = segs[k].arg,
           NEW shown, shown = Unwrapped(OffsetsOf(segs), used, contents)
    PROVE  Exact(segs, used, shown, contents, first)
<1>1. \A k \in used : OffsetsOf(segs)[k] = OffsetFor(segs[k])
  BY OffsetsAre
<1>2. shown \subseteq used
  BY DEF Unwrapped
<1>3. \A k \in used : k \in shown <=> OffsetFor(segs[k]) + Len(contents[k]) < U32
  BY <1>1 DEF Unwrapped
<1> QED
  BY <1>2, <1>3 DEF Exact

(* The memory after the data segments is the one they describe.             *)
LEMMA DataWritten ==
    ASSUME binary \in Binary, LoadedInv, NEW i, inst[i].global = InitialGlobals,
           inst[i].memory = EmptyMemory, DataApplied(i).ok
    PROVE  DataApplied(i).array = MemoryWritten
<1> DEFINE first == [k \in DOMAIN binary.data |-> binary.data[k].arg]
<1>1. PICK N \in Nat :
         /\ DOMAIN binary.data = 1 .. N
         /\ SegmentsOK(Nat, MemorySize, N, binary.data, Active, DataContents)
         /\ first \in [1 .. N -> Nat]
  BY DataSegments
<1>2. Active \subseteq DOMAIN binary.data
  BY <1>1 DEF SegmentsOK
<1>3. \A k \in Active : first[k] = binary.data[k].arg
  BY <1>2
<1>4. DataStart(i).offsets = first /\ DataStart(i).array = [e \in 1 .. MemorySize |-> 0]
  BY DEF DataStart, EmptyMemory
<1>5. DataApplied(i) = AllApplied(i, DataStart(i), binary.data, Active, DataContents)
  BY DEF DataApplied
<1> HIDE DEF first
<1>6. Exact(binary.data, Active, DataShown, DataContents, first)
  BY <1>2, <1>3, ExactFrom DEF DataShown
<1>7. 0 \in Nat
  OBVIOUS
<1>8. PICK s, z : s = DataStart(i) /\ z = DataApplied(i)
  OBVIOUS
<1>9. s.offsets = first /\ s.array = [e \in 1 .. MemorySize |-> 0]
      /\ z = AllApplied(i, s, binary.data, Active, DataContents) /\ z.ok
  BY <1>4, <1>5, <1>8
<1>10. binary \in Binary /\ inst[i].global = InitialGlobals
  OBVIOUS
<1>11. SegmentsRun(i, Nat, MemorySize, N, binary.data, Active, DataContents, first, 0, z)
  BY <1>1, <1>7, <1>9, <1>10 DEF SegmentsRun
<1>12. z.array = Reference(MemorySize, OffsetsOf(binary.data), DataShown, DataContents, 0)
  BY ONLY <1>6, <1>9, <1>11, SegmentsApplied
<1> QED
  BY <1>8, <1>12 DEF MemoryWritten

(* Applying the data segments makes the memory that they describe.          *)
LEMMA DataMade ==
    ASSUME BlocksInv, LoadedInv, MadeInv, NEW i \in Instances, DataInit(i)
    PROVE  MadeInv'
<1> DEFINE v == DataApplied(i).array
           f == [inst[i] EXCEPT !.pc = "elem", !.memory = v]
<1>1. /\ inst[i].pc = "data" /\ UNCHANGED <<binary, module>> /\ Made(inst[i])
      /\ (DataApplied(i).ok /\ SetInstHeap(i, InstHeap(i), f)) \/ Fails(i, InstHeap(i))
  BY DataInitSteps DEF MadeInv
<1>2. inst[i].global = InitialGlobals /\ inst[i].memory = EmptyMemory
      /\ inst[i].table = EmptyTable
  BY <1>1 DEF Made
<1>3. IsInst(f) /\ f.pc = "elem" /\ f.global = inst[i].global /\ f.memory = v
      /\ f.table = inst[i].table
  <2> HIDE DEF v
  <2> QED
    BY WithMemory
<1>4. DataApplied(i).ok => v = MemoryWritten
  BY <1>2, DataWritten, InBinary DEF BlocksInv
<1> HIDE DEF v, f
<1>5. CASE DataApplied(i).ok /\ SetInstHeap(i, InstHeap(i), f)
  <2>1. PICK r : /\ inst' = [inst EXCEPT ![i] = r] /\ r.pc = "elem"
                 /\ r.global = inst[i].global /\ r.memory = v /\ r.table = inst[i].table
    BY <1>3, <1>5, SetMade
  <2>2. Made(r)
    BY <1>2, <1>4, <1>5, <2>1 DEF Made
  <2> QED
    BY <1>1, <2>1, <2>2, MadeKeeps
<1>6. CASE Fails(i, InstHeap(i))
  BY <1>1, <1>6, FailsMade, MadeKeeps
<1> QED
  BY <1>1, <1>5, <1>6

(* The table after the table segments holds functions of the module, and is *)
(* the one they describe when no offset was overwritten.                    *)
LEMMA ElemWritten ==
    ASSUME binary \in Binary, LoadedInv, NEW i, inst[i].global = InitialGlobals,
           inst[i].table = EmptyTable, module.offsets \in [DOMAIN binary.elem -> Nat]
    PROVE  /\ ElemApplied(i).offsets \in [DOMAIN binary.elem -> Nat]
           /\ \A e \in DOMAIN ElemApplied(i).array : ElemApplied(i).array[e] \in Entries
           /\ (ElemApplied(i).ok
                  /\ \A k \in Used : module.offsets[k] = binary.elem[k].arg) =>
                 ElemApplied(i).array = TableWritten
<1>1. PICK N \in Nat :
         /\ DOMAIN binary.elem = 1 .. N
         /\ SegmentsOK(Entries, TableSize, N, binary.elem, Used, ElemContents)
  BY ElemSegments
<1>2. Used \subseteq DOMAIN binary.elem /\ Used = 1 .. Count("elem")
  BY <1>1, ElemSegments DEF SegmentsOK
<1>3. NULL \in Entries
  BY DEF Entries
<1>4. PICK s, z : s = ElemStart(i) /\ z = ElemApplied(i)
  OBVIOUS
<1>5. PICK first : first = module.offsets
  OBVIOUS
<1>6. s.offsets = first /\ s.array = [e \in 1 .. TableSize |-> NULL]
      /\ z = AllApplied(i, s, binary.elem, Used, ElemContents)
      /\ first \in [1 .. N -> Nat]
  BY <1>1, <1>4, <1>5 DEF ElemStart, EmptyTable, ElemApplied
<1>7. binary \in Binary /\ inst[i].global = InitialGlobals
  OBVIOUS
<1>7a. SegmentsRun(i, Entries, TableSize, N, binary.elem, Used, ElemContents, first, NULL, z)
  BY <1>1, <1>3, <1>6, <1>7 DEF SegmentsRun
<1>7b. PICK V, size, segs, contents :
          /\ V = Entries /\ size = TableSize /\ segs = binary.elem /\ contents = ElemContents
  OBVIOUS
<1>7c. SegmentsRun(i, V, size, N, segs, Used, contents, first, NULL, z)
  BY ONLY <1>7a, <1>7b
<1>7d. z.offsets \in [1 .. N -> Nat] /\ z.array \in [1 .. size -> V]
  BY ONLY <1>7c, SegmentsApplied
<1>7e. ASSUME z.ok, Exact(segs, Used, ElemShown, contents, first)
       PROVE  z.array = Reference(size, OffsetsOf(segs), ElemShown, contents, NULL)
  BY ONLY <1>7c, <1>7e, SegmentsApplied
<1>8. /\ z.offsets \in [1 .. N -> Nat] /\ z.array \in [1 .. TableSize -> Entries]
      /\ (z.ok /\ Exact(binary.elem, Used, ElemShown, ElemContents, first)) =>
            z.array = Reference(TableSize, OffsetsOf(binary.elem), ElemShown, ElemContents, NULL)
  BY ONLY <1>7b, <1>7d, <1>7e
<1>9. (\A k \in Used : first[k] = binary.elem[k].arg)
         => Exact(binary.elem, Used, ElemShown, ElemContents, first)
  BY <1>2, ExactFrom DEF ElemShown
<1>11. z.offsets \in [DOMAIN binary.elem -> Nat]
  BY <1>1, <1>8
<1>12. \A e \in DOMAIN z.array : z.array[e] \in Entries
  BY <1>8
<1>13. (z.ok /\ \A k \in Used : first[k] = binary.elem[k].arg)
          => z.array = TableWritten
  BY <1>8, <1>9 DEF TableWritten
<1> QED
  BY <1>4, <1>5, <1>11, <1>12, <1>13

(* Applying the table segments makes the table that they describe.          *)
LEMMA ElemMade ==
    ASSUME BlocksInv, LoadedInv, MadeInv, NEW i \in Instances, ElemInit(i)
    PROVE  MadeInv'
<1> DEFINE v == ElemApplied(i).array
           ok == \A k \in Used : module.offsets[k] = binary.elem[k].arg
           offsets == ElemApplied(i).offsets
           f == [inst[i] EXCEPT !.pc = "wasi", !.table = v, !.intact = ok]
<1>1. /\ inst[i].pc = "elem" /\ Made(inst[i]) /\ module' = [module EXCEPT !.offsets = offsets]
      /\ (ElemApplied(i).ok /\ SetInstHeap(i, InstHeap(i), f)) \/ Fails(i, InstHeap(i))
  BY ElemInitSteps DEF MadeInv
<1>2. /\ inst[i].global = InitialGlobals /\ inst[i].table = EmptyTable
      /\ inst[i].memory = MemoryWritten
  BY <1>1 DEF Made
<1>3. IsInst(f) /\ f.pc = "wasi" /\ f.memory = inst[i].memory /\ f.table = v /\ f.intact = ok
  <2> HIDE DEF v, ok
  <2> QED
    BY WithTable
<1>4. /\ offsets \in [DOMAIN binary.elem -> Nat] /\ \A e \in DOMAIN v : v[e] \in Entries
      /\ (ElemApplied(i).ok /\ ok) => v = TableWritten
  BY <1>2, ElemWritten, InBinary DEF BlocksInv, MadeInv
<1> HIDE DEF v, f, ok, offsets
<1>5. /\ binary' = binary /\ module'.loaded = module.loaded
      /\ module'.offsets \in [DOMAIN binary.elem -> Nat]
  <2>1. module'.loaded = module.loaded /\ module'.offsets = offsets
    BY <1>1 DEF BlocksInv, ShapeInv
  <2> QED
    BY <1>4, <2>1 DEF ElemInit
<1>6. CASE ElemApplied(i).ok /\ SetInstHeap(i, InstHeap(i), f)
  <2>1. PICK r : /\ inst' = [inst EXCEPT ![i] = r] /\ r.pc = "wasi"
                 /\ r.memory = inst[i].memory /\ r.table = v /\ r.intact = ok
    BY <1>3, <1>6, SetMade
  <2>2. Made(r)
    BY <1>2, <1>4, <1>6, <2>1 DEF Made
  <2> QED
    BY <1>5, <2>1, <2>2, MadeStep
<1>7. CASE Fails(i, InstHeap(i))
  BY <1>5, <1>7, FailsMade, MadeStep
<1> QED
  BY <1>1, <1>6, <1>7

-----------------------------------------------------------------------------
(* The invariant of the instances.                                          *)

InstancesInv == LoadInv /\ MadeInv

(* No instance exists at first.                                             *)
LEMMA InitMade == Init => MadeInv
<1> SUFFICES ASSUME Init PROVE MadeInv
  OBVIOUS
<1>1. binary \in Binary
  BY BinariesAssumption DEF Init
<1>2. \A k \in DOMAIN binary.elem : binary.elem[k].arg \in Nat
  BY <1>1, ElementTypes
<1>3. module.offsets \in [DOMAIN binary.elem -> Nat]
  BY <1>2 DEF Init
<1>4. \A i \in Instances : inst[i].pc = "new"
  BY DEF Init
<1> QED
  BY <1>3, <1>4, MadeGone DEF MadeInv

(* The module changes only while no instance exists.                        *)
LEMMA ModuleMade ==
    ASSUME BlocksInv, MadeInv,
           create_module \/ CreateSections \/ LoadSection \/ FinishLoad \/ Unload
    PROVE  MadeInv'
<1>1. \A i \in Instances : Idle(i)
  <2>1. CASE Unload
    BY <2>1 DEF Unload, Idle
  <2>2. CASE create_module \/ CreateSections \/ LoadSection \/ FinishLoad
    <3>1. module.pc # "loaded"
      BY <2>2 DEF create_module, CreateSections, LoadSection, FinishLoad
    <3> QED
      BY <3>1 DEF BlocksInv, ModuleInv
  <2> QED
    BY <2>1, <2>2
<1>2. \E h, pc, next, loaded : SetModuleHeap(h, pc, next, loaded)
  <2>1. ASSUME NEW steps, LoadFails(steps)
        PROVE  \E h, pc, next, loaded : SetModuleHeap(h, pc, next, loaded)
    BY <2>1 DEF LoadFails
  <2>2. ASSUME NEW steps, NEW pc, NEW next, NEW loaded, LoadStep(steps, pc, next, loaded)
        PROVE  \E h, c, n, l : SetModuleHeap(h, c, n, l)
    BY <2>2 DEF LoadStep
  <2>3. CASE create_module
    BY <2>2, <2>3 DEF create_module
  <2>4. CASE CreateSections
    BY <2>1, <2>2, <2>4 DEF CreateSections
  <2>5. CASE LoadSection
    BY <2>1, <2>2, <2>5 DEF LoadSection
  <2>6. CASE FinishLoad
    BY <2>1, <2>6 DEF FinishLoad
  <2>7. CASE Unload
    BY <2>7 DEF Unload
  <2> QED
    BY <2>3, <2>4, <2>5, <2>6, <2>7
<1>3. PICK h, pc, next, loaded : SetModuleHeap(h, pc, next, loaded)
  BY <1>2
<1>4. binary' = binary /\ inst' = inst /\ module'.offsets = module.offsets
  BY <1>3, SetModule DEF BlocksInv
<1> QED
  BY <1>1, <1>4, MadeIdle

(* A step that changes nothing keeps what the instances hold.               *)
LEMMA StutterMade == ASSUME MadeInv, UNCHANGED vars PROVE MadeInv'
<1>1. binary' = binary /\ module' = module /\ inst' = inst
  BY DEF vars
<1>2. /\ InitialGlobals' = InitialGlobals
      /\ MemoryWritten' = MemoryWritten
      /\ TableWritten' = TableWritten /\ EmptyMemory' = EmptyMemory
      /\ EmptyTable' = EmptyTable /\ Entries' = Entries
  BY <1>1, SizesKept
<1>3. ASSUME NEW i \in Instances PROVE Made(inst[i])'
  <2>1. Made(inst[i]) /\ inst'[i] = inst[i]
    BY <1>1 DEF MadeInv
  <2> QED
    BY <1>2, <2>1 DEF Made
<1> QED
  BY <1>1, <1>3 DEF MadeInv

(* Every step keeps what the instances hold.                                *)
LEMMA StepMade == InstancesInv /\ [Next]_vars => MadeInv'
<1> SUFFICES ASSUME InstancesInv, [Next]_vars PROVE MadeInv'
  OBVIOUS
<1>1. BlocksInv /\ LoadedInv /\ MadeInv
  BY DEF InstancesInv, LoadInv
<1>2. CASE create_module \/ CreateSections \/ LoadSection \/ FinishLoad \/ Unload
  BY <1>1, <1>2, ModuleMade
<1>3. ASSUME NEW i \in Instances,
             \/ AllocInstance(i) \/ globals_instantiate(i) \/ memories_instantiate(i)
             \/ tables_instantiate(i) \/ functions_instantiate(i)
             \/ export_functions_instantiate(i)
             \/ DataInit(i) \/ ElemInit(i) \/ InitWasi(i) \/ RunStart(i) \/ Deinstantiate(i)
      PROVE  MadeInv'
  BY <1>1, <1>3, AllocMade, GlobalsMade, MemoriesMade, TablesMade, FunctionsMade, ExportsMade,
     DataMade, ElemMade, WasiMade, StartMade, DeinstantiateMade
<1>4. CASE UNCHANGED vars
  BY <1>1, <1>4, StutterMade
<1> QED
  BY <1>2, <1>3, <1>4 DEF Next, Ended

(* Every instance holds at each stage of its making what the binary         *)
(* describes, for every set of binaries and of instances.                   *)
THEOREM LoadInstances == Spec => []InstancesInv
<1>1. Init => InstancesInv
  BY InitLoad, InitMade DEF InstancesInv
<1>2. InstancesInv /\ [Next]_vars => InstancesInv'
  BY StepLoad, StepMade DEF InstancesInv
<1> QED
  BY <1>1, <1>2, PTL DEF Spec

(* What the loader has checked is all that instantiation relies on: no      *)
(* index is used outside its array, and the table of an instance in use     *)
(* holds only functions of the module.                                      *)
THEOREM LoadIndicesValid == Spec => []IndicesValid
<1>1. InstancesInv => IndicesValid
  <2> SUFFICES ASSUME InstancesInv PROVE IndicesValid
    OBVIOUS
  <2>1. bad = {}
    BY DEF InstancesInv, LoadInv, BlocksInv, ModuleInv
  <2>2. ASSUME NEW i \in Instances, inst[i].pc = "live", NEW e \in DOMAIN inst[i].table
        PROVE  inst[i].table[e] \in {NULL} \cup 0 .. Total("func") - 1
    <3>1. Made(inst[i])
      BY DEF InstancesInv, MadeInv
    <3> QED
      BY <2>2, <3>1 DEF Made, Entries
  <2> QED
    BY <2>1, <2>2 DEF IndicesValid
<1> QED
  BY <1>1, LoadInstances, PTL

(* An instance in use began with the memory and the table that its segments *)
(* describe, and every segment fitted: all but those whose end wraps, which *)
(* leave nothing behind, and but a table whose offsets an earlier instance  *)
(* has overwritten.                                                         *)
THEOREM LoadInstanceExact == Spec => []InstanceExact
<1>1. InstancesInv => InstanceExact
  <2> SUFFICES ASSUME InstancesInv PROVE InstanceExact
    OBVIOUS
  <2>1. ASSUME NEW i \in Instances, inst[i].pc = "live"
        PROVE  /\ inst[i].intact => inst[i].table = TableWritten
               /\ inst[i].memory = MemoryWritten
    <3>1. Made(inst[i])
      BY DEF InstancesInv, MadeInv
    <3> QED
      BY <2>1, <3>1 DEF Made
  <2> QED
    BY <2>1 DEF InstanceExact, TableWritten, ElemShown, MemoryWritten, DataShown
<1> QED
  BY <1>1, LoadInstances, PTL
=============================================================================

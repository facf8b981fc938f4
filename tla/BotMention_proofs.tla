--------------------------- MODULE BotMention_proofs ---------------------------
(***************************************************************************)
(* Proofs about mentions, for any people, names, messages and accounts:    *)
(* what is stripped is delivered, the bot is recognised, and placeholders  *)
(* replaced one after the other, anywhere in the text, come to the same as *)
(* replacing each where the sender put it.                                 *)
(*                                                                         *)
(* The last is an induction over the text.  It is made on sets of numbers  *)
(* (NaturalInduction); the recursive functions of FlattenSeq and           *)
(* ReplaceKey are shown by it to exist, and then to do what they should    *)
(* (FlattenPositions, ReplaceSegments).                                    *)
(***************************************************************************)
EXTENDS BotMention, SequenceTheorems, WellFoundedInduction, TLAPS

-----------------------------------------------------------------------------
(* Induction, concatenation and replacement                                *)

\* Induction over the naturals, for a set of those that have the property.
LEMMA NaturalInduction ==
    ASSUME NEW S, 0 \in S, \A n \in Nat : n \in S => n + 1 \in S
    PROVE  Nat \subseteq S
<1> DEFINE T == Nat \ S
<1>1. SUFFICES ASSUME T # {} PROVE FALSE
  OBVIOUS
<1>2. PICK x \in T : \A y \in T : <<y, x>> \notin OpToRel(<, Nat)
  <2>1. T \subseteq Nat
    OBVIOUS
  <2> HIDE DEF T
  <2> QED
    BY <1>1, <2>1, NatLessThanWellFounded, WFMin
<1>3. x \in Nat /\ x # 0 /\ x - 1 \in Nat
  OBVIOUS
<1>4. x - 1 \notin T
  <2> DEFINE p == <<x - 1, x>>
  <2>1. p \in Nat \X Nat /\ p[1] < p[2]
    BY <1>3
  <2> HIDE DEF p
  <2>2. p \in OpToRel(<, Nat)
    BY <2>1 DEF OpToRel
  <2> QED
    BY <1>2, <2>2 DEF p
<1>5. x - 1 \in S /\ (x - 1) + 1 = x
  BY <1>3, <1>4
<1> QED
  BY <1>2, <1>3, <1>5

\* The recursion of FlattenSeq has a solution.
LEMMA FlattenRecursion ==
    ASSUME NEW s, NEW n \in Nat
    PROVE  \E f : f = [i \in 1..n |-> IF i = 1 THEN s[i] ELSE f[i-1] \o s[i]]
<1> DEFINE E(f, m) == f = [i \in 1..m |-> IF i = 1 THEN s[i] ELSE f[i-1] \o s[i]]
           S == {m \in Nat : \E f : E(f, m)}
<1>1. 0 \in S
  <2> DEFINE g == [i \in 1..0 |-> s[i]]
  <2>1. E(g, 0)
    OBVIOUS
  <2> HIDE DEF g
  <2> QED
    BY <2>1
<1>2. ASSUME NEW m \in Nat, m \in S PROVE m + 1 \in S
  <2>1. PICK f : E(f, m)
    BY <1>2
  <2> DEFINE g == [i \in 1..(m + 1) |->
                       IF i = m + 1
                       THEN IF m = 0 THEN s[1] ELSE f[m] \o s[m + 1]
                       ELSE f[i]]
  <2>2. E(g, m + 1)
    <3>1. ASSUME NEW i \in 1..(m + 1)
          PROVE  g[i] = IF i = 1 THEN s[i] ELSE g[i-1] \o s[i]
      <4>1. CASE i = m + 1
        BY <4>1
      <4>2. CASE i # m + 1
        <5>1. i \in 1..m /\ (i # 1 => i - 1 \in 1..m)
          BY <4>2
        <5>2. f[i] = IF i = 1 THEN s[i] ELSE f[i-1] \o s[i]
          BY <2>1, <5>1
        <5> QED
          BY <5>1, <5>2
      <4> QED
        BY <4>1, <4>2
    <3> HIDE DEF g
    <3>2. g = [i \in 1..(m + 1) |-> g[i]]
      BY DEF g
    <3> QED
      BY <3>1, <3>2
  <2> HIDE DEF g, E
  <2> QED
    BY <2>2
<1>3. \A m \in Nat : m \in S => m + 1 \in S
  BY <1>2
<1> HIDE DEF S
<1>4. n \in S
  BY <1>1, <1>3, NaturalInduction
<1> QED
  BY <1>4 DEF S

\* The prefixes that FlattenSeq concatenates, and their types.
LEMMA FlattenPrefixes ==
    ASSUME NEW Sym, NEW seqs \in Seq(Seq(Sym))
    PROVE  \E f \in [0..Len(seqs) -> Seq(Sym)] :
               /\ f[0] = <<>>
               /\ \A i \in 1..Len(seqs) : f[i] = f[i-1] \o seqs[i]
               /\ FlattenSeq(seqs) = f[Len(seqs)]
<1> DEFINE n == Len(seqs)
           F == CHOOSE f : f = [i \in 1..n |->
                                    IF i = 1 THEN seqs[i] ELSE f[i-1] \o seqs[i]]
           f == [i \in 0..n |-> IF i = 0 THEN <<>> ELSE F[i]]
<1>1. n \in Nat /\ \A i \in 1..n : seqs[i] \in Seq(Sym)
  BY LenProperties, ElementOfSeq
<1>2. F = [i \in 1..n |-> IF i = 1 THEN seqs[i] ELSE F[i-1] \o seqs[i]]
  <2>1. \E g : g = [i \in 1..n |-> IF i = 1 THEN seqs[i] ELSE g[i-1] \o seqs[i]]
    BY <1>1, FlattenRecursion
  <2> QED
    BY <2>1, Zenon
<1>3. FlattenSeq(seqs) = IF n = 0 THEN seqs ELSE F[n]
  BY DEF FlattenSeq
<1> HIDE DEF F
<1>4. \A i \in 1..n : F[i] = IF i = 1 THEN seqs[i] ELSE F[i-1] \o seqs[i]
  BY <1>2
<1>5. f[0] = <<>>
  BY <1>1
<1>6. \A i \in 1..n : f[i] = f[i-1] \o seqs[i]
  <2>1. ASSUME NEW i \in 1..n PROVE f[i] = f[i-1] \o seqs[i]
    <3>1. f[i] = F[i] /\ F[i] = IF i = 1 THEN seqs[i] ELSE F[i-1] \o seqs[i]
      BY <1>1, <1>4
    <3>2. CASE i = 1
      <4>1. f[i-1] = <<>> /\ f[i] = seqs[i]
        BY <1>1, <3>1, <3>2
      <4>2. seqs[i] \in Seq(Sym)
        BY <1>1
      <4> HIDE DEF f
      <4> QED
        BY <4>1, <4>2, ConcatEmptySeq
    <3>3. CASE i # 1
      <4>1. f[i-1] = F[i-1]
        BY <1>1, <3>3
      <4> QED
        BY <3>1, <3>3, <4>1
    <3> QED
      BY <3>2, <3>3
  <2> HIDE DEF f
  <2> QED
    BY <2>1
<1>7. f = [i \in 0..n |-> f[i]]
  OBVIOUS
<1>8. FlattenSeq(seqs) = f[n]
  BY <1>1, <1>3, EmptySeq
<1> HIDE DEF f
<1>9. \A i \in 0..n : f[i] \in Seq(Sym)
  <2> DEFINE S == {i \in Nat : i <= n => f[i] \in Seq(Sym)}
  <2>1. 0 \in S
    BY <1>5, EmptySeq
  <2>2. ASSUME NEW i \in Nat, i \in S PROVE i + 1 \in S
    <3>1. ASSUME i + 1 <= n PROVE f[i + 1] \in Seq(Sym)
      <4>1. f[i] \in Seq(Sym) /\ seqs[i + 1] \in Seq(Sym)
        BY <1>1, <2>2, <3>1
      <4>2. f[i + 1] = f[i] \o seqs[i + 1]
        <5>1. i + 1 \in 1..n /\ (i + 1) - 1 = i
          BY <1>1, <3>1
        <5> QED
          BY <1>6, <5>1
      <4>3. f[i] \o seqs[i + 1] \in Seq(Sym)
        BY <4>1, ConcatProperties
      <4> QED
        BY <4>2, <4>3
    <3> QED
      BY <3>1
  <2>3. \A i \in Nat : i \in S => i + 1 \in S
    BY <2>2
  <2> HIDE DEF S
  <2>4. Nat \subseteq S
    BY <2>1, <2>3, NaturalInduction
  <2> QED
    BY <1>1, <2>4 DEF S
<1>10. f \in [0..n -> Seq(Sym)]
  BY <1>7, <1>9
<1> QED
  BY <1>5, <1>6, <1>8, <1>10

\* f solves the recursion of ReplaceKey for a text s of length L and a key of
\* length K that stands at the positions Hits.
Replaces(f, s, by, L, K, Hits) ==
    /\ f = [i \in 1..(L + 1) |-> f[i]]
    /\ \A i \in 1..(L + 1) :
           f[i] = IF i > L THEN <<>>
                  ELSE IF i \in Hits THEN by \o f[i + K]
                       ELSE <<s[i]>> \o f[i + 1]

\* The recursion has a solution: it looks ahead, by one symbol or by the length
\* of the key.
LEMMA ReplaceRecursion ==
    ASSUME NEW s, NEW by, NEW L \in Nat, NEW K \in Nat \ {0}, NEW Hits,
           \A i \in Hits : i \in 1..L /\ i + K <= L + 1
    PROVE  \E f : Replaces(f, s, by, L, K, Hits)
<1> DEFINE Value(f, i) == IF i > L THEN <<>>
                          ELSE IF i \in Hits THEN by \o f[i + K]
                               ELSE <<s[i]>> \o f[i + 1]
           Solves(f, m) == \A i \in (L + 1 - m)..(L + 1) : f[i] = Value(f, i)
           S == {m \in Nat : m <= L => \E f : Solves(f, m)}
<1>1. 0 \in S
  <2> DEFINE g == [i \in {L + 1} |-> <<>>]
  <2>1. \A i \in (L + 1 - 0)..(L + 1) : i = L + 1
    OBVIOUS
  <2>2. g[L + 1] = Value(g, L + 1)
    OBVIOUS
  <2>3. Solves(g, 0)
    <3> HIDE DEF g, Value
    <3> QED
      BY <2>1, <2>2
  <2> HIDE DEF g, Solves
  <2> QED
    BY <2>3
<1>2. ASSUME NEW m \in Nat, m \in S PROVE m + 1 \in S
  <2>1. SUFFICES ASSUME m + 1 <= L PROVE \E f : Solves(f, m + 1)
    <3> HIDE DEF Solves
    <3> QED
      OBVIOUS
  <2>2. PICK f : Solves(f, m)
    <3> HIDE DEF Solves
    <3> QED
      BY <1>2, <2>1
  <2> DEFINE p == L - m
             g == [i \in p..(L + 1) |-> IF i = p THEN Value(f, p) ELSE f[i]]
  <2>3. p \in 1..L /\ L + 1 - (m + 1) = p /\ L + 1 - m = p + 1
    BY <2>1
  <2>4. ASSUME NEW i \in p..(L + 1) PROVE g[i] = Value(g, i)
    <3>1. \A j \in (p + 1)..(L + 1) : g[j] = f[j]
      BY <2>3
    <3>2. Value(g, i) = Value(f, i)
      <4>1. CASE i > L
        BY <4>1
      <4>2. CASE i <= L /\ i \in Hits
        <5>1. g[i + K] = f[i + K]
          <6>1. i + K \in (p + 1)..(L + 1)
            BY <2>3, <4>2
          <6> HIDE DEF g, p
          <6> QED
            BY <3>1, <6>1
        <5> HIDE DEF g, p
        <5> QED
          BY <4>2, <5>1
      <4>3. CASE i <= L /\ i \notin Hits
        <5>1. g[i + 1] = f[i + 1]
          <6>1. i + 1 \in (p + 1)..(L + 1)
            BY <2>3, <4>3
          <6> HIDE DEF g, p
          <6> QED
            BY <3>1, <6>1
        <5> HIDE DEF g, p
        <5> QED
          BY <4>3, <5>1
      <4> QED
        BY <2>3, <4>1, <4>2, <4>3
    <3>3. g[i] = Value(f, i)
      <4>1. CASE i = p
        <5> HIDE DEF Value
        <5> QED
          BY <4>1
      <4>2. CASE i # p
        <5>1. i \in (L + 1 - m)..(L + 1)
          BY <2>3, <4>2
        <5>2. f[i] = Value(f, i)
          <6> HIDE DEF Value
          <6> QED
            BY <2>2, <5>1
        <5>3. g[i] = f[i]
          <6> HIDE DEF Value
          <6> QED
            BY <4>2
        <5> HIDE DEF g, Value
        <5> QED
          BY <5>2, <5>3
      <4> QED
        BY <4>1, <4>2
    <3> HIDE DEF g, Value
    <3> QED
      BY <3>2, <3>3
  <2> HIDE DEF g, Value
  <2>5. Solves(g, m + 1)
    BY <2>3, <2>4
  <2> HIDE DEF Solves
  <2> QED
    BY <2>5
<1>3. \A m \in Nat : m \in S => m + 1 \in S
  <2> HIDE DEF S
  <2> QED
    BY <1>2
<1>4. PICK f : Solves(f, L)
  <2> HIDE DEF Solves
  <2>1. L \in S
    <3> HIDE DEF S
    <3> QED
      BY <1>1, <1>3, NaturalInduction
  <2> QED
    BY <2>1
<1> DEFINE g == [i \in 1..(L + 1) |-> f[i]]
<1>5. ASSUME NEW i \in 1..(L + 1) PROVE g[i] = Value(g, i)
  <2>1. f[i] = Value(f, i)
    <3>1. i \in (L + 1 - L)..(L + 1)
      OBVIOUS
    <3> HIDE DEF Value
    <3> QED
      BY <1>4, <3>1
  <2>2. i <= L /\ i \notin Hits => g[i + 1] = f[i + 1]
    OBVIOUS
  <2>3. i \in Hits => g[i + K] = f[i + K]
    OBVIOUS
  <2>4. g[i] = f[i]
    OBVIOUS
  <2> HIDE DEF g
  <2> QED
    BY <2>1, <2>2, <2>3, <2>4
<1>6. g = [i \in 1..(L + 1) |-> g[i]]
  OBVIOUS
<1> HIDE DEF g
<1> QED
  BY <1>5, <1>6 DEF Replaces

\* The key stands at position i.
Stands(key, s, i) ==
    /\ i + Len(key) <= Len(s) + 1
    /\ \A j \in 1..Len(key) : s[i + j - 1] = key[j]

\* The test of ReplaceKey, read symbol by symbol.
LEMMA StandsIsPrefix ==
    ASSUME NEW Sym, NEW s \in Seq(Sym), NEW key \in Seq(Sym), NEW i \in 1..Len(s)
    PROVE  IsPrefix(key, SubSeq(s, i, Len(s))) <=> Stands(key, s, i)
<1> DEFINE t == SubSeq(s, i, Len(s))
           K == Len(key)
<1>1. /\ Len(s) \in Nat /\ K \in Nat
      /\ t \in Seq(Sym) /\ Len(t) = Len(s) - i + 1
      /\ \A j \in 1..Len(t) : t[j] = s[i + j - 1]
  BY LenProperties, SubSeqProperties
<1>2. SubSeq(key, 1, K) = key
  BY SubSeqFull
<1>3. ASSUME K <= Len(t)
      PROVE  SubSeq(t, 1, K) = key <=> \A j \in 1..K : t[j] = key[j]
  <2>1. SubSeq(t, 1, K) \in Seq(Sym) /\ Len(SubSeq(t, 1, K)) = K
        /\ \A j \in 1..K : SubSeq(t, 1, K)[j] = t[j]
    <3> HIDE DEF t
    <3> QED
      BY <1>1, <1>3, SubSeqProperties
  <2> DEFINE u == SubSeq(t, 1, K)
  <2> HIDE DEF u, t
  <2> QED
    BY <2>1, SeqEqual DEF u
<1> HIDE DEF t
<1>4. K <= Len(t) <=> i + K <= Len(s) + 1
  BY <1>1
<1>5. K <= Len(t) => \A j \in 1..K : t[j] = s[i + j - 1]
  BY <1>1
<1> QED
  BY <1>2, <1>3, <1>4, <1>5 DEF IsPrefix, Stands, t

\* The first part of ConcatProperties.
LEMMA ConcatClosed == \A Sym : \A t, u \in Seq(Sym) : t \o u \in Seq(Sym)
BY ConcatProperties, Zenon

\* F tells what becomes of each suffix of s.
FromSuffix(F, s, key, by) ==
    /\ F[Len(s) + 1] = <<>>
    /\ \A i \in 1..Len(s) :
           F[i] = IF Stands(key, s, i) THEN by \o F[i + Len(key)]
                  ELSE <<s[i]>> \o F[i + 1]

\* The suffixes that ReplaceKey builds, and their types.
LEMMA ReplaceSuffixes ==
    ASSUME NEW Sym, NEW s \in Seq(Sym), NEW key \in Seq(Sym), key # <<>>,
           NEW by \in Seq(Sym)
    PROVE  \E F \in [1..(Len(s) + 1) -> Seq(Sym)] :
               FromSuffix(F, s, key, by) /\ ReplaceKey(s, key, by) = F[1]
<1> DEFINE L == Len(s)
           K == Len(key)
           F == CHOOSE f : f = [i \in 1..(L + 1) |->
                    IF i > L THEN <<>>
                    ELSE IF IsPrefix(key, SubSeq(s, i, L))
                         THEN by \o f[i + K]
                         ELSE <<s[i]>> \o f[i + 1]]
           Hits == {i \in 1..L : Stands(key, s, i)}
<1>1. L \in Nat /\ K \in Nat \ {0}
  BY LenProperties, EmptySeq
<1>2. \A i \in Hits : i \in 1..L /\ i + K <= L + 1
  BY DEF Stands
<1>3. \A f : [i \in 1..(L + 1) |->
                 IF i > L THEN <<>>
                 ELSE IF IsPrefix(key, SubSeq(s, i, L)) THEN by \o f[i + K]
                      ELSE <<s[i]>> \o f[i + 1]]
           = [i \in 1..(L + 1) |->
                 IF i > L THEN <<>>
                 ELSE IF i \in Hits THEN by \o f[i + K]
                      ELSE <<s[i]>> \o f[i + 1]]
  <2>1. \A i \in 1..(L + 1) : i <= L =>
            (IsPrefix(key, SubSeq(s, i, L)) <=> i \in Hits)
    <3>1. ASSUME NEW i \in 1..(L + 1), i <= L
          PROVE  IsPrefix(key, SubSeq(s, i, L)) <=> i \in Hits
      <4>1. i \in 1..Len(s)
        BY <1>1, <3>1
      <4> QED
        BY <4>1, StandsIsPrefix
    <3> HIDE DEF Hits, L
    <3> QED
      BY <3>1
  <2>2. \A i \in 1..(L + 1) : i > L <=> ~(i <= L)
    BY <1>1
  <2> HIDE DEF Hits, L, K
  <2> QED
    BY <2>1, <2>2, Zenon
<1>4. F = [i \in 1..(L + 1) |->
              IF i > L THEN <<>>
              ELSE IF i \in Hits THEN by \o F[i + K]
                   ELSE <<s[i]>> \o F[i + 1]]
  <2>1. \E f : f = [i \in 1..(L + 1) |->
                       IF i > L THEN <<>>
                       ELSE IF i \in Hits THEN by \o f[i + K]
                            ELSE <<s[i]>> \o f[i + 1]]
    <3> HIDE DEF Hits, L, K, F
    <3> DEFINE Value(f, i) == IF i > L THEN <<>>
                              ELSE IF i \in Hits THEN by \o f[i + K]
                                   ELSE <<s[i]>> \o f[i + 1]
    <3>1. \E f : /\ f = [i \in 1..(L + 1) |-> f[i]]
                 /\ \A i \in 1..(L + 1) : f[i] = Value(f, i)
      <4>1. \E f : Replaces(f, s, by, L, K, Hits)
        BY <1>1, <1>2, ReplaceRecursion, Zenon
      <4> QED
        BY <4>1 DEF Replaces
    <3>2. ASSUME NEW f, f = [i \in 1..(L + 1) |-> f[i]],
                 \A i \in 1..(L + 1) : f[i] = Value(f, i)
          PROVE  f = [i \in 1..(L + 1) |-> Value(f, i)]
      <4> HIDE DEF Value
      <4> QED
        BY <3>2, Zenon
    <3>3. \E f : f = [i \in 1..(L + 1) |-> Value(f, i)]
      <4> HIDE DEF Value
      <4> QED
        BY <3>1, <3>2
    <3> QED
      BY <3>3
  <2> HIDE DEF Hits, L, K
  <2>2. \E f : f = [i \in 1..(L + 1) |->
                       IF i > L THEN <<>>
                       ELSE IF IsPrefix(key, SubSeq(s, i, L))
                            THEN by \o f[i + K]
                            ELSE <<s[i]>> \o f[i + 1]]
    BY <2>1, <1>3, Zenon
  <2>3. F = [i \in 1..(L + 1) |->
                IF i > L THEN <<>>
                ELSE IF IsPrefix(key, SubSeq(s, i, L))
                     THEN by \o F[i + K]
                     ELSE <<s[i]>> \o F[i + 1]]
    BY <2>2, Zenon
  <2> HIDE DEF F
  <2> QED
    BY <2>3, <1>3, Zenon
<1>5. ReplaceKey(s, key, by) = F[1]
  BY DEF ReplaceKey
<1> HIDE DEF F
<1>6. F[L + 1] = <<>>
  BY <1>1, <1>4
<1>7. \A i \in 1..L : F[i] = IF i \in Hits THEN by \o F[i + K]
                             ELSE <<s[i]>> \o F[i + 1]
  <2> HIDE DEF Hits, K, L
  <2>1. \A i \in 1..L : i \in 1..(L + 1) /\ ~(i > L)
    BY <1>1
  <2> QED
    BY <1>4, <2>1, Zenon
<1>8. \A i \in 1..(L + 1) : F[i] \in Seq(Sym)
  <2> DEFINE T == {m \in Nat : \A i \in 1..(L + 1) : i + m >= L + 1 => F[i] \in Seq(Sym)}
  <2> HIDE DEF K, L, Hits
  <2>1. 0 \in T
    <3>1. \A i \in 1..(L + 1) : i + 0 >= L + 1 => i = L + 1
      BY <1>1
    <3>2. F[L + 1] \in Seq(Sym)
      BY <1>6, EmptySeq
    <3> QED
      BY <3>1, <3>2
  <2>2. ASSUME NEW m \in Nat, m \in T PROVE m + 1 \in T
    <3>1. ASSUME NEW i \in 1..(L + 1), i + (m + 1) >= L + 1
          PROVE  F[i] \in Seq(Sym)
      <4>1. CASE i = L + 1
        BY <4>1, <1>6, EmptySeq
      <4>2. CASE i # L + 1
        <5>1. i \in 1..L /\ i + 1 \in 1..(L + 1) /\ (i + 1) + m >= L + 1
          BY <1>1, <3>1, <4>2
        <5>2. CASE i \in Hits
          <6>1. i + K \in 1..(L + 1) /\ (i + K) + m >= L + 1
            BY <1>1, <1>2, <5>1, <5>2
          <6>2. F[i + K] \in Seq(Sym)
            BY <2>2, <6>1
          <6>3. F[i] = by \o F[i + K]
            BY <1>7, <5>1, <5>2
          <6> QED
            BY <6>2, <6>3, ConcatClosed
        <5>3. CASE i \notin Hits
          <6>1. F[i + 1] \in Seq(Sym)
            BY <2>2, <5>1
          <6>2. s[i] \in Sym
            BY <5>1, ElementOfSeq DEF L
          <6>3. <<s[i]>> \in Seq(Sym)
            BY <6>2
          <6>4. F[i] = <<s[i]>> \o F[i + 1]
            BY <1>7, <5>1, <5>3
          <6> QED
            BY <6>1, <6>3, <6>4, ConcatProperties
        <5> QED
          BY <5>2, <5>3
      <4> QED
        BY <4>1, <4>2
    <3> QED
      BY <3>1
  <2>3. \A m \in Nat : m \in T => m + 1 \in T
    <3> HIDE DEF T
    <3> QED
      BY <2>2
  <2>4. L \in T
    <3> HIDE DEF T
    <3> QED
      BY <1>1, <2>1, <2>3, NaturalInduction
  <2>5. \A i \in 1..(L + 1) : i + L >= L + 1
    BY <1>1
  <2> QED
    BY <2>4, <2>5
<1>9. F \in [1..(L + 1) -> Seq(Sym)]
  <2> HIDE DEF Hits, K, L
  <2> DEFINE Value(i) == IF i > L THEN <<>>
              ELSE IF i \in Hits THEN by \o F[i + K]
                   ELSE <<s[i]>> \o F[i + 1]
  <2>1. F = [i \in 1..(L + 1) |-> Value(i)]
    BY <1>4, Zenon
  <2> HIDE DEF Value
  <2>2. F = [i \in 1..(L + 1) |-> F[i]]
    BY <2>1
  <2> QED
    BY <1>8, <2>2
<1>10. \A i \in 1..L : i \in Hits <=> Stands(key, s, i)
  OBVIOUS
<1> HIDE DEF Hits
<1>11. FromSuffix(F, s, key, by)
  BY <1>6, <1>7, <1>10 DEF FromSuffix
<1> QED
  BY <1>5, <1>9, <1>11

\* The prefixes of a concatenation, as FlattenPrefixes gives them.
FromPrefix(f, seqs) ==
    /\ f[0] = <<>>
    /\ \A i \in 1..Len(seqs) : f[i] = f[i-1] \o seqs[i]

\* The m-th sequence stands in the concatenation where its predecessors end.
Placed(g, seqs, m) ==
    /\ Len(g[m]) = Len(g[m-1]) + Len(seqs[m])
    /\ Len(g[m]) <= Len(g[Len(seqs)])
    /\ \A j \in 1..Len(seqs[m]) : g[Len(seqs)][Len(g[m-1]) + j] = seqs[m][j]

LEMMA FlattenPositions ==
    ASSUME NEW Sym, NEW seqs \in Seq(Seq(Sym)),
           NEW g \in [0..Len(seqs) -> Seq(Sym)], FromPrefix(g, seqs),
           NEW m \in 1..Len(seqs)
    PROVE  Placed(g, seqs, m)
<1> DEFINE n == Len(seqs)
<1>1. n \in Nat /\ \A i \in 1..n : seqs[i] \in Seq(Sym)
  BY LenProperties, ElementOfSeq
<1>2. \A i \in 0..n : g[i] \in Seq(Sym) /\ Len(g[i]) \in Nat
  <2>1. ASSUME NEW i \in 0..n PROVE g[i] \in Seq(Sym)
    OBVIOUS
  <2> QED
    BY <2>1, LenProperties
<1>3. ASSUME NEW i \in 1..n
      PROVE  /\ Len(g[i]) = Len(g[i-1]) + Len(seqs[i])
             /\ \A j \in 1..Len(g[i-1]) : g[i][j] = g[i-1][j]
             /\ \A j \in 1..Len(seqs[i]) : g[i][Len(g[i-1]) + j] = seqs[i][j]
  <2> HIDE DEF n
  <2>1. i - 1 \in 0..n
    BY <1>1
  <2>2. g[i-1] \in Seq(Sym) /\ seqs[i] \in Seq(Sym)
    BY <1>1, <1>2, <2>1
  <2>3. g[i] = g[i-1] \o seqs[i]
    BY DEF FromPrefix, n
  <2> DEFINE a == g[i-1]
             b == seqs[i]
  <2> HIDE DEF a, b
  <2>a. a \in Seq(Sym) /\ b \in Seq(Sym)
    BY <2>2 DEF a, b
  <2>4. /\ Len(a \o b) = Len(a) + Len(b)
        /\ \A j \in 1..Len(a) + Len(b) :
               (a \o b)[j] = IF j <= Len(a) THEN a[j] ELSE b[j - Len(a)]
    BY <2>a, ConcatProperties, Zenon
  <2>5. Len(a) \in Nat /\ Len(b) \in Nat
    BY <2>2, LenProperties DEF a, b
  <2>6. \A j \in 1..Len(a) : (a \o b)[j] = a[j]
    BY <2>4, <2>5
  <2>7. \A j \in 1..Len(b) : (a \o b)[Len(a) + j] = b[j]
    BY <2>4, <2>5
  <2> QED
    BY <2>3, <2>4, <2>6, <2>7 DEF a, b
<1> DEFINE Q(k) == /\ Len(g[m]) <= Len(g[m + k])
                   /\ \A p \in 1..Len(g[m]) : g[m + k][p] = g[m][p]
           S == {k \in Nat : m + k <= n => Q(k)}
<1>4. 0 \in S
  <2> HIDE DEF n
  <2>1. m + 0 = m /\ m \in 0..n
    BY <1>1 DEF n
  <2>2. Len(g[m]) <= Len(g[m])
    BY <1>2, <2>1
  <2>3. Q(0)
    BY <2>1, <2>2
  <2> HIDE DEF Q
  <2> QED
    BY <2>3
<1>5. ASSUME NEW k \in Nat, k \in S PROVE k + 1 \in S
  <2> HIDE DEF n
  <2>1. ASSUME m + (k + 1) <= n PROVE Q(k + 1)
    <3> DEFINE i == m + (k + 1)
    <3>a. n \in Nat /\ m \in 1..n
      BY <1>1 DEF n
    <3>1. i \in 1..n /\ i - 1 = m + k /\ m + k <= n /\ m + k \in 0..n /\ m \in 0..n
      BY <2>1, <3>a
    <3>2. Q(k)
      <4> HIDE DEF Q
      <4> QED
        BY <1>5, <3>1
    <3> HIDE DEF i
    <3>3. Len(g[i]) = Len(g[m + k]) + Len(seqs[i])
          /\ \A j \in 1..Len(g[m + k]) : g[i][j] = g[m + k][j]
      <4>1. i \in 1..n /\ i - 1 = m + k
        BY <3>1
      <4>2. /\ Len(g[i]) = Len(g[i-1]) + Len(seqs[i])
            /\ \A j \in 1..Len(g[i-1]) : g[i][j] = g[i-1][j]
        BY <1>3, <4>1, Zenon
      <4>3. g[i-1] = g[m + k]
        BY <4>1
      <4> QED
        BY <4>2, <4>3, Zenon
    <3>4. Len(g[m]) \in Nat /\ Len(g[m + k]) \in Nat /\ Len(seqs[i]) \in Nat
      <4>1. Len(seqs[i]) \in Nat
        BY <1>1, <3>1, LenProperties
      <4> QED
        BY <1>2, <3>1, <4>1
    <3>5. Len(g[m]) <= Len(g[i])
      <4>1. Len(g[m]) <= Len(g[m + k])
        BY <3>2
      <4>2. Len(g[i]) = Len(g[m + k]) + Len(seqs[i])
        BY <3>3
      <4> DEFINE x == Len(g[m])
                 y == Len(g[m + k])
                 z == Len(seqs[i])
      <4>3. x \in Nat /\ y \in Nat /\ z \in Nat /\ x <= y /\ Len(g[i]) = y + z
        BY <3>4, <4>1, <4>2
      <4> HIDE DEF Q, n, x, y, z
      <4>4. x <= y + z
        BY <4>3
      <4> QED
        BY <4>3, <4>4 DEF x
    <3>6. \A p \in 1..Len(g[m]) : g[i][p] = g[m][p]
      <4>1. 1..Len(g[m]) \subseteq 1..Len(g[m + k])
        BY <3>2, <3>4
      <4>2. \A p \in 1..Len(g[m]) : g[m + k][p] = g[m][p]
        BY <3>2
      <4> HIDE DEF Q
      <4> QED
        BY <3>3, <4>1, <4>2, Zenon
    <3> QED
      BY <3>5, <3>6 DEF i
  <2> HIDE DEF Q
  <2> QED
    BY <2>1
<1>6. \A k \in Nat : k \in S => k + 1 \in S
  <2> HIDE DEF S
  <2> QED
    BY <1>5
<1>7. Q(n - m)
  <2> HIDE DEF Q, n
  <2>1. n - m \in Nat /\ m + (n - m) <= n
    BY <1>1 DEF n
  <2>2. n - m \in S
    <3> HIDE DEF S
    <3> QED
      BY <1>4, <1>6, <2>1, NaturalInduction
  <2> QED
    BY <2>1, <2>2
<1>8. m + (n - m) = n
  BY <1>1
<1>9. Len(g[m]) <= Len(g[n]) /\ \A p \in 1..Len(g[m]) : g[n][p] = g[m][p]
  BY <1>7, <1>8
<1>10. \A j \in 1..Len(seqs[m]) : Len(g[m-1]) + j \in 1..Len(g[m])
  <2>1. Len(g[m-1]) \in Nat /\ Len(seqs[m]) \in Nat
    <3>1. m - 1 \in 0..n /\ seqs[m] \in Seq(Sym)
      BY <1>1
    <3> QED
      BY <1>2, <3>1, LenProperties
  <2>2. Len(g[m]) = Len(g[m-1]) + Len(seqs[m])
    BY <1>3
  <2> DEFINE a == Len(g[m-1])
             b == Len(seqs[m])
  <2> HIDE DEF n, S, Q, a, b
  <2>3. a \in Nat /\ b \in Nat /\ Len(g[m]) = a + b
    BY <2>1, <2>2 DEF a, b
  <2>4. \A j \in 1..b : a + j \in 1..(a + b)
    BY <2>3
  <2> QED
    BY <2>3, <2>4 DEF a, b
<1> QED
  <2> HIDE DEF n
  <2>1. m \in 1..n
    BY DEF n
  <2>2. /\ Len(g[m]) = Len(g[m-1]) + Len(seqs[m])
        /\ \A j \in 1..Len(seqs[m]) : g[m][Len(g[m-1]) + j] = seqs[m][j]
    BY <1>3, <2>1
  <2>3. \A j \in 1..Len(seqs[m]) :
            g[n][Len(g[m-1]) + j] = g[m][Len(g[m-1]) + j]
    BY <1>9, <1>10
  <2>4. \A j \in 1..Len(seqs[m]) : g[n][Len(g[m-1]) + j] = seqs[m][j]
    BY <2>2, <2>3
  <2> QED
    BY <1>9, <2>2, <2>4 DEF n, Placed

\* Concatenation is associative, as an equation is rewritten with it.
LEMMA ConcatNested ==
    ASSUME NEW Sym, NEW t \in Seq(Sym), NEW u \in Seq(Sym), NEW v \in Seq(Sym),
           NEW x, x = t \o (u \o v)
    PROVE  x = (t \o u) \o v
BY ConcatAssociative

\* F, of texts over Sym, copies the symbols of seg from P + 1 on.
Copies(Sym, F, P, seg) ==
    /\ \A j \in 0..Len(seg) : F[P + j + 1] \in Seq(Sym)
    /\ \A j \in 1..Len(seg) : F[P + j] = <<seg[j]>> \o F[P + j + 1]

\* Symbols that are copied one by one come to the same as the sequence of them.
LEMMA CopiedSymbols ==
    ASSUME NEW Sym, NEW F, NEW seg \in Seq(Sym), NEW P \in Nat,
           Copies(Sym, F, P, seg)
    PROVE  F[P + 1] = seg \o F[P + Len(seg) + 1]
<1> DEFINE n == Len(seg)
           S == {j \in Nat : j <= n =>
                     F[P + 1] = SubSeq(seg, 1, j) \o F[P + j + 1]}
<1>1. n \in Nat
  BY LenProperties
<1>2. \A j \in 0..n : F[P + j + 1] \in Seq(Sym)
  BY DEF Copies
<1>3. 0 \in S
  <2>1. SubSeq(seg, 1, 0) = <<>>
    BY SubSeqEmpty
  <2>2. F[P + 0 + 1] \in Seq(Sym) /\ P + 0 + 1 = P + 1
    BY <1>1, <1>2
  <2>3. <<>> \o F[P + 0 + 1] = F[P + 0 + 1]
    BY <2>2, ConcatEmptySeq
  <2> QED
    BY <2>1, <2>2, <2>3
<1>4. ASSUME NEW j \in Nat, j \in S PROVE j + 1 \in S
  <2>1. ASSUME j + 1 <= n
        PROVE  F[P + 1] = SubSeq(seg, 1, j + 1) \o F[P + (j + 1) + 1]
    <3> DEFINE a == SubSeq(seg, 1, j)
               b == <<seg[j + 1]>>
               c == F[P + (j + 1) + 1]
    <3>1. F[P + 1] = a \o F[P + j + 1]
      <4>1. j <= n
        BY <1>1, <2>1
      <4> HIDE DEF n
      <4> QED
        BY <1>4, <4>1
    <3>2. F[P + j + 1] = b \o c
      <4>1. j + 1 \in 1..Len(seg) /\ P + (j + 1) = P + j + 1
        BY <1>1, <2>1
      <4> QED
        BY <4>1 DEF Copies
    <3>3. SubSeq(seg, 1, j + 1) = a \o b
      <4>1. SubSeq(seg, 1, j + 1) = Append(SubSeq(seg, 1, j), seg[j + 1])
        <5>1. j + 1 \in 1..Len(seg) /\ (j + 1) - 1 = j
          BY <1>1, <2>1
        <5> QED
          BY <5>1, SubSeqRecursiveSecond
      <4>2. a \in Seq(Sym) /\ seg[j + 1] \in Sym
        <5>1. j + 1 \in 1..Len(seg)
          BY <1>1, <2>1
        <5>2. seg[j + 1] \in Sym
          BY <5>1, ElementOfSeq
        <5>3. \A i \in 1..j : seg[i] \in Sym
          BY <1>1, <2>1, ElementOfSeq
        <5>4. a \in Seq(Sym)
          BY <5>3, SubSeqProperties
        <5> QED
          BY <5>2, <5>4
      <4> HIDE DEF a
      <4> QED
        BY <4>1, <4>2, AppendIsConcat DEF a
    <3>4. a \in Seq(Sym) /\ b \in Seq(Sym) /\ c \in Seq(Sym)
      <4>1. seg[j + 1] \in Sym
        BY <1>1, <2>1, ElementOfSeq
      <4>2. \A i \in 1..j : seg[i] \in Sym
        BY <1>1, <2>1, ElementOfSeq
      <4>3. a \in Seq(Sym)
        BY <4>2, SubSeqProperties
      <4>4. j + 1 \in 0..n
        BY <1>1, <2>1
      <4>5. c \in Seq(Sym)
        BY <1>2, <4>4
      <4> QED
        BY <4>1, <4>3, <4>5
    <3> HIDE DEF a, b, c
    <3>5. F[P + 1] = a \o (b \o c)
      BY <3>1, <3>2
    <3>6. F[P + 1] = (a \o b) \o c
      BY <3>4, <3>5, ConcatNested, SMTT(30)
    <3> QED
      BY <3>3, <3>6 DEF c
  <2>2. j + 1 \in Nat
    OBVIOUS
  <2> HIDE DEF n
  <2> QED
    BY <2>1, <2>2
<1>5. \A j \in Nat : j \in S => j + 1 \in S
  <2> HIDE DEF S
  <2> QED
    BY <1>4
<1>6. n \in S
  <2> HIDE DEF S
  <2> QED
    BY <1>1, <1>3, <1>5, NaturalInduction
<1>7. F[P + 1] = SubSeq(seg, 1, n) \o F[P + n + 1]
  <2>1. n <= n
    BY <1>1
  <2> HIDE DEF n
  <2> QED
    BY <1>6, <2>1, Zenon
<1> HIDE DEF S
<1> QED
  BY <1>7, SubSeqFull

\* No symbol of the segment begins the key: it is another, or the next symbol
\* of the segment is not the key's second.
Free(key, seg) ==
    \A j \in 1..Len(seg) :
        \/ seg[j] # key[1]
        \/ j < Len(seg) /\ Len(key) >= 2 /\ seg[j + 1] # key[2]

\* A key does not stand where a segment is that is free of it.
LEMMA FreeIsPassed ==
    ASSUME NEW Sym, NEW s \in Seq(Sym), NEW key \in Seq(Sym), key # <<>>,
           NEW seg \in Seq(Sym), Free(key, seg), NEW P \in Nat,
           \A j \in 1..Len(seg) : s[P + j] = seg[j],
           NEW j \in 1..Len(seg)
    PROVE  ~Stands(key, s, P + j)
<1>1. Len(key) \in Nat /\ Len(key) >= 1
  BY LenProperties, EmptySeq
<1>2. SUFFICES ASSUME Stands(key, s, P + j) PROVE FALSE
  OBVIOUS
<1>3. \A i \in 1..Len(key) : s[P + j + i - 1] = key[i]
  BY <1>2 DEF Stands
<1>4. seg[j] = key[1]
  <2>1. s[P + j + 1 - 1] = key[1]
    BY <1>1, <1>3
  <2>2. P + j + 1 - 1 = P + j
    OBVIOUS
  <2> QED
    BY <2>1, <2>2
<1>5. j < Len(seg) /\ Len(key) >= 2 /\ seg[j + 1] # key[2]
  BY <1>4 DEF Free
<1>6. s[P + j + 2 - 1] = key[2]
  BY <1>1, <1>3, <1>5
<1>7. P + j + 2 - 1 = P + (j + 1) /\ j + 1 \in 1..Len(seg)
  BY <1>5
<1> QED
  BY <1>5, <1>6, <1>7

\* reps replaces the segments that are the key, and the others are free of it.
Replaced(segs, key, by, reps) ==
    /\ Len(reps) = Len(segs)
    /\ \A m \in 1..Len(segs) :
           \/ segs[m] = key /\ reps[m] = by
           \/ reps[m] = segs[m] /\ Free(key, segs[m])

\* Replacing a key anywhere in the text comes to the same as replacing it where
\* it was put, if every other segment is free of it.
LEMMA ReplaceSegments ==
    ASSUME NEW Sym, NEW key \in Seq(Sym), key # <<>>, NEW by \in Seq(Sym),
           NEW segs \in Seq(Seq(Sym)), NEW reps \in Seq(Seq(Sym)),
           Replaced(segs, key, by, reps)
    PROVE  ReplaceKey(FlattenSeq(segs), key, by) = FlattenSeq(reps)
<1>a. \A t \in Seq(Sym) : \E F \in [1..(Len(t) + 1) -> Seq(Sym)] :
          FromSuffix(F, t, key, by) /\ ReplaceKey(t, key, by) = F[1]
  BY ReplaceSuffixes
<1>b. \A P \in Nat, seg \in Seq(Sym) : \A F :
          Copies(Sym, F, P, seg) => F[P + 1] = seg \o F[P + Len(seg) + 1]
  BY CopiedSymbols
<1>c. \A f \in [0..Len(segs) -> Seq(Sym)] :
          FromPrefix(f, segs) => \A m \in 1..Len(segs) : Placed(f, segs, m)
  BY FlattenPositions, Zenon
<1> DEFINE n == Len(segs)
<1>1. n \in Nat /\ \A i \in 1..n : segs[i] \in Seq(Sym) /\ reps[i] \in Seq(Sym)
  BY LenProperties, ElementOfSeq DEF Replaced
<1>2. PICK g \in [0..n -> Seq(Sym)] : FromPrefix(g, segs) /\ FlattenSeq(segs) = g[n]
  BY FlattenPrefixes DEF FromPrefix
<1>3. PICK h \in [0..n -> Seq(Sym)] : FromPrefix(h, reps) /\ FlattenSeq(reps) = h[n]
  <2>1. \E f \in [0..Len(reps) -> Seq(Sym)] :
            FromPrefix(f, reps) /\ FlattenSeq(reps) = f[Len(reps)]
    BY FlattenPrefixes DEF FromPrefix
  <2>2. Len(reps) = n
    BY DEF Replaced
  <2> HIDE DEF n
  <2> QED
    BY <2>1, <2>2
<1> DEFINE s == g[n]
<1>4. s \in Seq(Sym) /\ Len(s) \in Nat
  <2>1. n \in 0..n
    BY <1>1
  <2> QED
    BY <2>1, LenProperties
<1> HIDE DEF s
<1>5. PICK F \in [1..(Len(s) + 1) -> Seq(Sym)] :
          FromSuffix(F, s, key, by) /\ ReplaceKey(s, key, by) = F[1]
  BY <1>4, <1>a
<1> DEFINE At(m) == Len(g[m])
<1>6. ASSUME NEW m \in 1..n
      PROVE  /\ At(m-1) \in Nat /\ At(m) = At(m-1) + Len(segs[m])
             /\ At(m) <= Len(s)
             /\ \A j \in 1..Len(segs[m]) : s[At(m-1) + j] = segs[m][j]
  <2>1. m - 1 \in 0..n
    BY <1>1
  <2>2. At(m-1) \in Nat
    <3> HIDE DEF n
    <3> QED
      BY <2>1, LenProperties
  <2>3. /\ Len(g[m]) = Len(g[m-1]) + Len(segs[m])
        /\ Len(g[m]) <= Len(g[n])
        /\ \A j \in 1..Len(segs[m]) : g[n][Len(g[m-1]) + j] = segs[m][j]
    BY <1>2, <1>c DEF Placed
  <2> HIDE DEF n
  <2> QED
    BY <2>2, <2>3 DEF s
<1>7. ASSUME NEW m \in 1..n
      PROVE  F[At(m-1) + 1] = reps[m] \o F[At(m) + 1]
  <2> DEFINE P == At(m-1)
             seg == segs[m]
  <2>1. /\ P \in Nat /\ seg \in Seq(Sym) /\ Len(seg) \in Nat
        /\ At(m) = P + Len(seg) /\ P + Len(seg) <= Len(s)
        /\ \A j \in 1..Len(seg) : s[P + j] = seg[j]
    BY <1>1, <1>6, LenProperties
  <2> HIDE DEF P, seg, At
  <2>2. CASE seg = key /\ reps[m] = by
    <3>1. Len(key) \in Nat /\ Len(key) >= 1
      BY LenProperties, EmptySeq
    <3>2. Stands(key, s, P + 1)
      <4>1. (P + 1) + Len(key) <= Len(s) + 1
        BY <2>1, <2>2, <1>4
      <4>2. ASSUME NEW j \in 1..Len(key) PROVE s[(P + 1) + j - 1] = key[j]
        <5>1. (P + 1) + j - 1 = P + j
          BY <2>1
        <5> QED
          BY <2>1, <2>2, <5>1
      <4> QED
        BY <4>1, <4>2 DEF Stands
    <3>3. P + 1 \in 1..Len(s) /\ (P + 1) + Len(key) = At(m) + 1
      BY <1>4, <2>1, <2>2, <3>1
    <3>4. F[P + 1] = IF Stands(key, s, P + 1) THEN by \o F[(P + 1) + Len(key)]
                     ELSE <<s[P + 1]>> \o F[(P + 1) + 1]
      BY <1>5, <3>3 DEF FromSuffix
    <3>5. F[P + 1] = by \o F[(P + 1) + Len(key)]
      BY <3>2, <3>4
    <3> QED
      BY <2>2, <3>3, <3>5 DEF P
  <2>3. CASE reps[m] = seg /\ Free(key, seg)
    <3>1. ASSUME NEW j \in 1..Len(seg)
          PROVE  F[P + j] = <<seg[j]>> \o F[P + j + 1]
      <4>1. P + j \in 1..Len(s) /\ s[P + j] = seg[j]
        <5>1. /\ P \in Nat /\ Len(seg) \in Nat /\ Len(s) \in Nat
              /\ P + Len(seg) <= Len(s)
          BY <1>4, <2>1, Zenon
        <5>2. s[P + j] = seg[j]
          BY <2>1, Zenon
        <5> QED
          BY <5>1, <5>2
      <4>2. ~Stands(key, s, P + j)
        BY <1>4, <2>1, <2>3, FreeIsPassed
      <4> QED
        BY <1>5, <4>1, <4>2 DEF FromSuffix
    <3>2. ASSUME NEW j \in 0..Len(seg) PROVE F[P + j + 1] \in Seq(Sym)
      <4>1. P + j + 1 \in 1..(Len(s) + 1)
        BY <1>4, <2>1
      <4> QED
        BY <4>1
    <3>3. Copies(Sym, F, P, seg)
      BY <3>1, <3>2 DEF Copies
    <3>4. F[P + 1] = seg \o F[P + Len(seg) + 1]
      BY <2>1, <3>3, <1>b
    <3> QED
      BY <2>1, <2>3, <3>4 DEF P
  <2> QED
    BY <2>2, <2>3 DEF seg, Replaced
<1> DEFINE S == {m \in Nat : m <= n => F[1] = h[m] \o F[At(m) + 1]}
<1>8. \A m \in 0..n : h[m] \in Seq(Sym) /\ F[At(m) + 1] \in Seq(Sym)
  <2>1. ASSUME NEW m \in 0..n PROVE At(m) + 1 \in 1..(Len(s) + 1)
    <3>1. CASE m = 0
      <4>1. At(0) = 0
        <5>1. g[0] = <<>>
          BY <1>2 DEF FromPrefix
        <5> QED
          BY <5>1, EmptySeq
      <4> HIDE DEF At
      <4> QED
        BY <1>4, <3>1, <4>1
    <3>2. CASE m # 0
      <4>1. m \in 1..n
        BY <1>1, <3>2
      <4>2. At(m-1) \in Nat /\ Len(segs[m]) \in Nat /\ At(m) = At(m-1) + Len(segs[m])
            /\ At(m) <= Len(s)
        BY <1>1, <1>6, <4>1, LenProperties
      <4> HIDE DEF At, n
      <4>3. At(m) \in Nat /\ Len(s) \in Nat /\ At(m) <= Len(s)
        BY <1>4, <4>2
      <4> QED
        BY <4>3
    <3> QED
      BY <3>1, <3>2
  <2> HIDE DEF At, n
  <2> QED
    BY <2>1
<1>9. 0 \in S
  <2>1. At(0) = 0 /\ h[0] = <<>>
    BY <1>2, <1>3, EmptySeq DEF FromPrefix
  <2>2. F[At(0) + 1] \in Seq(Sym)
    BY <1>1, <1>8
  <2> HIDE DEF At
  <2>3. F[0 + 1] = <<>> \o F[0 + 1]
    BY <2>1, <2>2, ConcatEmptySeq
  <2>4. 0 + 1 = 1 /\ 0 \in Nat
    OBVIOUS
  <2>5. F[1] = h[0] \o F[At(0) + 1]
    BY <2>1, <2>3, <2>4, Zenon
  <2> HIDE DEF n
  <2> QED
    BY <2>4, <2>5, Zenon
<1>10. ASSUME NEW m \in Nat, m \in S PROVE m + 1 \in S
  <2>1. ASSUME m + 1 <= n PROVE F[1] = h[m + 1] \o F[At(m + 1) + 1]
    <3>1. m + 1 \in 1..n /\ (m + 1) - 1 = m /\ m \in 0..n /\ m + 1 \in 0..n /\ m <= n
      BY <1>1, <2>1
    <3>2. F[1] = h[m] \o F[At(m) + 1]
      <4> HIDE DEF At, n
      <4> QED
        BY <1>10, <3>1
    <3>3. F[At(m) + 1] = reps[m + 1] \o F[At(m + 1) + 1]
      <4> HIDE DEF At, n
      <4> QED
        BY <1>7, <3>1
    <3>4. h[m + 1] = h[m] \o reps[m + 1]
      <4>1. m + 1 \in 1..Len(reps)
        BY <3>1 DEF Replaced
      <4>2. h[m + 1] = h[(m + 1) - 1] \o reps[m + 1]
        BY <1>3, <4>1 DEF FromPrefix
      <4> QED
        BY <3>1, <4>2
    <3> DEFINE a == h[m]
               b == reps[m + 1]
               c == F[At(m + 1) + 1]
    <3>5. a \in Seq(Sym) /\ b \in Seq(Sym) /\ c \in Seq(Sym)
      <4> HIDE DEF At, n
      <4> QED
        BY <1>1, <1>8, <3>1
    <3>6. F[1] = a \o (b \o c)
      BY <3>2, <3>3
    <3> HIDE DEF a, b, c
    <3>7. F[1] = (a \o b) \o c
      BY <3>5, <3>6, ConcatNested, SMTT(30)
    <3> QED
      BY <3>4, <3>7 DEF a, b, c
  <2>2. m + 1 \in Nat
    OBVIOUS
  <2> HIDE DEF At, n
  <2> QED
    BY <2>1, <2>2, Zenon
<1>11. \A m \in Nat : m \in S => m + 1 \in S
  <2> HIDE DEF S
  <2> QED
    BY <1>10
<1>12. n \in S
  <2> HIDE DEF S
  <2> QED
    BY <1>1, <1>9, <1>11, NaturalInduction
<1>13. F[1] = h[n] \o F[At(n) + 1]
  <2>1. n <= n
    BY <1>1
  <2> HIDE DEF n, At
  <2> QED
    BY <1>12, <2>1, Zenon
<1>14. F[At(n) + 1] = <<>> /\ h[n] \in Seq(Sym)
  <2>1. n \in 0..n
    BY <1>1
  <2> QED
    BY <1>5, <1>8, <2>1 DEF s, FromSuffix
<1> HIDE DEF S, At
<1>15. F[1] = h[n]
  BY <1>13, <1>14, ConcatEmptySeq
<1> QED
  BY <1>2, <1>3, <1>5, <1>15 DEF s

-----------------------------------------------------------------------------
(* Who is mentioned                                                        *)

Messages == [post : BOOLEAN, mentions : Seq(Mentions), body : Seq(Nat)]

\* What MentionAssumption says of the message, mention by mention.
LEMMA EventShape ==
    ASSUME event \in Events
    PROVE  /\ event \in Messages
           /\ Len(event.mentions) \in Nat
           /\ \A i \in 1..Len(event.mentions) :
                  /\ Mention(i) \in Mentions
                  /\ ~IsAll(Mention(i)) => Mention(i).told # {}
           /\ \A n \in DOMAIN event.body :
                  event.body[n] \in 0..Len(event.mentions)
<1>1. event \in Messages
  BY MentionAssumption DEF Messages
<1>2. event.mentions \in Seq(Mentions) /\ event.body \in Seq(Nat)
  BY <1>1 DEF Messages
<1>3. /\ Len(event.mentions) \in Nat
      /\ DOMAIN event.mentions = 1..Len(event.mentions)
      /\ \A i \in 1..Len(event.mentions) : event.mentions[i] \in Mentions
  BY <1>2, LenProperties, ElementOfSeq
<1>4. ASSUME NEW i \in 1..Len(event.mentions), ~IsAll(Mention(i))
      PROVE  Mention(i).told # {}
  <2>1. Mention(i) \in Range(event.mentions)
    BY <1>3 DEF Range, Mention
  <2> QED
    BY <1>4, <2>1, MentionAssumption DEF IsAll
<1>5. ASSUME NEW n \in DOMAIN event.body
      PROVE  event.body[n] \in 0..Len(event.mentions)
  <2>1. event.body[n] \in Nat
    BY <1>2, ElementOfSeq, LenProperties
  <2>2. event.body[n] \in Range(event.body)
    BY DEF Range
  <2>3. event.body[n] <= Len(event.mentions)
    BY <2>2, MentionAssumption
  <2> QED
    BY <1>3, <2>1, <2>3
<1> QED
  BY <1>1, <1>3, <1>4, <1>5 DEF Mention

\* Those mentioned are the mentions by number.
LEMMA MentionsRange ==
    ASSUME event \in Events, NEW m
    PROVE  m \in Range(event.mentions) <=>
               \E i \in 1..Len(event.mentions) : m = Mention(i)
<1>1. event.mentions \in Seq(Mentions)
  BY MentionAssumption
<1>2. DOMAIN event.mentions = 1..Len(event.mentions)
  BY <1>1, LenProperties
<1> QED
  BY <1>2 DEF Range, Mention

\* What is stripped as the bot's counts as a mention of the bot.
LEMMA MatchedIsMentioned ==
    ASSUME event \in Events, NEW m \in Range(event.mentions), MatchesBot(m)
    PROVE  MentionsBot
<1>1. m \in Mentions /\ (~IsAll(m) => m.told # {})
  BY EventShape, MentionsRange
<1>2. PICK t \in m.told :
          /\ t \in IdTypes /\ ~IsAll(m)
          /\ \/ m.who = Bot /\ t \in known
             \/ "name" \in known /\ Name(m) = NameOf[Bot]
  <2>1. CASE m.who = Bot /\ m.told \cap known # {}
    BY <1>1, <2>1, MentionAssumption DEF IsAll, Mentions
  <2>2. CASE "name" \in known /\ ~IsAll(m) /\ Name(m) = NameOf[Bot]
    BY <1>1, <2>2 DEF Mentions
  <2> QED
    BY <2>1, <2>2 DEF MatchesBot
<1> DEFINE x == [type |-> t, m |-> m]
<1>3. x \in {[type |-> u, m |-> o] : u \in IdTypes, o \in Range(event.mentions)}
  BY <1>2
<1>4. x.type = t /\ x.m = m
  OBVIOUS
<1> HIDE DEF x
<1> QED
  BY <1>2, <1>3, <1>4 DEF MentionsBot

\* A mention of the bot has an identity by which the bot is recognised, or the
\* bot's name is what NeedsBotName asks for.
LEMMA MentionedIsRecognised ==
    ASSUME BotHasAName, event \in Events, Identified,
           known \cap {"user_id", "union_id"} = {},
           NEW m \in Range(event.mentions), m.who = Bot
    PROVE  MentionsBot
<1>1. m \in Mentions /\ ~IsAll(m)
  BY EventShape, MentionsRange, MentionAssumption DEF IsAll
<1>2. "open_id" \in known /\ (NeedsBotName => "name" \in known)
  BY DEF Identified
<1>3. CASE "open_id" \in m.told
  <2>1. MatchesBot(m)
    BY <1>2, <1>3 DEF MatchesBot
  <2> QED
    BY <2>1, MatchedIsMentioned
<1>4. CASE "open_id" \notin m.told
  <2>1. Name(m) = NameOf[Bot]
    BY <1>1 DEF Name
  <2>2. NeedsBotName
    BY <1>1, <1>4, <2>1 DEF NeedsBotName, BotHasAName
  <2>3. MatchesBot(m)
    BY <1>1, <1>2, <2>1, <2>2 DEF MatchesBot
  <2> QED
    BY <2>3, MatchedIsMentioned
<1> QED
  BY <1>3, <1>4

\* If nobody mentioned is the bot or bears its name, nobody matches it.
LEMMA OthersDoNotMatch ==
    ASSUME BotIsNamedApart, event \in Events,
           \A m \in Range(event.mentions) : m.who # Bot
    PROVE  ~MentionsBot /\ \A m \in Range(event.mentions) : ~MatchesBot(m)
<1>1. \A m \in Range(event.mentions) : ~IsAll(m) => Name(m) # NameOf[Bot]
  <2>1. ASSUME NEW m \in Range(event.mentions), ~IsAll(m)
        PROVE  Name(m) # NameOf[Bot]
    <3>1. m \in Mentions
      BY EventShape, MentionsRange
    <3>2. m.who \in DOMAIN NameOf \ {Bot}
      BY <2>1, <3>1 DEF Mentions, IsAll
    <3> QED
      BY <2>1, <3>2 DEF Name, BotIsNamedApart
  <2> QED
    BY <2>1
<1>2. \A m \in Range(event.mentions) : ~MatchesBot(m)
  BY <1>1 DEF MatchesBot
<1>3. ~MentionsBot
  BY <1>1 DEF MentionsBot
<1> QED
  BY <1>2, <1>3

-----------------------------------------------------------------------------
(* The handler's steps                                                     *)

\* What Decide makes of the text.
Decision ==
    [verdict |-> IF text = <<>> /\ ~MentionsBot THEN "ignored" ELSE "deliver",
     mentionedMe |-> MentionsBot,
     mentionAll |-> \E m \in Range(event.mentions) : IsAll(m)]

\* What the account knows is what it knew, or BotInfo told the rest; the bot is
\* identified unless BotInfo failed or had no name to tell; and the result is the
\* decision, or an error after BotInfo failed.
HandlerInv ==
    /\ TypeOK
    /\ \E I \in Identities : known \in {I, I \cup {"open_id"}, I \cup {"open_id", "name"}}
    /\ step = "identify" => next = 1
    /\ info = "named" => {"open_id", "name"} \subseteq known
    /\ step # "identify" => info \in {"nameless", "failed"} \/ Identified
    /\ step # "done" => result = Undecided
    /\ step = "done" => \/ info = "failed" /\ result = [Undecided EXCEPT !.verdict = "error"]
                        \/ next = Len(event.mentions) + 1 /\ result = Decision

\* A message that nobody has looked at is as it was written.
LEMMA HandlerInvInit == Init => HandlerInv
<1> SUFFICES ASSUME Init PROVE HandlerInv
  OBVIOUS
<1>1. event \in Events /\ Len(event.mentions) \in Nat
  BY EventShape DEF Init
<1>2. known \subseteq IdTypes \cup {"name"} /\ known \in Identities
  BY MentionAssumption DEF Init
<1>3. TypeOK
  <2>1. 1 \in 1..(Len(event.mentions) + 1)
    BY <1>1
  <2> QED
    BY <1>1, <1>2, <2>1 DEF Init, TypeOK, Undecided, Answers
<1> QED
  BY <1>2, <1>3 DEF HandlerInv, Init

\* No step of the handling breaks it.
LEMMA HandlerInvNext == HandlerInv /\ [Next]_vars => HandlerInv'
<1> SUFFICES ASSUME HandlerInv, [Next]_vars PROVE HandlerInv'
  OBVIOUS
<1>1. event \in Events /\ Len(event.mentions) \in Nat
  BY EventShape DEF HandlerInv, TypeOK
<1>2. ASSUME event' = event, known' = known, text' = text
      PROVE  (Identified' <=> Identified) /\ Decision' = Decision
  <2>1. NeedsBotName' <=> NeedsBotName
    BY <1>2 DEF NeedsBotName, Name, IsAll
  <2>2. Identified' <=> Identified
    BY <1>2, <2>1 DEF Identified
  <2>3. MentionsBot' <=> MentionsBot
    BY <1>2 DEF MentionsBot, Name, IsAll
  <2>4. (\E m \in Range(event.mentions) : IsAll(m))' <=>
            \E m \in Range(event.mentions) : IsAll(m)
    BY <1>2 DEF IsAll
  <2> QED
    BY <1>2, <2>2, <2>3, <2>4 DEF Decision
<1>3. CASE Recognise
  <2>1. NeedsBotName' <=> NeedsBotName
    BY <1>3 DEF NeedsBotName, Name, IsAll, Recognise
  <2>2. info \in {"nameless", "failed"} \/ Identified
    BY <1>3 DEF Recognise, HandlerInv, TypeOK, Answers, Identified
  <2>3. Identified' <=> Identified
    BY <1>3, <2>1 DEF Identified, Recognise
  <2>4. TypeOK'
    BY <1>3 DEF Recognise, HandlerInv, TypeOK
  <2> QED
    BY <1>3, <2>2, <2>3, <2>4 DEF Recognise, HandlerInv
<1>4. CASE AskBotInfo
  <2>1. TypeOK'
    BY <1>4 DEF AskBotInfo, HandlerInv, TypeOK, IdTypes, Answers
  <2>2. (\E I \in Identities :
             known \in {I, I \cup {"open_id"}, I \cup {"open_id", "name"}})'
    BY <1>4 DEF AskBotInfo, HandlerInv
  <2> QED
    BY <1>4, <2>1, <2>2 DEF AskBotInfo, HandlerInv
<1>5. CASE BotInfoFails
  <2>1. result' \in {Undecided, [Undecided EXCEPT !.verdict = "error"]}
    BY <1>5 DEF BotInfoFails, HandlerInv
  <2>2. TypeOK'
    BY <1>5, <2>1 DEF BotInfoFails, HandlerInv, TypeOK, Undecided, Answers
  <2> QED
    BY <1>5, <2>2 DEF BotInfoFails, HandlerInv
<1>6. CASE Resolve
  <2>1. TypeOK'
    BY <1>1, <1>6 DEF Resolve, HandlerInv, TypeOK
  <2>2. Identified' <=> Identified
    <3>1. NeedsBotName' <=> NeedsBotName
      BY <1>6 DEF NeedsBotName, Name, IsAll, Resolve
    <3> QED
      BY <1>6, <3>1 DEF Identified, Resolve
  <2> QED
    BY <1>6, <2>1, <2>2 DEF Resolve, HandlerInv
<1>7. CASE Decide
  <2>1. (Identified' <=> Identified) /\ Decision' = Decision
    BY <1>2, <1>7 DEF Decide
  <2>2. result' = Decision /\ next = Len(event.mentions) + 1
    BY <1>1, <1>7 DEF Decide, Decision, HandlerInv, TypeOK
  <2>3. MentionsBot \in BOOLEAN
    BY DEF MentionsBot
  <2>4. Decision \in [verdict : {"none", "deliver", "ignored", "error"},
                      mentionedMe : BOOLEAN, mentionAll : BOOLEAN]
    BY <2>3 DEF Decision
  <2>5. TypeOK'
    BY <1>7, <2>2, <2>4 DEF Decide, HandlerInv, TypeOK
  <2> QED
    BY <1>7, <2>1, <2>2, <2>5 DEF Decide, HandlerInv
<1>8. CASE UNCHANGED vars
  <2>1. (Identified' <=> Identified) /\ Decision' = Decision
    BY <1>2, <1>8 DEF vars
  <2>2. TypeOK'
    BY <1>8 DEF vars, HandlerInv, TypeOK
  <2> QED
    BY <1>8, <2>1, <2>2 DEF vars, HandlerInv
<1> QED
  BY <1>3, <1>4, <1>5, <1>6, <1>7, <1>8 DEF Next

-----------------------------------------------------------------------------
(* The text                                                                *)

Symbols ==
    {"word", "@", Everyone, "@_all", "@_user_"} \cup {Digit(i) : i \in 0..9}
    \cup {NameOf[p] : p \in DOMAIN NameOf}

\* The mention whose key the segment b is written with.
WrittenAs(b) == IF event.post THEN FirstOf(b) ELSE b

\* The key of mention j is also that of one before the k-th.
Before(k, j) == \E i \in 1..(k - 1) : Key(i) = Key(j)

\* What has become of segment b when the mentions before the k-th are replaced.
SegmentAt(k, b) ==
    IF b = 0 THEN <<"word">>
    ELSE IF event.post /\ IsAll(Mention(b)) THEN <<"@", Everyone>>
    ELSE IF event.post /\ MatchesBot(Mention(FirstOf(b))) THEN <<>>
    ELSE IF Before(k, WrittenAs(b)) THEN Replacement(Mention(WrittenAs(b)))
    ELSE Key(WrittenAs(b))

Segments(k) == [n \in DOMAIN event.body |-> SegmentAt(k, event.body[n])]

\* A digit is told from the others and from the first symbol of a placeholder.
LEMMA DigitsDiffer ==
    \A i, j \in 0..9 : /\ Digit(i) = Digit(j) => i = j
                       /\ Digit(i) \notin {"@_user_", "@_all"}
BY DEF Digit

\* Texts of one or two symbols.
LEMMA TwoSymbols == \A a, b : <<a>> \o <<b>> = <<a, b>>
<1>1. ASSUME NEW a, NEW b PROVE <<a>> \o <<b>> = <<a, b>>
  <2> DEFINE S == {a, b}
             x == <<a>>
             y == <<b>>
             z == <<a, b>>
  <2>1. x \in Seq(S) /\ y \in Seq(S) /\ z \in Seq(S)
    OBVIOUS
  <2>2. Len(x) = 1 /\ Len(y) = 1 /\ Len(z) = 2 /\ x[1] = a /\ y[1] = b
        /\ z[1] = a /\ z[2] = b
    OBVIOUS
  <2> HIDE DEF S, x, y, z
  <2>3. x \o y \in Seq(S) /\ Len(x \o y) = 2 /\ (x \o y)[1] = a /\ (x \o y)[2] = b
    BY <2>1, <2>2, ConcatProperties
  <2>4. \A i \in 1..2 : (x \o y)[i] = z[i]
    BY <2>2, <2>3
  <2>5. x \o y = z
    BY <2>1, <2>2, <2>3, <2>4, SeqEqual
  <2> QED
    BY <2>5 DEF x, y, z
<1> QED
  BY <1>1

\* Texts of one and of two symbols, which placeholders are, are told apart.
LEMMA ShortTextsDiffer ==
    \A a, b, c, d : <<a>> # <<b, c>> /\ (<<a, b>> = <<c, d>> => a = c /\ b = d)
OBVIOUS

LEMMA ShortTexts ==
    \A Sym : \A a, b \in Sym :
        {<<>>, <<a>>, <<a, b>>} \subseteq Seq(Sym)
OBVIOUS

\* With fewer than ten mentions a placeholder has one digit.
LEMMA KeyShape ==
    ASSUME FewMentioned, event \in Events, NEW i \in 1..Len(event.mentions)
    PROVE  /\ i \in 0..9
           /\ Key(i) = IF IsAll(Mention(i)) THEN <<"@_all">>
                       ELSE <<"@_user_", Digit(i)>>
<1>1. i \in 0..9 /\ i < 10 /\ i % 10 = i
  BY EventShape DEF FewMentioned
<1>2. <<"@_user_">> \o <<>> \o <<Digit(i)>> = <<"@_user_", Digit(i)>>
  <2> DEFINE d == Digit(i)
  <2> HIDE DEF d
  <2>1. <<"@_user_">> \o <<>> = <<"@_user_">>
    OBVIOUS
  <2>2. <<"@_user_">> \o <<d>> = <<"@_user_", d>>
    BY TwoSymbols
  <2> QED
    BY <2>1, <2>2 DEF d
<1>3. Key(i) = IF IsAll(Mention(i)) THEN <<"@_all">>
               ELSE <<"@_user_">> \o <<>> \o <<Digit(i)>>
  BY <1>1 DEF Key
<1> QED
  BY <1>1, <1>2, <1>3

\* Keys and replacements are texts, and no key is empty.
LEMMA KeysAreTexts ==
    ASSUME FewMentioned, event \in Events, NEW i \in 1..Len(event.mentions)
    PROVE  /\ Key(i) \in Seq(Symbols) /\ Key(i) # <<>>
           /\ Replacement(Mention(i)) \in Seq(Symbols)
<1>1. Key(i) \in Seq(Symbols) /\ Key(i) # <<>>
  <2>1. "@_all" \in Symbols /\ "@_user_" \in Symbols
    BY DEF Symbols
  <2>2. i \in 0..9 => Digit(i) \in Symbols
    BY DEF Symbols
  <2> QED
    <3>1. Key(i) \in {<<"@_all">>, <<"@_user_", Digit(i)>>} /\ i \in 0..9
      BY KeyShape
    <3>2. Key(i) \in Seq(Symbols)
      BY <2>1, <2>2, <3>1, ShortTexts
    <3>3. Key(i) # <<>>
      BY <3>1
    <3> QED
      BY <3>2, <3>3
<1>2. Replacement(Mention(i)) \in Seq(Symbols)
  <2>1. Mention(i) \in Mentions
    BY EventShape
  <2>2. "@" \in Symbols /\ Name(Mention(i)) \in Symbols
    BY <2>1 DEF Name, IsAll, Mentions, Symbols
  <2> QED
    BY <2>2, ShortTexts DEF Replacement
<1> QED
  BY <1>1, <1>2

\* Two mentions with the same key are replaced alike.
LEMMA SameKey ==
    ASSUME FewMentioned, event \in Events,
           NEW i \in 1..Len(event.mentions), NEW j \in 1..Len(event.mentions),
           Key(i) = Key(j)
    PROVE  Replacement(Mention(i)) = Replacement(Mention(j))
<1>1. /\ Key(i) = IF IsAll(Mention(i)) THEN <<"@_all">> ELSE <<"@_user_", Digit(i)>>
      /\ Key(j) = IF IsAll(Mention(j)) THEN <<"@_all">> ELSE <<"@_user_", Digit(j)>>
      /\ i \in 0..9 /\ j \in 0..9
  BY KeyShape
<1>2. IsAll(Mention(i)) <=> IsAll(Mention(j))
  BY <1>1, ShortTextsDiffer
<1>3. CASE IsAll(Mention(i))
  <2>1. Bot # Everyone
    BY MentionAssumption
  <2>2. \A m : IsAll(m) => Replacement(m) = <<"@", Everyone>>
    BY <2>1 DEF Replacement, MatchesBot, IsAll, Name, Everyone
  <2> QED
    BY <1>2, <1>3, <2>2
<1>4. CASE ~IsAll(Mention(i))
  <2>1. Digit(i) = Digit(j)
    <3>1. <<"@_user_", Digit(i)>> = <<"@_user_", Digit(j)>>
      BY <1>1, <1>2, <1>4
    <3> QED
      BY <3>1, ShortTextsDiffer, Zenon
  <2>2. i = j
    BY <1>1, <2>1, DigitsDiffer
  <2> QED
    BY <2>2
<1> QED
  BY <1>3, <1>4

\* Only the keys begin as a key does, and no two alike.
LEMMA FreeSegments ==
    ASSUME FewMentioned, NamesAreNotKeys, event \in Events,
           NEW k \in 1..Len(event.mentions)
    PROVE  /\ Free(Key(k), <<"word">>)
           /\ Free(Key(k), <<>>)
           /\ Free(Key(k), <<"@", Everyone>>)
           /\ \A j \in 1..Len(event.mentions) :
                  /\ Free(Key(k), Replacement(Mention(j)))
                  /\ Key(j) # Key(k) => Free(Key(k), Key(j))
<1>1. /\ Key(k) = IF IsAll(Mention(k)) THEN <<"@_all">> ELSE <<"@_user_", Digit(k)>>
      /\ k \in 0..9
  BY KeyShape
<1>2. Key(k)[1] \in {"@_all", "@_user_"}
  BY <1>1
<1>3. \A a, b : a \notin {"@_all", "@_user_"} /\ b \notin {"@_all", "@_user_"} =>
          /\ Free(Key(k), <<>>) /\ Free(Key(k), <<a>>) /\ Free(Key(k), <<a, b>>)
  <2> DEFINE c == Key(k)[1]
  <2>1. ASSUME NEW a, NEW b, a # c, b # c
        PROVE  /\ \A j \in 1..Len(<<>>) : <<>>[j] # c
               /\ \A j \in 1..Len(<<a>>) : <<a>>[j] # c
               /\ \A j \in 1..Len(<<a, b>>) : <<a, b>>[j] # c
    <3> HIDE DEF c
    <3> QED
      BY <2>1
  <2> QED
    BY <1>2, <2>1 DEF Free
<1>4. Free(Key(k), <<"word">>) /\ Free(Key(k), <<>>) /\ Free(Key(k), <<"@", Everyone>>)
  <2>1. /\ "word" \notin {"@_all", "@_user_"} /\ "@" \notin {"@_all", "@_user_"}
        /\ Everyone \notin {"@_all", "@_user_"}
    BY DEF Everyone
  <2> QED
    BY <1>3, <2>1, Zenon
<1>5. ASSUME NEW j \in 1..Len(event.mentions)
      PROVE  Free(Key(k), Replacement(Mention(j)))
  <2>1. Mention(j) \in Mentions
    BY EventShape
  <2>2. Name(Mention(j)) \notin {"@_all", "@_user_"}
    BY <2>1 DEF Name, IsAll, Mentions, Everyone, NamesAreNotKeys
  <2>3. Replacement(Mention(j)) \in {<<>>, <<"@", Name(Mention(j))>>}
    BY DEF Replacement
  <2> QED
    BY <1>3, <2>2, <2>3
<1>6. ASSUME NEW j \in 1..Len(event.mentions), Key(j) # Key(k)
      PROVE  Free(Key(k), Key(j))
  <2>1. /\ Key(j) = IF IsAll(Mention(j)) THEN <<"@_all">> ELSE <<"@_user_", Digit(j)>>
        /\ j \in 0..9
    BY KeyShape
  <2>2. CASE IsAll(Mention(j))
    <3>1. Key(j) = <<"@_all">> /\ Key(k) = <<"@_user_", Digit(k)>>
      BY <1>1, <1>6, <2>1, <2>2
    <3> QED
      BY <3>1 DEF Free
  <2>3. CASE ~IsAll(Mention(j)) /\ IsAll(Mention(k))
    <3>1. Key(k) = <<"@_all">> /\ Key(j) = <<"@_user_", Digit(j)>>
      BY <1>1, <2>1, <2>3
    <3>2. Digit(j) # "@_all"
      BY <2>1, DigitsDiffer
    <3> QED
      BY <3>1, <3>2 DEF Free
  <2>4. CASE ~IsAll(Mention(j)) /\ ~IsAll(Mention(k))
    <3>1. Key(k) = <<"@_user_", Digit(k)>> /\ Key(j) = <<"@_user_", Digit(j)>>
      BY <1>1, <2>1, <2>4
    <3>2. Digit(j) # "@_user_" /\ Digit(j) # Digit(k)
      BY <1>6, <2>1, <3>1, DigitsDiffer
    <3> QED
      BY <3>1, <3>2 DEF Free
  <2> QED
    BY <2>2, <2>3, <2>4
<1> QED
  BY <1>4, <1>5, <1>6

\* mentionByID finds a mention of the same person.
LEMMA FirstOfShares ==
    ASSUME event \in Events, NEW b \in 1..Len(event.mentions), ~IsAll(Mention(b))
    PROVE  /\ FirstOf(b) \in 1..Len(event.mentions)
           /\ Mention(FirstOf(b)).who = Mention(b).who
           /\ Mention(FirstOf(b)).told \cap Mention(b).told # {}
<1> DEFINE A == {j \in 1..b : /\ Mention(j).who = Mention(b).who
                              /\ Mention(j).told \cap Mention(b).told # {}}
<1>1. Len(event.mentions) \in Nat /\ Mention(b).told # {}
  BY EventShape
<1>2. A \subseteq Nat /\ b \in A
  BY <1>1
<1>3. \E x \in A : \A y \in A : x <= y
  <2>1. PICK x \in A : \A y \in A : <<y, x>> \notin OpToRel(<, Nat)
    <3> HIDE DEF A
    <3> QED
      BY <1>2, NatLessThanWellFounded, WFMin
  <2>2. ASSUME NEW y \in A PROVE x <= y
    <3>1. x \in Nat /\ y \in Nat
      BY <1>2
    <3> DEFINE p == <<y, x>>
    <3>2. ASSUME y < x PROVE p \in OpToRel(<, Nat)
      <4>1. p \in Nat \X Nat /\ p[1] < p[2]
        BY <3>1, <3>2
      <4> HIDE DEF p
      <4> QED
        BY <4>1 DEF OpToRel
    <3> HIDE DEF A
    <3>3. ~(y < x)
      BY <2>1, <3>2
    <3> QED
      BY <3>1, <3>3
  <2> QED
    BY <2>2
<1>4. FirstOf(b) = Min(A)
  BY DEF FirstOf
<1>5. Min(A) \in A
  <2> HIDE DEF A
  <2> QED
    BY <1>3 DEF Min
<1> QED
  BY <1>1, <1>4, <1>5

\* A segment is written with the key of a mention.
LEMMA WrittenAsIsAMention ==
    ASSUME event \in Events, NEW b \in 1..Len(event.mentions),
           ~(event.post /\ IsAll(Mention(b)))
    PROVE  WrittenAs(b) \in 1..Len(event.mentions)
BY FirstOfShares DEF WrittenAs

\* The segments are texts, one for each segment of the body.
LEMMA SegmentsAreTexts ==
    ASSUME FewMentioned, event \in Events, NEW k
    PROVE  /\ Segments(k) \in Seq(Seq(Symbols))
           /\ Len(Segments(k)) = Len(event.body)
           /\ \A n \in 1..Len(event.body) :
                  Segments(k)[n] = SegmentAt(k, event.body[n])
<1>1. /\ DOMAIN event.body = 1..Len(event.body) /\ Len(event.body) \in Nat
  <2>1. event.body \in Seq(Nat)
    BY EventShape DEF Messages
  <2> QED
    BY <2>1, LenProperties
<1>2. ASSUME NEW n \in 1..Len(event.body)
      PROVE  SegmentAt(k, event.body[n]) \in Seq(Symbols)
  <2> DEFINE b == event.body[n]
  <2>1. b \in 0..Len(event.mentions) /\ Len(event.mentions) \in Nat
    BY <1>1, EventShape
  <2> HIDE DEF b
  <2>2. {"word", "@", Everyone} \subseteq Symbols
    BY DEF Symbols
  <2>3. {<<"word">>, <<"@", Everyone>>, <<>>} \subseteq Seq(Symbols)
    BY <2>2, ShortTexts
  <2>4. CASE b = 0
    BY <2>3, <2>4 DEF SegmentAt, b
  <2>5. CASE b # 0 /\ event.post /\ IsAll(Mention(b))
    BY <2>3, <2>5 DEF SegmentAt, b
  <2>6. CASE b # 0 /\ ~(event.post /\ IsAll(Mention(b)))
    <3>1. WrittenAs(b) \in 1..Len(event.mentions)
      BY <2>1, <2>6, WrittenAsIsAMention
    <3>2. /\ Key(WrittenAs(b)) \in Seq(Symbols)
          /\ Replacement(Mention(WrittenAs(b))) \in Seq(Symbols)
      BY <3>1, KeysAreTexts
    <3> QED
      BY <2>3, <2>6, <3>2 DEF SegmentAt, b
  <2> QED
    BY <2>4, <2>5, <2>6
<1>3. Segments(k) = [n \in 1..Len(event.body) |-> SegmentAt(k, event.body[n])]
  BY <1>1 DEF Segments
<1>4. Segments(k) \in [1..Len(event.body) -> Seq(Symbols)]
  BY <1>2, <1>3
<1>5. Segments(k) \in Seq(Seq(Symbols)) /\ Len(Segments(k)) = Len(event.body)
  BY <1>1, <1>4, IsASeq, LenProperties
<1> QED
  BY <1>3, <1>5

\* Replacing the k-th mention's key replaces the segments that are written with
\* that key, and no others.
LEMMA SegmentsReplaced ==
    ASSUME FewMentioned, NamesAreNotKeys, event \in Events,
           NEW k \in 1..Len(event.mentions)
    PROVE  Replaced(Segments(k), Key(k), Replacement(Mention(k)), Segments(k + 1))
<1>1. \A b : SegmentAt(k, b) = SegmentAt(k + 1, b) \/
          \E j \in {WrittenAs(b)} :
              /\ b # 0 /\ ~(event.post /\ IsAll(Mention(b)))
              /\ ~Before(k, j) /\ Before(k + 1, j)
              /\ SegmentAt(k, b) = Key(j)
              /\ SegmentAt(k + 1, b) = Replacement(Mention(j))
  <2>1. \A j : Before(k, j) => Before(k + 1, j)
    <3>1. 1..(k - 1) \subseteq 1..((k + 1) - 1)
      OBVIOUS
    <3> QED
      BY <3>1 DEF Before
  <2> QED
    BY <2>1 DEF SegmentAt
<1>2. ASSUME NEW n \in 1..Len(event.body)
      PROVE  \/ /\ Segments(k)[n] = Key(k)
                /\ Segments(k + 1)[n] = Replacement(Mention(k))
             \/ /\ Segments(k + 1)[n] = Segments(k)[n]
                /\ Free(Key(k), Segments(k)[n])
  <2> DEFINE b == event.body[n]
  <2>1. Segments(k)[n] = SegmentAt(k, b) /\ Segments(k + 1)[n] = SegmentAt(k + 1, b)
    BY SegmentsAreTexts
  <2>2. b \in 0..Len(event.mentions) /\ Len(event.mentions) \in Nat
    <3>1. DOMAIN event.body = 1..Len(event.body)
      BY EventShape, LenProperties DEF Messages
    <3> QED
      BY <3>1, EventShape
  <2> HIDE DEF b
  <2>3. b # 0 /\ ~(event.post /\ IsAll(Mention(b))) =>
            WrittenAs(b) \in 1..Len(event.mentions)
    BY <2>2, WrittenAsIsAMention
  <2>4. CASE SegmentAt(k, b) # SegmentAt(k + 1, b)
    <3>1. PICK j \in 1..Len(event.mentions) :
              /\ ~Before(k, j) /\ Before(k + 1, j)
              /\ SegmentAt(k, b) = Key(j)
              /\ SegmentAt(k + 1, b) = Replacement(Mention(j))
      BY <1>1, <2>3, <2>4
    <3>2. Key(k) = Key(j)
      <4>1. PICK i \in 1..((k + 1) - 1) : Key(i) = Key(j)
        BY <3>1 DEF Before
      <4>2. i \notin 1..(k - 1)
        BY <3>1, <4>1 DEF Before
      <4>3. i = k
        BY <4>2
      <4> QED
        BY <4>1, <4>3
    <3>3. Replacement(Mention(k)) = Replacement(Mention(j))
      BY <3>2, SameKey
    <3> QED
      BY <2>1, <3>1, <3>2, <3>3
  <2>5. CASE SegmentAt(k, b) = SegmentAt(k + 1, b)
    <3>1. CASE b = 0 \/ (event.post /\ IsAll(Mention(b)))
      <4>1. SegmentAt(k, b) \in {<<"word">>, <<"@", Everyone>>}
        BY <3>1 DEF SegmentAt
      <4> QED
        BY <2>1, <2>5, <4>1, FreeSegments
    <3>2. CASE b # 0 /\ ~(event.post /\ IsAll(Mention(b)))
      <4> DEFINE j == WrittenAs(b)
      <4>1. j \in 1..Len(event.mentions)
        BY <2>3, <3>2
      <4>2. \/ SegmentAt(k, b) \in {<<>>, Replacement(Mention(j))}
            \/ /\ SegmentAt(k, b) = Key(j) /\ ~Before(k + 1, j)
            \/ /\ SegmentAt(k, b) = Key(j) /\ SegmentAt(k + 1, b) = Replacement(Mention(j))
        BY <3>2 DEF SegmentAt
      <4> HIDE DEF j
      <4>3. CASE SegmentAt(k, b) \in {<<>>, Replacement(Mention(j))}
        <5>1. Free(Key(k), SegmentAt(k, b))
          BY <4>1, <4>3, FreeSegments
        <5> QED
          BY <2>1, <2>5, <5>1
      <4>4. CASE SegmentAt(k, b) = Key(j) /\ ~Before(k + 1, j)
        <5>1. Key(k) # Key(j)
          <6>1. k \in 1..((k + 1) - 1)
            OBVIOUS
          <6> QED
            BY <4>4, <6>1 DEF Before
        <5>2. Free(Key(k), SegmentAt(k, b))
          BY <4>1, <4>4, <5>1, FreeSegments
        <5> QED
          BY <2>1, <2>5, <5>2
      <4>5. CASE SegmentAt(k, b) = Key(j) /\ SegmentAt(k + 1, b) = Replacement(Mention(j))
        <5>1. Free(Key(k), Replacement(Mention(j)))
          BY <4>1, FreeSegments
        <5> QED
          BY <2>1, <2>5, <4>5, <5>1
      <4> QED
        BY <4>2, <4>3, <4>4, <4>5
    <3> QED
      BY <3>1, <3>2
  <2> QED
    BY <2>4, <2>5
<1>3. Len(Segments(k)) = Len(event.body) /\ Len(Segments(k + 1)) = Len(event.body)
  BY SegmentsAreTexts
<1> QED
  BY <1>2, <1>3 DEF Replaced

\* The segments depend on the message and on what is known of the bot only.
LEMMA SegmentsKept ==
    ASSUME event' = event, known' = known, NEW k
    PROVE  Segments(k)' = Segments(k)
<1>1. \A i : Mention(i)' = Mention(i) /\ Key(i)' = Key(i)
  BY DEF Mention, Key, IsAll
<1>2. \A m : /\ (MatchesBot(m)' <=> MatchesBot(m))
             /\ (IsAll(m)' <=> IsAll(m)) /\ Replacement(m)' = Replacement(m)
  BY DEF MatchesBot, Replacement, IsAll, Name
<1>3. \A i : FirstOf(i)' = FirstOf(i)
  BY DEF FirstOf, Mention
<1>4. \A b : WrittenAs(b)' = WrittenAs(b)
  BY <1>3 DEF WrittenAs
<1>5. \A j : Before(k, j)' <=> Before(k, j)
  BY <1>1 DEF Before
<1>6. ASSUME NEW b PROVE SegmentAt(k, b)' = SegmentAt(k, b)
  BY <1>1, <1>2, <1>3, <1>4, <1>5 DEF SegmentAt
<1> QED
  BY <1>6 DEF Segments

\* The text before any placeholder is replaced.
LEMMA WrittenSegments == ASSUME event \in Events PROVE Written = FlattenSeq(Segments(1))
<1>1. \A j : ~Before(1, j)
  BY DEF Before
<1>2. \A b : SegmentAt(1, b) =
                 IF b = 0 THEN <<"word">>
                 ELSE IF ~event.post THEN Key(b)
                 ELSE IF IsAll(Mention(b)) THEN <<"@", Everyone>>
                 ELSE IF MatchesBot(Mention(FirstOf(b))) THEN <<>>
                 ELSE Key(FirstOf(b))
  BY <1>1 DEF SegmentAt, WrittenAs
<1> QED
  BY <1>2 DEF Written, AtElement, Segments

\* The text is as if the mentions before the next had been replaced where the
\* sender put them.
TextInv ==
    step # "identify" /\ result.verdict # "error" =>
        \A k \in Nat : k = next => text = FlattenSeq(Segments(k))

\* One turn of the loop of resolveMentionPlaceholders keeps it.
LEMMA TextInvNext ==
    ASSUME FewMentioned, NamesAreNotKeys, HandlerInv, TextInv, [Next]_vars
    PROVE  TextInv'
<1>1. event \in Events /\ Len(event.mentions) \in Nat /\ next \in Nat
  BY EventShape DEF HandlerInv, TypeOK
<1>2. CASE Recognise \/ BotInfoFails
  <2>1. SUFFICES ASSUME step' # "identify", result'.verdict # "error"
                 PROVE  text' = FlattenSeq(Segments(1)) /\ next' = 1
    <3>1. \A k \in Nat : k = 1 => Segments(k)' = Segments(1)
      BY <1>2, SegmentsKept DEF Recognise, BotInfoFails
    <3> QED
      BY <3>1 DEF TextInv
  <2>2. text' = Written /\ next' = 1
    BY <1>2, <2>1 DEF Recognise, BotInfoFails, HandlerInv, Undecided
  <2> QED
    BY <1>1, <2>2, WrittenSegments
<1>3. CASE AskBotInfo
  BY <1>3 DEF AskBotInfo, TextInv
<1>4. CASE Resolve
  <2>1. next \in 1..Len(event.mentions) /\ text = FlattenSeq(Segments(next))
    <3>1. result.verdict # "error"
      BY <1>4 DEF Resolve, HandlerInv, Undecided
    <3> QED
      BY <1>1, <1>4, <3>1 DEF Resolve, TextInv, HandlerInv, TypeOK
  <2>2. text' = FlattenSeq(Segments(next + 1))
    <3>1. /\ Key(next) \in Seq(Symbols) /\ Key(next) # <<>>
          /\ Replacement(Mention(next)) \in Seq(Symbols)
      BY <1>1, <2>1, KeysAreTexts
    <3>2. /\ Segments(next) \in Seq(Seq(Symbols))
          /\ Segments(next + 1) \in Seq(Seq(Symbols))
      BY <1>1, SegmentsAreTexts
    <3>3. Replaced(Segments(next), Key(next), Replacement(Mention(next)),
                   Segments(next + 1))
      BY <1>1, <2>1, SegmentsReplaced
    <3>4. text' = ReplaceKey(FlattenSeq(Segments(next)), Key(next),
                             Replacement(Mention(next)))
      BY <1>4, <2>1 DEF Resolve
    <3> QED
      BY <3>1, <3>2, <3>3, <3>4, ReplaceSegments
  <2>3. \A k \in Nat : Segments(k)' = Segments(k)
    BY <1>4, SegmentsKept DEF Resolve
  <2>4. next' = next + 1
    BY <1>4 DEF Resolve
  <2> QED
    BY <2>2, <2>3, <2>4 DEF TextInv
<1>5. CASE Decide \/ UNCHANGED vars
  <2>1. \A k \in Nat : Segments(k)' = Segments(k)
    BY <1>5, SegmentsKept DEF Decide, vars
  <2>2. step' # "identify" /\ result'.verdict # "error" =>
            step # "identify" /\ result.verdict # "error"
    BY <1>5 DEF Decide, vars, HandlerInv, Undecided
  <2>3. text' = text /\ next' = next
    BY <1>5 DEF Decide, vars
  <2> QED
    BY <2>1, <2>2, <2>3 DEF TextInv
<1> QED
  BY <1>2, <1>3, <1>4, <1>5 DEF Next

-----------------------------------------------------------------------------
(* What follows for the properties                                         *)

\* After the last mention every segment is what the mention it was put for shows.
LEMMA AllResolved ==
    ASSUME FewMentioned, BotIsToldAlike, HandlerInv,
           NEW k \in Nat, k = Len(event.mentions) + 1, NEW n \in DOMAIN event.body
    PROVE  SegmentAt(k, event.body[n]) =
               IF event.body[n] = 0 THEN <<"word">>
               ELSE Replacement(Mention(event.body[n]))
<1> DEFINE b == event.body[n]
<1>1. event \in Events /\ b \in 0..Len(event.mentions) /\ Len(event.mentions) \in Nat
  BY EventShape DEF HandlerInv, TypeOK
<1> HIDE DEF b
<1>2. CASE b = 0
  BY <1>2 DEF SegmentAt, b
<1>3. CASE b # 0 /\ event.post /\ IsAll(Mention(b))
  <2>1. Bot # Everyone
    BY MentionAssumption
  <2>2. Replacement(Mention(b)) = <<"@", Everyone>>
    BY <1>3, <2>1 DEF Replacement, MatchesBot, IsAll, Name, Everyone
  <2> QED
    BY <1>3, <2>2 DEF SegmentAt, b
<1>4. CASE b # 0 /\ ~(event.post /\ IsAll(Mention(b)))
  <2> DEFINE j == WrittenAs(b)
  <2>1. b \in 1..Len(event.mentions) /\ j \in 1..Len(event.mentions)
    BY <1>1, <1>4, WrittenAsIsAMention
  <2>2. Before(k, j)
    <3>1. j \in 1..(k - 1)
      BY <1>1, <2>1
    <3> HIDE DEF j
    <3> QED
      BY <3>1 DEF Before
  <2>3. CASE ~event.post
    BY <1>4, <2>2, <2>3 DEF SegmentAt, WrittenAs, b
  <2>4. CASE event.post
    <3>1. /\ j = FirstOf(b) /\ ~IsAll(Mention(b))
          /\ Mention(j).who = Mention(b).who
          /\ Mention(j).told \cap Mention(b).told # {}
      BY <1>1, <1>4, <2>1, <2>4, FirstOfShares DEF WrittenAs
    <3> HIDE DEF j
    <3>2. IsAll(Mention(j)) <=> IsAll(Mention(b))
      BY <3>1 DEF IsAll
    <3>3. Name(Mention(j)) = Name(Mention(b))
      BY <3>1, <3>2 DEF Name
    <3>4. MatchesBot(Mention(j)) <=> MatchesBot(Mention(b))
      <4>1. CASE "name" \in known /\ Mention(b).who = Bot
        BY <3>1, <3>2, <4>1 DEF MatchesBot, Name
      <4>2. CASE Mention(b).who # Bot
        BY <3>1, <3>2, <3>3, <4>2 DEF MatchesBot
      <4>3. CASE "name" \notin known /\ Mention(b).who = Bot
        <5>1. \E I \in Identities : known \in {I, I \cup {"open_id"}}
          BY <4>3 DEF HandlerInv
        <5>2. Mention(j) \in Range(event.mentions) /\ Mention(b) \in Range(event.mentions)
          BY <1>1, <2>1, MentionsRange
        <5>3. Mention(j).told \cap known # {} <=> Mention(b).told \cap known # {}
          BY <1>1, <3>1, <4>3, <5>1, <5>2 DEF BotIsToldAlike
        <5> QED
          BY <3>1, <4>3, <5>3 DEF MatchesBot
      <4> QED
        BY <4>1, <4>2, <4>3
    <3>5. Replacement(Mention(j)) = Replacement(Mention(b))
      BY <3>3, <3>4 DEF Replacement
    <3>6. MatchesBot(Mention(j)) => Replacement(Mention(b)) = <<>>
      BY <3>4 DEF Replacement
    <3> QED
      BY <1>4, <2>2, <2>4, <3>1, <3>5, <3>6 DEF SegmentAt, WrittenAs, b, j
  <2> QED
    BY <2>3, <2>4
<1> QED
  BY <1>2, <1>3, <1>4 DEF b

\* A segment that is not empty leaves a text that is not empty.
LEMMA TextNotEmpty ==
    ASSUME NEW Sym, NEW seqs \in Seq(Seq(Sym)), NEW m \in 1..Len(seqs),
           seqs[m] # <<>>
    PROVE  FlattenSeq(seqs) # <<>>
<1>1. \A f \in [0..Len(seqs) -> Seq(Sym)] : FromPrefix(f, seqs) => Placed(f, seqs, m)
  BY FlattenPositions, Zenon
<1>2. PICK f \in [0..Len(seqs) -> Seq(Sym)] :
          FromPrefix(f, seqs) /\ FlattenSeq(seqs) = f[Len(seqs)]
  BY FlattenPrefixes DEF FromPrefix
<1>3. Len(f[m]) = Len(f[m-1]) + Len(seqs[m]) /\ Len(f[m]) <= Len(f[Len(seqs)])
  BY <1>1, <1>2 DEF Placed
<1>4. f[m-1] \in Seq(Sym) /\ seqs[m] \in Seq(Sym)
  <2>1. Len(seqs) \in Nat
    BY LenProperties
  <2>2. m - 1 \in 0..Len(seqs)
    BY <2>1
  <2> QED
    BY <2>2, ElementOfSeq
<1>5. Len(f[m-1]) \in Nat /\ Len(seqs[m]) \in Nat /\ Len(seqs[m]) # 0
  BY <1>4, LenProperties, EmptySeq
<1>6. Len(f[Len(seqs)]) # 0
  <2> DEFINE x == Len(f[m-1])
             y == Len(seqs[m])
             z == Len(f[Len(seqs)])
             w == Len(f[m])
  <2>1. x \in Nat /\ y \in Nat /\ y # 0 /\ w = x + y /\ w <= z
    BY <1>3, <1>5
  <2> HIDE DEF x, y, z, w
  <2>2. z # 0
    BY <2>1
  <2> QED
    BY <2>2 DEF z
<1> QED
  BY <1>2, <1>6

\* Both hold at every moment of the handling.
LEMMA HandlerInvAlways == Spec => []HandlerInv
<1>1. Init => HandlerInv
  BY HandlerInvInit
<1>2. HandlerInv /\ [Next]_vars => HandlerInv'
  BY HandlerInvNext
<1> QED
  BY <1>1, <1>2, PTL DEF Spec

LEMMA TextInvAlways ==
    ASSUME FewMentioned, NamesAreNotKeys
    PROVE  Spec => []TextInv
<1>1. Init => TextInv
  BY DEF Init, TextInv
<1>2. HandlerInv /\ TextInv /\ [Next]_vars => TextInv'
  BY TextInvNext
<1> QED
  BY <1>1, <1>2, HandlerInvAlways, PTL DEF Spec

\* The handler's variables keep their types, with any messages and accounts.
THEOREM MentionTypes == Spec => []TypeOK
<1>1. HandlerInv => TypeOK
  BY DEF HandlerInv
<1> QED
  BY <1>1, HandlerInvAlways, PTL

\* A message of which something was stripped as the bot's mention reaches the
\* gateway, as one that mentions the bot, whatever is known of the bot: unless
\* the handling ends with BotInfo's error (larkMentionMatchesBot and
\* larkMentionsBot in src/connector.go).
THEOREM StrippedMessagesAreDelivered == Spec => []StrippedIsDelivered
<1>1. HandlerInv => StrippedIsDelivered
  <2>1. SUFFICES ASSUME HandlerInv, result.verdict \in {"deliver", "ignored"},
                        NEW m \in Range(event.mentions), MatchesBot(m)
                 PROVE  result.verdict = "deliver" /\ result.mentionedMe
    BY DEF StrippedIsDelivered
  <2>2. result = Decision
    BY <2>1 DEF HandlerInv, TypeOK, Undecided
  <2>3. MentionsBot
    BY <2>1, MatchedIsMentioned DEF HandlerInv, TypeOK
  <2> QED
    BY <2>2, <2>3 DEF Decision
<1> QED
  BY <1>1, HandlerInvAlways, PTL

\* A message that mentions a bot that has a name is delivered as such whichever
\* id the platform tells, unless BotInfo fails or has no name to tell, or a
\* configured user or union id ends the search (ensureLarkBotIdentity).
THEOREM BotIsRecognised == ASSUME BotHasAName PROVE Spec => []BotRecognised
<1>1. HandlerInv => BotRecognised
  <2>1. SUFFICES ASSUME HandlerInv, step = "done", info \in {"unasked", "named"},
                        known \cap {"user_id", "union_id"} = {},
                        NEW m \in Range(event.mentions), m.who = Bot
                 PROVE  result.mentionedMe /\ result.verdict = "deliver"
    BY DEF BotRecognised
  <2>2. result = Decision /\ Identified /\ event \in Events
    BY <2>1 DEF HandlerInv, TypeOK
  <2>3. MentionsBot
    BY <2>1, <2>2, MentionedIsRecognised
  <2> QED
    BY <2>2, <2>3 DEF Decision
<1> QED
  BY <1>1, HandlerInvAlways, PTL

\* Every mention of a message with fewer than ten shows as whom it mentions, and
\* the rest of the text is as written: with ten, the run TenMentions shows
\* otherwise (resolveMentionPlaceholders).
THEOREM MentionsAreResolved ==
    ASSUME FewMentioned, NamesAreNotKeys, BotIsToldAlike
    PROVE  Spec => []MentionsResolved
<1>1. HandlerInv /\ TextInv => MentionsResolved
  <2> DEFINE k == Len(event.mentions) + 1
  <2>1. SUFFICES ASSUME HandlerInv, TextInv, step = "resolve",
                        next > Len(event.mentions)
                 PROVE  text = FlattenSeq([n \in DOMAIN event.body |->
                                   IF event.body[n] = 0 THEN <<"word">>
                                   ELSE Replacement(Mention(event.body[n]))])
    BY DEF MentionsResolved
  <2>2. Len(event.mentions) \in Nat /\ next = k /\ k \in Nat
    BY <2>1, EventShape DEF HandlerInv, TypeOK
  <2>3. text = FlattenSeq(Segments(k))
    BY <2>1, <2>2 DEF TextInv, HandlerInv, Undecided
  <2>4. \A n \in DOMAIN event.body :
            SegmentAt(k, event.body[n]) =
                IF event.body[n] = 0 THEN <<"word">>
                ELSE Replacement(Mention(event.body[n]))
    BY <2>1, <2>2, AllResolved
  <2> QED
    BY <2>3, <2>4 DEF Segments
<1> QED
  BY <1>1, HandlerInvAlways, TextInvAlways, PTL

\* A mention of others is not one of the bot, nor is it stripped, if nobody
\* bears the bot's name.
THEOREM OthersAreNotMistaken ==
    ASSUME FewMentioned, NamesAreNotKeys, BotIsNamedApart
    PROVE  Spec => []OthersAreNotTheBot
<1>1. HandlerInv /\ TextInv => OthersAreNotTheBot
  <2>1. SUFFICES ASSUME HandlerInv, TextInv, step = "done",
                        \A m \in Range(event.mentions) : m.who # Bot
                 PROVE  /\ ~result.mentionedMe
                        /\ (\E n \in DOMAIN event.body :
                                event.body[n] # 0 /\ Name(Mention(event.body[n])) # "")
                               => result.verdict # "ignored"
    BY DEF OthersAreNotTheBot
  <2>2. event \in Events /\ Len(event.mentions) \in Nat
    BY <2>1, EventShape DEF HandlerInv, TypeOK
  <2>3. ~MentionsBot /\ \A m \in Range(event.mentions) : ~MatchesBot(m)
    BY <2>1, <2>2, OthersDoNotMatch
  <2>4. CASE result = [Undecided EXCEPT !.verdict = "error"]
    BY <2>4 DEF Undecided
  <2>5. CASE next = Len(event.mentions) + 1 /\ result = Decision
    <3>1. ASSUME NEW n \in DOMAIN event.body, event.body[n] # 0,
                 Name(Mention(event.body[n])) # ""
          PROVE  text # <<>>
      <4> DEFINE k == Len(event.mentions) + 1
                 b == event.body[n]
      <4>1. k \in Nat /\ next = k /\ text = FlattenSeq(Segments(k))
        <5>1. result.verdict # "error"
          BY <2>5 DEF Decision
        <5> QED
          BY <2>1, <2>2, <2>5, <5>1 DEF TextInv
      <4>2. b \in 1..Len(event.mentions)
        <5>1. b \in 0..Len(event.mentions) /\ b # 0
          BY <2>2, <3>1, EventShape
        <5> HIDE DEF b
        <5> QED
          BY <2>2, <5>1
      <4>3. SegmentAt(k, b) # <<>>
        <5>1. CASE event.post /\ IsAll(Mention(b))
          BY <3>1, <5>1 DEF SegmentAt
        <5>2. CASE ~(event.post /\ IsAll(Mention(b)))
          <6> DEFINE j == WrittenAs(b)
          <6>1. j \in 1..Len(event.mentions) /\ ~MatchesBot(Mention(j))
                /\ (event.post => ~MatchesBot(Mention(FirstOf(b))))
            BY <2>2, <2>3, <4>2, <5>2, WrittenAsIsAMention, FirstOfShares,
               MentionsRange DEF WrittenAs
          <6>2. Name(Mention(j)) # ""
            BY <2>2, <3>1, <4>2, <5>2, FirstOfShares DEF WrittenAs, Name, IsAll
          <6>3. Replacement(Mention(j)) # <<>> /\ Key(j) # <<>>
            BY <2>2, <6>1, <6>2, KeysAreTexts DEF Replacement
          <6> QED
            BY <3>1, <5>2, <6>1, <6>3 DEF SegmentAt
        <5> QED
          BY <5>1, <5>2
      <4>4. /\ Segments(k) \in Seq(Seq(Symbols)) /\ n \in 1..Len(Segments(k))
            /\ Segments(k)[n] = SegmentAt(k, b)
        <5>1. DOMAIN event.body = 1..Len(event.body)
          BY <2>2, EventShape, LenProperties DEF Messages
        <5> QED
          BY <2>2, <5>1, SegmentsAreTexts
      <4> QED
        BY <4>1, <4>3, <4>4, TextNotEmpty
    <3> QED
      BY <2>3, <2>5, <3>1 DEF Decision
  <2> QED
    BY <2>1, <2>4, <2>5 DEF HandlerInv
<1> QED
  BY <1>1, HandlerInvAlways, TextInvAlways, PTL
====

-------------------------- MODULE MediaFiles_proofs --------------------------
(***************************************************************************)
(* Proofs about media files, for any calls, contents, sizes and limits: the*)
(* temporary files on disk are those of calls under way, the gateway reads *)
(* whole files, and uploads are whole.  They rest on what the descriptors  *)
(* of a message are, which is an induction over its content.               *)
(***************************************************************************)
EXTENDS MediaFiles, FiniteSetTheorems, SequenceTheorems, WellFoundedInduction,
        TLAPS

-----------------------------------------------------------------------------
(* The resources of a message: what the fold of Descriptors comes to       *)

\* Induction over the naturals, for a set of those that have the property.
LEMMA NaturalInduction ==
    ASSUME NEW S, 0 \in S, \A n \in Nat : n \in S => n + 1 \in S
    PROVE  Nat \subseteq S
<1> DEFINE T == Nat \ S
<1>1. SUFFICES ASSUME T # {} PROVE FALSE
  OBVIOUS
<1>2. PICK x \in T : \A y \in T : <<y, x>> \notin OpToRel(<, Nat)
  <2>1. T \subseteq Nat
    OBVIOUS
  <2> HIDE DEF T
  <2> QED
    BY <1>1, <2>1, NatLessThanWellFounded, WFMin
<1>3. x \in Nat /\ x # 0 /\ x - 1 \in Nat
  OBVIOUS
<1>4. x - 1 \notin T
  <2> DEFINE p == <<x - 1, x>>
  <2>1. p \in Nat \X Nat /\ p[1] < p[2]
    BY <1>3
  <2> HIDE DEF p
  <2>2. p \in OpToRel(<, Nat)
    BY <2>1 DEF OpToRel
  <2> QED
    BY <1>2, <2>2 DEF p
<1>5. x - 1 \in S /\ (x - 1) + 1 = x
  BY <1>3, <1>4
<1> QED
  BY <1>2, <1>3, <1>5


\* A set of numbers up to m has a largest one.
LEMMA MaxOfNumbers ==
    ASSUME NEW m \in Nat, NEW s \in SUBSET (1..m), s # {}
    PROVE  Max(s) \in s /\ \A y \in s : y <= Max(s)
<1> DEFINE T == {m - x : x \in s}
<1>1. PICK z \in T : \A y \in T : <<y, z>> \notin OpToRel(<, Nat)
  <2>1. T \subseteq Nat /\ T # {}
    <3>1. \A x \in s : m - x \in Nat
      OBVIOUS
    <3> QED
      BY <3>1
  <2> HIDE DEF T
  <2> QED
    BY <2>1, NatLessThanWellFounded, WFMin
<1>2. PICK x \in s : z = m - x
  OBVIOUS
<1>3. ASSUME NEW y \in s PROVE y <= x
  <2>1. x \in 1..m /\ y \in 1..m
    BY <1>2
  <2>a. m - y \in T
    OBVIOUS
  <2>2. ASSUME x < y PROVE FALSE
    <3> DEFINE p == <<m - y, z>>
    <3>1. p \in Nat \X Nat /\ p[1] < p[2]
      BY <1>2, <2>1, <2>2
    <3> HIDE DEF p
    <3>2. p \in OpToRel(<, Nat)
      BY <3>1 DEF OpToRel
    <3> HIDE DEF T
    <3> QED
      BY <1>1, <2>a, <3>2 DEF p
  <2> QED
    BY <2>1, <2>2
<1>4. \E v \in s : \A y \in s : y <= v
  BY <1>3
<1> QED
  BY <1>4 DEF Max

\* What larkMediaDescriptors does with the next descriptor.
Noted(ds, d) == IF d.id = "" \/ Contains(ds, d) THEN ds ELSE Append(ds, d)

\* The recursion of FoldLeft, over the sets of positions of w.
Noting(f, w, s) ==
    IF s = {} THEN <<>> ELSE Noted(f[s \ {Max(s)}], w[Max(s)])

\* The recursion has a solution.
LEMMA NotingRecursion ==
    ASSUME NEW w, NEW n \in Nat
    PROVE  \E f : f = [s \in SUBSET (1..n) |-> Noting(f, w, s)]
<1> DEFINE Solves(f, m) == \A s \in SUBSET (1..m) : f[s] = Noting(f, w, s)
           S == {m \in Nat : m <= n => \E f : Solves(f, m)}
<1>1. 0 \in S
  <2> DEFINE g == [s \in {{}} |-> <<>>]
  <2>1. SUBSET (1..0) = {{}}
    OBVIOUS
  <2>2. Solves(g, 0)
    BY <2>1 DEF Noting
  <2> HIDE DEF g, Solves
  <2> QED
    BY <2>2
<1>2. ASSUME NEW m \in Nat, m \in S PROVE m + 1 \in S
  <2>1. SUFFICES ASSUME m + 1 <= n PROVE \E f : Solves(f, m + 1)
    <3> HIDE DEF Solves
    <3> QED
      OBVIOUS
  <2>2. PICK f : Solves(f, m)
    <3> HIDE DEF Solves
    <3> QED
      BY <1>2, <2>1
  <2> DEFINE g == [s \in SUBSET (1..(m + 1)) |->
                       IF s \subseteq 1..m THEN f[s] ELSE Noting(f, w, s)]
  <2>3. ASSUME NEW s \in SUBSET (1..(m + 1)) PROVE g[s] = Noting(g, w, s)
    <3>1. CASE s = {}
      <4>1. f[s] = Noting(f, w, s)
        BY <2>2, <3>1
      <4>2. g[s] = f[s]
        BY <3>1
      <4> QED
        BY <3>1, <4>1, <4>2 DEF Noting
    <3>2. CASE s # {}
      <4> DEFINE r == s \ {Max(s)}
      <4>1. Max(s) \in s /\ \A y \in s : y <= Max(s)
        <5>1. m + 1 \in Nat
          OBVIOUS
        <5> QED
          BY <3>2, <5>1, MaxOfNumbers
      <4>2. r \subseteq 1..m
        <5>1. ASSUME NEW y \in s, y # Max(s) PROVE y \in 1..m
          <6> DEFINE x == Max(s)
          <6>1. y \in 1..(m + 1) /\ x \in 1..(m + 1) /\ y <= x /\ y # x
            BY <4>1, <5>1
          <6> HIDE DEF x
          <6> QED
            BY <6>1
        <5> QED
          BY <5>1
      <4>3. g[r] = f[r]
        <5>1. r \in SUBSET (1..(m + 1))
          OBVIOUS
        <5> HIDE DEF r
        <5> QED
          BY <4>2, <5>1
      <4>4. Noting(g, w, s) = Noting(f, w, s)
        BY <4>3 DEF Noting
      <4>5. g[s] = Noting(f, w, s)
        <5>1. s \subseteq 1..m => f[s] = Noting(f, w, s)
          BY <2>2
        <5> QED
          BY <5>1
      <4> QED
        BY <4>4, <4>5
    <3> QED
      BY <3>1, <3>2
  <2> HIDE DEF g
  <2>4. Solves(g, m + 1)
    BY <2>3
  <2> HIDE DEF Solves
  <2> QED
    BY <2>4
<1>3. \A m \in Nat : m \in S => m + 1 \in S
  <2> HIDE DEF S
  <2> QED
    BY <1>2
<1>4. PICK f : Solves(f, n)
  <2> HIDE DEF Solves
  <2>1. n \in S
    <3> HIDE DEF S
    <3> QED
      BY <1>1, <1>3, NaturalInduction
  <2> QED
    BY <2>1
<1> DEFINE g == [s \in SUBSET (1..n) |-> f[s]]
<1>5. ASSUME NEW s \in SUBSET (1..n) PROVE g[s] = Noting(g, w, s)
  <2>1. g[s \ {Max(s)}] = f[s \ {Max(s)}] /\ g[s] = f[s]
    OBVIOUS
  <2> HIDE DEF g
  <2> QED
    BY <1>4, <2>1 DEF Noting
<1>6. g = [s \in SUBSET (1..n) |-> g[s]]
  OBVIOUS
<1> HIDE DEF g
<1>7. g = [s \in SUBSET (1..n) |-> Noting(g, w, s)]
  BY <1>5, <1>6, Zenon
<1> QED
  BY <1>7

\* The descriptors noted so far, as they grow.
LEMMA DescriptorsByStep ==
    ASSUME NEW Descriptor, NEW m, m.walked \o m.own \in Seq(Descriptor)
    PROVE  LET all == m.walked \o m.own
           IN  \E h : /\ h[0] = <<>>
                      /\ \A k \in 1..Len(all) : h[k] = Noted(h[k-1], all[k])
                      /\ Descriptors(m) = h[Len(all)]
<1> DEFINE all == m.walked \o m.own
           n == Len(all)
           F == CHOOSE f : f = [s \in SUBSET (DOMAIN all) |->
                    IF s = {} THEN <<>>
                    ELSE Noted(f[s \ {Max(s)}], all[Max(s)])]
           h == [k \in 0..n |-> F[1..k]]
<1>1. n \in Nat /\ DOMAIN all = 1..n
  BY LenProperties
<1>2. F = [s \in SUBSET (1..n) |-> Noting(F, all, s)]
  <2> HIDE DEF n, all
  <2>1. \E f : f = [s \in SUBSET (1..n) |-> Noting(f, all, s)]
    BY <1>1, NotingRecursion, Zenon
  <2>2. \E f : f = [s \in SUBSET (DOMAIN all) |-> Noting(f, all, s)]
    BY <1>1, <2>1, Zenon
  <2>3. F = [s \in SUBSET (DOMAIN all) |-> Noting(F, all, s)]
    BY <2>2, Zenon DEF Noting
  <2> HIDE DEF F
  <2> QED
    BY <1>1, <2>3, Zenon
<1>3. Descriptors(m) = F[DOMAIN all]
  BY DEF Descriptors, FoldLeft, MapThenFoldSet, Noted
<1> HIDE DEF F
<1>4. h[0] = <<>>
  <2>1. F[{}] = <<>>
    BY <1>2 DEF Noting
  <2>2. 1..0 = {}
    OBVIOUS
  <2> QED
    BY <1>1, <2>1, <2>2
<1>5. ASSUME NEW k \in 1..n PROVE h[k] = Noted(h[k-1], all[k])
  <2>a. k \in 1..n
    OBVIOUS
  <2> HIDE DEF n
  <2>b. k \in Nat /\ k <= n /\ k >= 1 /\ k \in 0..n /\ k - 1 \in 0..n
    BY <1>1, <2>a
  <2>1. Max(1..k) = k
    <3>1. k \in Nat /\ 1..k # {} /\ k \in 1..k
      <4>1. k \in Nat /\ k >= 1
        BY <2>b
      <4>2. k \in 1..k
        BY <4>1
      <4> QED
        BY <4>1, <4>2
    <3>2. Max(1..k) \in 1..k /\ k <= Max(1..k)
      BY <3>1, MaxOfNumbers
    <3> DEFINE x == Max(1..k)
    <3> HIDE DEF x
    <3>3. x \in 1..k /\ k <= x => x = k
      BY <3>1
    <3> QED
      BY <3>2, <3>3 DEF x
  <2>2. (1..k) \ {k} = 1..(k - 1) /\ 1..k # {} /\ 1..k \subseteq 1..n
    <3>1. k \in Nat /\ k <= n /\ k >= 1
      BY <2>b
    <3>2. k \in 1..k
      BY <3>1
    <3>3. \A i : i \in (1..k) \ {k} <=> i \in 1..(k - 1)
      BY <3>1
    <3>4. \A i \in 1..k : i \in 1..n
      BY <1>1, <3>1
    <3> HIDE DEF n
    <3> QED
      BY <3>2, <3>3, <3>4
  <2>3. F[1..k] = Noted(F[1..(k - 1)], all[k])
    <3> HIDE DEF n, all
    <3>1. F[1..k] = Noting(F, all, 1..k)
      BY <1>2, <2>2
    <3> QED
      BY <2>1, <2>2, <3>1 DEF Noting
  <2>4. h[k] = F[1..k] /\ h[k-1] = F[1..(k - 1)]
    BY <2>b
  <2> HIDE DEF h
  <2> QED
    BY <2>3, <2>4
<1>6. Descriptors(m) = h[n]
  BY <1>1, <1>3
<1> HIDE DEF h
<1> QED
  BY <1>4, <1>5, <1>6

\* ds lists each of the first k descriptors of all that has an id, once, and in
\* the order in which they come first.
Listed(ds, all, k) ==
    /\ \A d : Contains(ds, d) <=> d.id # "" /\ \E p \in 1..k : all[p] = d
    /\ \A i, j \in 1..Len(ds) : i < j =>
           \E p \in 1..k : all[p] = ds[i] /\ \A q \in 1..p : all[q] # ds[j]

LEMMA NotedIsListed ==
    ASSUME NEW Descriptor, NEW all \in Seq(Descriptor), NEW k \in 1..Len(all),
           NEW ds \in Seq(Descriptor), Listed(ds, all, k - 1)
    PROVE  /\ Noted(ds, all[k]) \in Seq(Descriptor)
           /\ Listed(Noted(ds, all[k]), all, k)
<1> DEFINE x == all[k]
           es == Append(ds, x)
<1>1. Len(all) \in Nat /\ Len(ds) \in Nat /\ x \in Descriptor /\ k \in Nat /\ k >= 1
  BY LenProperties, ElementOfSeq
<1>2. \A p : p \in 1..k <=> p \in 1..(k - 1) \/ p = k
  BY <1>1
<1> HIDE DEF x
<1>3. \A d : (\E p \in 1..k : all[p] = d) <=>
                 d = x \/ \E p \in 1..(k - 1) : all[p] = d
  BY <1>2 DEF x
<1>4. \A d : Contains(ds, d) <=> d.id # "" /\ \E p \in 1..(k - 1) : all[p] = d
  BY DEF Listed
<1>5. \A i, j \in 1..Len(ds) : i < j =>
          \E p \in 1..k : all[p] = ds[i] /\ \A q \in 1..p : all[q] # ds[j]
  <2>1. \A i, j \in 1..Len(ds) : i < j =>
            \E p \in 1..(k - 1) : all[p] = ds[i] /\ \A q \in 1..p : all[q] # ds[j]
    BY DEF Listed
  <2> QED
    BY <1>2, <2>1, Zenon
<1>6. CASE x.id = "" \/ Contains(ds, x)
  <2>1. Noted(ds, x) = ds
    BY <1>6 DEF Noted
  <2>2. \A d : Contains(ds, d) <=> d.id # "" /\ \E p \in 1..k : all[p] = d
    BY <1>3, <1>4, <1>6, Zenon
  <2>3. Listed(ds, all, k)
    BY <1>5, <2>2 DEF Listed
  <2> QED
    BY <2>1, <2>3 DEF x
<1>7. CASE x.id # "" /\ ~Contains(ds, x)
  <2>1. Noted(ds, x) = es
    BY <1>7 DEF Noted
  <2>2. /\ es \in Seq(Descriptor) /\ Len(es) = Len(ds) + 1
        /\ \A i \in 1..Len(ds) : es[i] = ds[i]
        /\ es[Len(ds) + 1] = x
    BY <1>1, AppendProperties
  <2> HIDE DEF es
  <2>3. \A i : i \in 1..Len(es) <=> i \in 1..Len(ds) \/ i = Len(es)
    BY <1>1, <2>2
  <2>4. \A d : Contains(es, d) <=> d = x \/ Contains(ds, d)
    BY <2>2, <2>3 DEF Contains
  <2>5. \A d : Contains(es, d) <=> d.id # "" /\ \E p \in 1..k : all[p] = d
    BY <1>3, <1>4, <1>7, <2>4, Zenon
  <2>6. \A p \in 1..(k - 1) : all[p] # x
    BY <1>4, <1>7
  <2>7. ASSUME NEW i \in 1..Len(es), NEW j \in 1..Len(es), i < j
        PROVE  \E p \in 1..k : all[p] = es[i] /\ \A q \in 1..p : all[q] # es[j]
    <3>1. i \in 1..Len(ds) /\ es[i] = ds[i]
      BY <1>1, <2>2, <2>7
    <3>2. CASE j \in 1..Len(ds)
      BY <1>5, <2>2, <2>7, <3>1, <3>2
    <3>3. CASE j = Len(es)
      <4>1. Contains(ds, ds[i])
        BY <3>1 DEF Contains
      <4>2. PICK p \in 1..(k - 1) : all[p] = ds[i]
        BY <1>4, <4>1
      <4>3. p \in 1..k /\ 1..p \subseteq 1..(k - 1)
        BY <1>1, <4>2
      <4>4. es[j] = x
        BY <2>2, <3>3
      <4> QED
        BY <2>6, <3>1, <4>2, <4>3, <4>4
    <3> QED
      BY <2>3, <3>2, <3>3
  <2>8. Listed(es, all, k)
    BY <2>5, <2>7 DEF Listed
  <2> QED
    BY <2>1, <2>2, <2>8 DEF x
<1> QED
  BY <1>6, <1>7

\* larkMediaDescriptors lists every resource of a message that has an id exactly
\* once, in the order in which the walk meets them.
THEOREM DescriptorsListed ==
    ASSUME NEW m \in Messages
    PROVE  LET all == m.walked \o m.own
           IN  /\ Descriptors(m) \in Seq(Resources)
               /\ Listed(Descriptors(m), all, Len(all))
<1> DEFINE all == m.walked \o m.own
           n == Len(all)
           Descriptor == Range(m.walked) \cup Range(m.own)
<1>1. all \in Seq(Descriptor)
  <2>1. m.walked \in Seq(Range(m.walked)) /\ m.own \in Seq(Range(m.own))
    BY MediaInputs
  <2>2. m.walked \in Seq(Descriptor) /\ m.own \in Seq(Descriptor)
    BY <2>1, SeqMonotonic
  <2> HIDE DEF Descriptor
  <2> QED
    BY <2>2, ConcatProperties
<1> HIDE DEF all, Descriptor
<1>2. n \in Nat
  BY <1>1, LenProperties
<1>3. PICK h : /\ h[0] = <<>>
               /\ \A k \in 1..n : h[k] = Noted(h[k-1], all[k])
               /\ Descriptors(m) = h[n]
  BY <1>1, DescriptorsByStep DEF all
<1> DEFINE Good(k) == h[k] \in Seq(Descriptor) /\ Listed(h[k], all, k)
           S == {k \in Nat : k <= n => Good(k)}
<1>4. 0 \in S
  <2>1. h[0] \in Seq(Descriptor) /\ Len(h[0]) = 0
    BY <1>3, EmptySeq
  <2>2. 1..0 = {} /\ 1..Len(h[0]) = {}
    BY <2>1
  <2>3. Listed(h[0], all, 0)
    BY <2>2 DEF Listed, Contains
  <2> QED
    BY <2>1, <2>3
<1>5. ASSUME NEW k \in Nat, k \in S PROVE k + 1 \in S
  <2>1. ASSUME k + 1 <= n PROVE Good(k + 1)
    <3>1. k + 1 \in 1..n /\ (k + 1) - 1 = k /\ k <= n
      BY <1>2, <2>1
    <3>2. Good(k)
      <4> HIDE DEF Good, n
      <4> QED
        BY <1>5, <3>1
    <3>3. h[k + 1] = Noted(h[k], all[k + 1])
      BY <1>3, <3>1
    <3>4. /\ Noted(h[k], all[k + 1]) \in Seq(Descriptor)
          /\ Listed(Noted(h[k], all[k + 1]), all, k + 1)
      BY <1>1, <3>1, <3>2, NotedIsListed
    <3> QED
      BY <3>3, <3>4
  <2>2. k + 1 \in Nat
    OBVIOUS
  <2> HIDE DEF Good, n
  <2> QED
    BY <2>1, <2>2, Zenon
<1>6. \A k \in Nat : k \in S => k + 1 \in S
  <2> HIDE DEF S
  <2> QED
    BY <1>5
<1>7. Good(n)
  <2>1. n \in S
    <3> HIDE DEF S, n
    <3> QED
      BY <1>2, <1>4, <1>6, NaturalInduction
  <2>2. n <= n
    BY <1>2
  <2> HIDE DEF Good, n
  <2> QED
    BY <2>1, <2>2, Zenon
<1>8. Descriptors(m) \in Seq(Descriptor) /\ Listed(Descriptors(m), all, n)
  BY <1>3, <1>7
<1>9. Descriptors(m) \in Seq(Resources)
  <2> DEFINE ds == Descriptors(m)
  <2>1. Range(ds) \subseteq Resources
    BY DEF Resources
  <2>2. ds \in Seq(Range(ds))
    <3> HIDE DEF ds
    <3>1. ds \in Seq(Descriptor)
      BY <1>8 DEF ds
    <3>2. DOMAIN ds = 1..Len(ds) /\ Len(ds) \in Nat /\ ds = [i \in 1..Len(ds) |-> ds[i]]
      BY <3>1, LenProperties
    <3>3. \A i \in 1..Len(ds) : ds[i] \in Range(ds)
      BY <3>2 DEF Range
    <3> QED
      BY <3>2, <3>3, IsASeq
  <2> HIDE DEF ds
  <2> QED
    BY <2>1, <2>2, SeqMonotonic DEF ds
<1> QED
  BY <1>8, <1>9 DEF all

-----------------------------------------------------------------------------
(* The invariant                                                           *)

Attached == [file : Temps, id : DOMAIN SizeOf]

CallType ==
    [step : Steps, inbound : BOOLEAN, rest : Seq(Resources) \cup Seq(Attachments),
     temp : Temps \cup {NoTemp}, given : Seq(Attached)]

\* Which calls have a copy of their part, and a part at all.
CallOK(r) ==
    /\ r \in CallType
    /\ r.rest \in (IF r.inbound THEN Seq(Resources) ELSE Seq(Attachments))
    /\ ~r.inbound => r.given = <<>>
    /\ r.step = "idle" => ~r.inbound
    /\ r.step = "gateway" => r.inbound
    /\ r.step \in {"stat", "read", "message"} => ~r.inbound
    /\ r.step \in {"idle", "next", "body", "gateway"} => r.temp = NoTemp
    /\ r.step \in {"copy", "check"} => r.temp \in Temps
    /\ r.step \notin {"idle", "next", "gateway"} => r.rest # <<>>

\* What the files of a call hold: a finished copy as much as is allowed and one
\* byte, what was kept the whole resource; and no file is there twice.
Holds(r) ==
    /\ r.step = "check" /\ r.inbound =>
           disk[r.temp] = LimitReader(SizeOf[Head(r.rest).id], MaxMedia)
    /\ \A i \in DOMAIN r.given :
           /\ disk[r.given[i].file] = SizeOf[r.given[i].id]
           /\ disk[r.given[i].file] <= MaxMedia
           /\ r.given[i].file # r.temp
    /\ \A i, j \in DOMAIN r.given : r.given[i].file = r.given[j].file => i = j

IInv ==
    /\ TypeOK
    /\ DOMAIN call = Calls
    /\ \A c \in Calls : CallOK(call[c]) /\ Holds(call[c])
    /\ FilesOwned
    /\ UploadsWhole

-----------------------------------------------------------------------------
(* Helpers                                                                 *)

LEMMA LimitReaderValue ==
    ASSUME NEW size \in Int, NEW limit \in Int
    PROVE  LimitReader(size, limit) = IF size <= limit + 1 THEN size ELSE limit + 1
<1> DEFINE least == IF size <= limit + 1 THEN size ELSE limit + 1
<1>1. /\ least \in {size, limit + 1}
      /\ \A y \in {size, limit + 1} : least <= y
  OBVIOUS
<1>2. \A x \in {size, limit + 1} :
          (\A y \in {size, limit + 1} : x <= y) => x = least
  OBVIOUS
<1> HIDE DEF least
<1>3. Min({size, limit + 1}) = least
  BY <1>1, <1>2 DEF Min
<1> QED
  BY <1>3 DEF LimitReader, least

LEMMA Sizes ==
    /\ \A id \in DOMAIN SizeOf : SizeOf[id] \in Nat
    /\ MaxMedia \in Nat /\ MaxImageUpload \in Nat /\ MaxFileUpload \in Nat
    /\ \A image : Limit(image) \in Nat
    /\ HostSizes \subseteq Nat
  BY MediaAssumption DEF Range, Limit

\* The files that a call was given.
LEMMA GivenFiles ==
    ASSUME NEW r, CallOK(r)
    PROVE  /\ DOMAIN r.given = 1..Len(r.given) /\ Len(r.given) \in Nat
           /\ \A i \in DOMAIN r.given : r.given[i] \in Attached
  BY LenProperties, ElementOfSeq DEF CallOK, CallType

\* A call that has a part: its tail, and the size that is offered for it.
LEMMA PartOfCall ==
    ASSUME IInv, NEW c \in Calls, call[c].rest # <<>>
    PROVE  /\ Tail(call[c].rest) \in (IF call[c].inbound THEN Seq(Resources)
                                      ELSE Seq(Attachments))
           /\ call[c].inbound => Part(c).id \in DOMAIN SizeOf
           /\ Offered(c) \in Nat
<1>1. call[c].rest \in (IF call[c].inbound THEN Seq(Resources) ELSE Seq(Attachments))
  BY DEF IInv, CallOK
<1>2. CASE call[c].inbound
  <2>1. Part(c) \in Resources /\ Tail(call[c].rest) \in Seq(Resources)
    BY <1>1, <1>2, HeadTailProperties DEF Part
  <2> QED
    BY <1>2, <2>1, MediaInputs, Sizes DEF Offered
<1>3. CASE ~call[c].inbound
  <2>1. Part(c) \in Attachments /\ Tail(call[c].rest) \in Seq(Attachments)
    BY <1>1, <1>3, HeadTailProperties DEF Part
  <2> QED
    BY <1>3, <2>1, MediaInputs DEF Offered
<1> QED
  BY <1>2, <1>3

\* What TypeOK says of a call.
CallShape(r) ==
    /\ r.step \in Steps /\ r.inbound \in BOOLEAN
    /\ r.temp \in Temps \cup {NoTemp}
    /\ \A i \in DOMAIN r.given : r.given[i].file \in Temps

LEMMA ShapeOfCall == ASSUME NEW r, CallOK(r) PROVE CallShape(r)
  BY GivenFiles DEF CallOK, CallType, CallShape, Attached

LEMMA InitInv == Init => IInv
<1> SUFFICES ASSUME Init PROVE IInv
  OBVIOUS
<1>1. \A c \in Calls : call[c] = IdleCall
  BY DEF Init
<1>2. CallOK(IdleCall) /\ Holds(IdleCall)
  BY EmptySeq DEF IdleCall, CallOK, CallType, Holds, Steps
<1>3. TypeOK
  <2>1. disk \in [Temps -> Absent..(MaxMedia + 1)]
    BY Sizes DEF Init, Absent
  <2> QED
    BY <1>1, <1>2, <2>1, ShapeOfCall, MediaAssumption DEF Init, TypeOK, CallShape
<1>4. \A c \in Calls : Owned(c) = {}
  BY <1>1 DEF Owned, Given, IdleCall
<1>5. FilesOwned
  BY <1>4 DEF Init, FilesOwned
<1> QED
  BY <1>1, <1>2, <1>3, <1>5 DEF Init, IInv, UploadsWhole

-----------------------------------------------------------------------------
(* Steps of a call                                                         *)

\* The files of a call are temporary files on disk.
LEMMA OwnedFiles ==
    ASSUME IInv, NEW c \in Calls
    PROVE  /\ Owned(c) \subseteq Temps
           /\ \A f \in Owned(c) : disk[f] \in Nat
           /\ \A i \in DOMAIN call[c].given : call[c].given[i].file \in Owned(c)
           /\ call[c].temp # NoTemp => call[c].temp \in Owned(c)
<1>1. Owned(c) \subseteq {f \in Temps : disk[f] # Absent}
  BY DEF IInv, FilesOwned
<1>2. \A f \in Temps : disk[f] \in Absent..(MaxMedia + 1)
  BY DEF IInv, TypeOK
<1>3. \A f \in Temps : disk[f] # Absent => disk[f] \in Nat
  BY <1>2, Sizes DEF Absent
<1> QED
  BY <1>1, <1>3 DEF Owned, Given

\* A step of one call that leaves on disk exactly the files it then has, and
\* touches no file that it neither had nor made.
LEMMA StepInv ==
    ASSUME IInv, NEW c \in Calls,
           DOMAIN call' = Calls,
           \A d \in Calls : d # c => call'[d] = call[d],
           CallOK(call'[c]), Holds(call[c])',
           disk' \in [Temps -> Absent..(MaxMedia + 1)],
           hostFile' \in HostSizes, rewrites' \in 0..MaxRewrites, UploadsWhole',
           \A f \in Temps \ (Owned(c) \cup Owned(c)') : disk'[f] = disk[f],
           \A f \in Owned(c)' : disk'[f] # Absent /\ (f \in Owned(c) \/ disk[f] = Absent),
           \A f \in Owned(c) \ Owned(c)' : disk'[f] = Absent
    PROVE  IInv'
<1>1. ASSUME NEW d \in Calls, d # c
      PROVE  /\ CallOK(call[d])' /\ Holds(call[d])'
             /\ Owned(d)' = Owned(d)
             /\ \A f \in Owned(d) : f \in Temps /\ disk'[f] = disk[f] /\ f \notin Owned(c)'
  <2>1. call'[d] = call[d] /\ CallOK(call[d]) /\ Holds(call[d])
    BY <1>1 DEF IInv
  <2>2. \A f \in Owned(d) : f \in Temps /\ disk[f] # Absent /\ f \notin Owned(c)
    BY <1>1 DEF IInv, FilesOwned
  <2>3. \A f \in Owned(d) : disk'[f] = disk[f] /\ f \notin Owned(c)'
    BY <2>2
  <2>4. Owned(d)' = Owned(d)
    BY <2>1 DEF Owned, Given
  <2>5. ASSUME NEW i \in DOMAIN call[d].given
        PROVE  disk'[call[d].given[i].file] = disk[call[d].given[i].file]
    BY <2>3, OwnedFiles
  <2>6. call[d].step = "check" => disk'[call[d].temp] = disk[call[d].temp]
    <3>1. call[d].step = "check" => call[d].temp # NoTemp
      BY <2>1, MediaAssumption DEF CallOK
    <3> QED
      BY <3>1, <2>3, OwnedFiles
  <2>7. Holds(call[d])'
    BY <2>1, <2>5, <2>6 DEF Holds
  <2> QED
    BY <2>1, <2>2, <2>3, <2>4, <2>7
<1>2. \A d \in Calls : CallOK(call[d])' /\ Holds(call[d])'
  BY <1>1
<1>3. TypeOK'
  <2>1. \A u \in uploaded' : u.bytes \in Nat
    BY Sizes DEF UploadsWhole
  <2>2. ASSUME NEW d \in Calls PROVE CallShape(call'[d])
    BY <1>2, ShapeOfCall
  <2> QED
    BY <2>1, <2>2 DEF TypeOK, CallShape
<1>4. FilesOwned'
  <2>1. Owned(c)' \subseteq Temps
    <3>1. \A i \in DOMAIN call'[c].given : call'[c].given[i].file \in Temps
      BY GivenFiles DEF Attached
    <3>2. call'[c].temp \in Temps \cup {NoTemp}
      BY DEF CallOK, CallType
    <3> QED
      BY <3>1, <3>2 DEF Owned, Given
  <2>2. ASSUME NEW f \in Temps
        PROVE  disk'[f] # Absent <=> \E d \in Calls : f \in Owned(d)'
    <3>1. disk[f] # Absent <=> \E d \in Calls : f \in Owned(d)
      BY DEF IInv, FilesOwned
    <3>2. CASE f \in Owned(c)'
      BY <3>2
    <3>3. CASE f \notin Owned(c)' /\ f \in Owned(c)
      <4>1. disk'[f] = Absent
        BY <3>3
      <4>2. \A d \in Calls : d # c => f \notin Owned(d)
        BY <3>3 DEF IInv, FilesOwned
      <4> QED
        BY <1>1, <3>3, <4>1, <4>2
    <3>4. CASE f \notin Owned(c)' /\ f \notin Owned(c)
      <4>1. disk'[f] = disk[f]
        BY <3>4
      <4> QED
        BY <1>1, <3>1, <3>4, <4>1
    <3> QED
      BY <3>2, <3>3, <3>4
  <2>3. ASSUME NEW d \in Calls, NEW e \in Calls, d # e
        PROVE  Owned(d)' \cap Owned(e)' = {}
    <3>1. Owned(d) \cap Owned(e) = {}
      BY <2>3 DEF IInv, FilesOwned
    <3> QED
      BY <1>1, <2>3, <3>1
  <2>4. \A d \in Calls : Owned(d)' \subseteq Temps
    BY <1>1, <2>1
  <2> QED
    BY <2>2, <2>3, <2>4 DEF FilesOwned
<1> QED
  BY <1>2, <1>3, <1>4 DEF IInv

\* A step of one call that leaves its files and the disk alone.
LEMMA SameFilesInv ==
    ASSUME IInv, NEW c \in Calls,
           DOMAIN call' = Calls,
           \A d \in Calls : d # c => call'[d] = call[d],
           CallOK(call'[c]), call'[c].step # "check",
           call'[c].given = call[c].given, call'[c].temp = call[c].temp,
           UNCHANGED <<disk, hostFile, rewrites>>, UploadsWhole'
    PROVE  IInv'
<1>1. Owned(c)' = Owned(c)
  BY DEF Owned, Given
<1>2. Holds(call[c])'
  BY DEF IInv, Holds
<1>3. \A f \in Owned(c) : f \in Temps /\ disk[f] # Absent
  BY DEF IInv, FilesOwned
<1>4. /\ disk' \in [Temps -> Absent..(MaxMedia + 1)]
      /\ hostFile' \in HostSizes /\ rewrites' \in 0..MaxRewrites
  BY DEF IInv, TypeOK
<1> QED
  BY <1>1, <1>2, <1>3, <1>4, StepInv

-----------------------------------------------------------------------------
(* The actions                                                             *)

LEMMA OthersStay ==
    ASSUME IInv, NEW c \in Calls, NEW r, call' = [call EXCEPT ![c] = r]
    PROVE  /\ DOMAIN call' = Calls /\ call'[c] = r
           /\ \A d \in Calls : d # c => call'[d] = call[d]
  BY DEF IInv

LEMMA BeginInv ==
    ASSUME IInv, NEW c \in Calls,
           \/ \E m \in Messages : BeginInbound(c, m)
           \/ \E b \in Batches : BeginOutbound(c, b)
    PROVE  IInv'
<1>1. CallOK(call[c]) /\ call[c].step = "idle"
  BY DEF IInv, BeginInbound, BeginOutbound, At
<1>2. call[c].given = <<>> /\ call[c].temp = NoTemp
  BY <1>1 DEF CallOK
<1>3. PICK r : /\ call' = [call EXCEPT ![c] = r] /\ CallOK(r)
               /\ r.step = "next" /\ r.given = <<>> /\ r.temp = NoTemp
  <2>1. CASE \E m \in Messages : BeginInbound(c, m)
    <3>1. PICK m \in Messages : BeginInbound(c, m)
      BY <2>1
    <3> DEFINE begun == [IdleCall EXCEPT !.step = "next", !.inbound = TRUE,
                                    !.rest = Descriptors(m)]
    <3>2. CallOK(begun)
      BY MediaInputs, DescriptorsListed, EmptySeq DEF IdleCall, CallOK, CallType, Steps
    <3>3. begun.step = "next" /\ begun.given = <<>> /\ begun.temp = NoTemp
      BY DEF IdleCall
    <3>4. call' = [call EXCEPT ![c] = begun]
      BY <3>1 DEF BeginInbound
    <3> HIDE DEF begun
    <3> QED
      BY <3>2, <3>3, <3>4
  <2>2. CASE \E b \in Batches : BeginOutbound(c, b)
    <3>1. PICK b \in Batches : BeginOutbound(c, b)
      BY <2>2
    <3> DEFINE begun == [IdleCall EXCEPT !.step = "next", !.rest = b]
    <3>2. CallOK(begun)
      BY MediaInputs, EmptySeq DEF IdleCall, CallOK, CallType, Steps
    <3>3. begun.step = "next" /\ begun.given = <<>> /\ begun.temp = NoTemp
      BY DEF IdleCall
    <3>4. call' = [call EXCEPT ![c] = begun]
      BY <3>1 DEF BeginOutbound
    <3> HIDE DEF begun
    <3> QED
      BY <3>2, <3>3, <3>4
  <2> QED
    BY <2>1, <2>2
<1>4. UNCHANGED <<disk, hostFile, rewrites, uploaded>>
  BY DEF BeginInbound, BeginOutbound
<1>5. UploadsWhole'
  BY <1>4 DEF IInv, UploadsWhole
<1> QED
  BY <1>2, <1>3, <1>4, <1>5, OthersStay, SameFilesInv

\* The call goes on to the next part without a file of this one.
LEMMA NextPartOK ==
    ASSUME IInv, NEW c \in Calls, call[c].rest # <<>>
    PROVE  CallOK(NextPart(c))
  BY PartOfCall DEF IInv, CallOK, CallType, NextPart, Steps

LEMMA WalkInv ==
    ASSUME IInv, NEW c \in Calls,
           Request(c) \/ PartFails(c) \/ UsePath(c) \/ Stat(c) \/ Dispatch(c)
    PROVE  IInv'
<1>0. CallOK(call[c])
  BY DEF IInv
<1>1. UNCHANGED <<disk, hostFile, rewrites, uploaded>>
  BY DEF Request, PartFails, UsePath, Stat, Dispatch
<1>2. PICK r : /\ call' = [call EXCEPT ![c] = r] /\ CallOK(r) /\ r.step # "check"
               /\ r.given = call[c].given /\ r.temp = call[c].temp
  <2>1. CASE PartFails(c)
    <3>1. call[c].rest # <<>> /\ call[c].temp = NoTemp
      BY <1>0, <2>1 DEF PartFails, At, CallOK
    <3> QED
      BY <1>0, <2>1, <3>1, NextPartOK DEF PartFails, NextPart, CallOK, CallType
  <2>2. CASE ~PartFails(c)
    <3>1. PICK s \in {"body", "stat", "read", "gateway"} :
              /\ call' = [call EXCEPT ![c].step = s]
              /\ CallOK([call[c] EXCEPT !.step = s])
      BY <1>0, <2>2 DEF Request, UsePath, Stat, Dispatch, At, CallOK, CallType,
                        Steps, FromPath
    <3> QED
      BY <1>0, <3>1 DEF CallOK, CallType
  <2> QED
    BY <2>1, <2>2
<1>3. UploadsWhole'
  BY <1>1 DEF IInv, UploadsWhole
<1> QED
  BY <1>1, <1>2, <1>3, OthersStay, SameFilesInv

LEMMA ReadInv == ASSUME IInv, NEW c \in Calls, Read(c) PROVE IInv'
<1>0. CallOK(call[c])
  BY DEF IInv
<1>1. CallOK([call[c] EXCEPT !.step = "message"])
  BY <1>0 DEF Read, At, CallOK, CallType, Steps
<1>2. UploadsWhole'
  <2> DEFINE limit == Limit(Part(c).image)
             bytes == LimitReader(Size(c), limit)
  <2>1. Size(c) \in Nat
    BY <1>0, OwnedFiles, Sizes DEF Size, IInv, TypeOK
  <2>2. bytes = Size(c)
    BY <2>1, LimitReaderValue, Sizes DEF Read
  <2>3. uploaded' = uploaded \cup
            {[bytes |-> bytes, size |-> Size(c), image |-> Part(c).image]}
        /\ bytes \in 1..limit
    BY DEF Read
  <2> HIDE DEF bytes
  <2> QED
    BY <2>2, <2>3 DEF IInv, UploadsWhole
<1> QED
  BY <1>0, <1>1, <1>2, OthersStay, SameFilesInv DEF Read, CallOK, CallType

LEMMA CreateTempInv ==
    ASSUME IInv, NEW c \in Calls, NEW f \in Temps, CreateTemp(c, f) PROVE IInv'
<1>0. /\ CallOK(call[c]) /\ Holds(call[c])
      /\ call[c].step = "body" /\ call[c].temp = NoTemp /\ disk[f] = Absent
  BY DEF IInv, CreateTemp, At, CallOK
<1> DEFINE r == [call[c] EXCEPT !.step = "copy", !.temp = f]
<1>1. call' = [call EXCEPT ![c] = r] /\ CallOK(r)
  BY <1>0 DEF CreateTemp, CallOK, CallType, Steps
<1>2. r.given = call[c].given /\ r.temp = f /\ r.step = "copy"
  BY <1>0 DEF CallOK, CallType
<1> HIDE DEF r
<1>3. DOMAIN call' = Calls /\ call'[c] = r /\ \A d \in Calls : d # c => call'[d] = call[d]
  BY <1>1, OthersStay
<1>4. Owned(c)' = Owned(c) \cup {f}
  BY <1>0, <1>2, <1>3, MediaAssumption DEF Owned, Given
<1>5. disk' = [disk EXCEPT ![f] = 0] /\ disk \in [Temps -> Absent..(MaxMedia + 1)]
  BY DEF CreateTemp, IInv, TypeOK
<1>6. f \notin Owned(c) /\ \A g \in Owned(c) : disk'[g] = disk[g] /\ disk'[g] # Absent
  BY <1>0, <1>5 DEF IInv, FilesOwned
<1>7. Holds(call[c])'
  BY <1>0, <1>2, <1>3, <1>6, OwnedFiles DEF Holds
<1>8. /\ disk' \in [Temps -> Absent..(MaxMedia + 1)] /\ disk'[f] = 0
      /\ hostFile' \in HostSizes /\ rewrites' \in 0..MaxRewrites /\ UploadsWhole'
  BY <1>5, Sizes DEF CreateTemp, IInv, TypeOK, UploadsWhole, Absent
<1> QED
  BY <1>0, <1>1, <1>3, <1>4, <1>5, <1>6, <1>7, <1>8, StepInv DEF Absent

LEMMA CopyInv == ASSUME IInv, NEW c \in Calls, Copy(c) PROVE IInv'
<1>0. /\ CallOK(call[c]) /\ Holds(call[c]) /\ call[c].step = "copy"
      /\ call[c].temp \in Temps /\ call[c].rest # <<>>
  BY DEF IInv, Copy, At, CallOK
<1> DEFINE r == [call[c] EXCEPT !.step = "check"]
           size == LimitReader(Offered(c), MaxMedia)
<1>1. call' = [call EXCEPT ![c] = r] /\ CallOK(r)
  BY <1>0 DEF Copy, CallOK, CallType, Steps
<1>2. /\ r.given = call[c].given /\ r.temp = call[c].temp /\ r.rest = call[c].rest
      /\ r.step = "check" /\ r.inbound = call[c].inbound
  BY <1>0 DEF CallOK, CallType
<1>3. size \in 0..(MaxMedia + 1)
  BY <1>0, PartOfCall, LimitReaderValue, Sizes
<1>4. disk' = [disk EXCEPT ![call[c].temp] = size]
      /\ disk \in [Temps -> Absent..(MaxMedia + 1)]
  BY DEF Copy, IInv, TypeOK
<1>5. call[c].inbound => size = LimitReader(SizeOf[Head(call[c].rest).id], MaxMedia)
  BY DEF Offered, Part
<1> HIDE DEF r, size
<1>6. DOMAIN call' = Calls /\ call'[c] = r /\ \A d \in Calls : d # c => call'[d] = call[d]
  BY <1>1, OthersStay
<1>7. Owned(c)' = Owned(c) /\ call[c].temp \in Owned(c)
  BY <1>0, <1>2, <1>6, MediaAssumption DEF Owned, Given
<1>8. /\ disk'[call[c].temp] = size
      /\ \A f \in Temps : f # call[c].temp => disk'[f] = disk[f]
      /\ disk' \in [Temps -> Absent..(MaxMedia + 1)]
  BY <1>0, <1>3, <1>4, Sizes DEF Absent
<1>9. Holds(call[c])'
  <2>1. \A i \in DOMAIN call[c].given :
            call[c].given[i].file \in Temps /\ call[c].given[i].file # call[c].temp
    BY <1>0, GivenFiles DEF Holds, Attached
  <2> QED
    BY <1>0, <1>2, <1>5, <1>6, <1>8, <2>1 DEF Holds
<1>10. \A f \in Owned(c) : f \in Temps /\ disk'[f] # Absent
  BY <1>0, <1>3, <1>8, OwnedFiles DEF Absent
<1>11. hostFile' \in HostSizes /\ rewrites' \in 0..MaxRewrites /\ UploadsWhole'
  BY DEF Copy, IInv, TypeOK, UploadsWhole
<1> QED
  BY <1>1, <1>6, <1>7, <1>8, <1>9, <1>10, <1>11, StepInv

\* The copy is removed with the part it was of.
LEMMA RemoveInv ==
    ASSUME IInv, NEW c \in Calls, Discard(c) \/ EndPart(c) PROVE IInv'
<1>0. /\ CallOK(call[c]) /\ Holds(call[c]) /\ call[c].rest # <<>>
      /\ call[c].temp \in Temps \cup {NoTemp}
  BY DEF IInv, Discard, EndPart, CallOK, CallType
<1> DEFINE r == NextPart(c)
<1>1. call' = [call EXCEPT ![c] = r] /\ CallOK(r)
  BY <1>0, NextPartOK DEF Discard, EndPart
<1>2. r.given = call[c].given /\ r.temp = NoTemp /\ r.step = "next"
  BY <1>0 DEF NextPart, CallOK, CallType
<1> HIDE DEF r
<1>3. DOMAIN call' = Calls /\ call'[c] = r /\ \A d \in Calls : d # c => call'[d] = call[d]
  BY <1>1, OthersStay
<1>4. \A i \in DOMAIN call[c].given :
          call[c].given[i].file \in Temps /\ call[c].given[i].file # call[c].temp
  BY <1>0, GivenFiles DEF Holds, Attached
<1>5. Owned(c)' = Owned(c) \ {call[c].temp} /\ Owned(c)' \subseteq Owned(c)
  BY <1>2, <1>3, <1>4 DEF Owned, Given
<1>6. /\ \A f \in Temps : disk'[f] = IF f = call[c].temp THEN Absent ELSE disk[f]
      /\ DOMAIN disk' = Temps
  BY DEF Discard, EndPart, Removed
<1>7. disk' \in [Temps -> Absent..(MaxMedia + 1)]
  <2>1. disk \in [Temps -> Absent..(MaxMedia + 1)] /\ Absent \in Absent..(MaxMedia + 1)
    BY Sizes DEF IInv, TypeOK, Absent
  <2> QED
    BY <2>1 DEF Discard, EndPart, Removed
<1>8. Holds(call[c])'
  BY <1>0, <1>2, <1>3, <1>4, <1>6, MediaAssumption DEF Holds
<1>9. \A f \in Owned(c) : f \in Temps /\ disk[f] # Absent
  BY DEF IInv, FilesOwned
<1>10. hostFile' \in HostSizes /\ rewrites' \in 0..MaxRewrites /\ UploadsWhole'
  BY DEF Discard, EndPart, IInv, TypeOK, UploadsWhole
<1>11. /\ \A f \in Temps \ (Owned(c) \cup Owned(c)') : disk'[f] = disk[f]
       /\ \A f \in Owned(c)' : disk'[f] # Absent /\ f \in Owned(c)
       /\ \A f \in Owned(c) \ Owned(c)' : disk'[f] = Absent
  <2>1. call[c].temp \in Temps => call[c].temp \in Owned(c)
    BY MediaAssumption DEF Owned
  <2> QED
    BY <1>5, <1>6, <1>9, <2>1
<1> QED
  BY <1>1, <1>3, <1>7, <1>8, <1>10, <1>11, StepInv

LEMMA ReturnInv == ASSUME IInv, NEW c \in Calls, Return(c) PROVE IInv'
<1>0. /\ CallOK(call[c]) /\ call[c].temp = NoTemp
  BY DEF IInv, Return, At, CallOK
<1>1. CallOK(IdleCall) /\ IdleCall.given = <<>> /\ IdleCall.temp = NoTemp
      /\ IdleCall.step = "idle"
  BY EmptySeq DEF IdleCall, CallOK, CallType, Steps
<1>2. DOMAIN call' = Calls /\ call'[c] = IdleCall
      /\ \A d \in Calls : d # c => call'[d] = call[d]
  BY OthersStay DEF Return
<1>3. Owned(c) = Given(c) /\ Owned(c)' = {} /\ Holds(call[c])'
  BY <1>0, <1>1, <1>2 DEF Owned, Given, Holds
<1>4. \A f \in Temps : disk'[f] = IF f \in Given(c) THEN Absent ELSE disk[f]
  BY DEF Return, Removed
<1>5. disk' \in [Temps -> Absent..(MaxMedia + 1)]
  <2>1. disk \in [Temps -> Absent..(MaxMedia + 1)] /\ Absent \in Absent..(MaxMedia + 1)
    BY Sizes DEF IInv, TypeOK, Absent
  <2> QED
    BY <2>1 DEF Return, Removed
<1>6. hostFile' \in HostSizes /\ rewrites' \in 0..MaxRewrites /\ UploadsWhole'
  BY DEF Return, IInv, TypeOK, UploadsWhole
<1> QED
  BY <1>1, <1>2, <1>3, <1>4, <1>5, <1>6, OwnedFiles, StepInv

LEMMA HostInv ==
    ASSUME IInv, (\E s \in HostSizes : Rewrite(s)) \/ UNCHANGED vars PROVE IInv'
<1>1. UNCHANGED <<disk, call, uploaded>>
  BY DEF Rewrite, vars
<1>2. \A c \in Calls : CallOK(call[c])' /\ Holds(call[c])'
  BY <1>1 DEF IInv, Holds
<1>3. hostFile' \in HostSizes /\ rewrites' \in 0..MaxRewrites
  BY MediaAssumption DEF Rewrite, vars, IInv, TypeOK
<1>4. TypeOK'
  BY <1>1, <1>3 DEF IInv, TypeOK
<1>5. FilesOwned' /\ UploadsWhole'
  <2>1. \A c \in Calls : Owned(c)' = Owned(c)
    BY <1>1 DEF Owned, Given
  <2>2. FilesOwned /\ UploadsWhole
    BY DEF IInv
  <2> QED
    BY <1>1, <2>1, <2>2 DEF FilesOwned, UploadsWhole
<1> QED
  BY <1>1, <1>2, <1>4, <1>5 DEF IInv

\* A copy that was kept is whole: one byte too many would have been seen.
LEMMA KeepInv == ASSUME IInv, NEW c \in Calls, Keep(c) PROVE IInv'
<1>0. /\ CallOK(call[c]) /\ Holds(call[c]) /\ call[c].step = "check"
      /\ call[c].temp \in Temps /\ call[c].rest # <<>>
      /\ disk[call[c].temp] <= MaxMedia
  BY DEF IInv, Keep, At, CallOK
<1>1. UNCHANGED <<disk, hostFile, rewrites>> /\ UploadsWhole'
  BY DEF Keep, IInv, UploadsWhole
<1>2. CASE ~call[c].inbound
  <2> DEFINE r == [call[c] EXCEPT !.step = "stat"]
  <2>1. call' = [call EXCEPT ![c] = r] /\ CallOK(r)
    BY <1>0, <1>2 DEF Keep, CallOK, CallType, Steps
  <2>2. r.step = "stat" /\ r.given = call[c].given /\ r.temp = call[c].temp
    BY <1>0 DEF CallOK, CallType
  <2> HIDE DEF r
  <2> QED
    BY <1>1, <2>1, <2>2, OthersStay, SameFilesInv
<1>3. CASE call[c].inbound
  <2> DEFINE kept == [file |-> call[c].temp, id |-> Part(c).id]
             given == Append(call[c].given, kept)
             n == Len(call[c].given)
             r == [NextPart(c) EXCEPT !.given = given]
  <2>0. Part(c).id \in DOMAIN SizeOf /\ kept \in Attached
    BY <1>0, <1>3, PartOfCall DEF Attached
  <2>1. call[c].given \in Seq(Attached) /\ n \in Nat /\ DOMAIN call[c].given = 1..n
    BY <1>0, GivenFiles DEF CallOK, CallType
  <2>2. /\ given \in Seq(Attached) /\ DOMAIN given = 1..(n + 1)
        /\ given[n + 1] = kept /\ \A i \in 1..n : given[i] = call[c].given[i]
    BY <2>0, <2>1
  <2>3. call' = [call EXCEPT ![c] = r]
    <3>1. NextPart(c).given = call[c].given
      BY <1>0 DEF NextPart, CallOK, CallType
    <3> QED
      BY <1>3, <3>1 DEF Keep
  <2>4. CallOK(NextPart(c)) /\ NextPart(c).step = "next" /\ NextPart(c).temp = NoTemp
        /\ NextPart(c).inbound
    BY <1>0, <1>3, NextPartOK DEF NextPart, CallOK, CallType
  <2> HIDE DEF given
  <2>5. CallOK(r) /\ r.given = given /\ r.temp = NoTemp /\ r.step = "next"
    BY <2>2, <2>4 DEF CallOK, CallType
  <2> HIDE DEF r, n
  <2>6. DOMAIN call' = Calls /\ call'[c] = r
        /\ \A d \in Calls : d # c => call'[d] = call[d]
    BY <2>3, OthersStay
  <2>7. disk[call[c].temp] = SizeOf[Part(c).id]
    BY <1>0, <1>3, <2>0, LimitReaderValue, Sizes DEF Holds, Part
  <2>8. \A i \in 1..n : call[c].given[i].file # call[c].temp
    BY <1>0, <2>1 DEF Holds
  <2>9. \A i \in 1..(n + 1) : /\ i \in 1..n \/ i = n + 1
                             /\ given[i].file \in Temps
    <3>1. \A i \in 1..(n + 1) : i \in 1..n \/ i = n + 1
      BY <2>1
    <3>2. \A i \in 1..n : given[i].file \in Temps
      BY <1>0, <2>1, <2>2, GivenFiles DEF Attached
    <3>3. given[n + 1].file \in Temps
      BY <1>0, <2>2
    <3> QED
      BY <3>1, <3>2, <3>3
  <2>10. Holds(call[c])'
    <3>1. ASSUME NEW i \in 1..(n + 1)
          PROVE  /\ disk[given[i].file] = SizeOf[given[i].id]
                 /\ disk[given[i].file] <= MaxMedia
                 /\ given[i].file # NoTemp
      <4>1. CASE i \in 1..n
        BY <1>0, <2>1, <2>2, <2>9, <4>1, MediaAssumption DEF Holds
      <4>2. CASE i = n + 1
        BY <1>0, <2>2, <2>7, <4>2, MediaAssumption
      <4> QED
        BY <2>9, <4>1, <4>2
    <3>2. ASSUME NEW i \in 1..(n + 1), NEW j \in 1..(n + 1),
                 given[i].file = given[j].file
          PROVE  i = j
      <4>1. CASE i \in 1..n /\ j \in 1..n
        BY <1>0, <2>1, <2>2, <3>2, <4>1, SMTT(20) DEF Holds
      <4>2. CASE i \in 1..n /\ j = n + 1
        BY <2>2, <2>8, <3>2, <4>2
      <4>3. CASE i = n + 1 /\ j \in 1..n
        BY <2>2, <2>8, <3>2, <4>3
      <4> QED
        BY <2>9, <4>1, <4>2, <4>3
    <3> QED
      BY <1>1, <2>2, <2>5, <2>6, <3>1, <3>2 DEF Holds
  <2>11. Owned(c)' = Owned(c)
    <3>1. Given(c)' = Given(c) \cup {call[c].temp}
      <4>1. \A i \in 1..n : given[i].file = call[c].given[i].file
        BY <2>2
      <4>2. given[n + 1].file = call[c].temp
        BY <2>2
      <4>3. n + 1 \in 1..(n + 1) /\ 1..n \subseteq 1..(n + 1)
        BY <2>1 DEF n
      <4> QED
        BY <2>1, <2>2, <2>5, <2>6, <2>9, <4>1, <4>2, <4>3 DEF Given
    <3>2. call'[c].temp = NoTemp /\ call[c].temp # NoTemp
      BY <1>0, <2>5, <2>6, MediaAssumption
    <3> QED
      BY <3>1, <3>2 DEF Owned
  <2>12. \A f \in Owned(c) : f \in Temps /\ disk[f] # Absent
    BY DEF IInv, FilesOwned
  <2>13. /\ disk' \in [Temps -> Absent..(MaxMedia + 1)]
         /\ hostFile' \in HostSizes /\ rewrites' \in 0..MaxRewrites
    BY <1>1 DEF IInv, TypeOK
  <2> QED
    BY <1>1, <2>5, <2>6, <2>10, <2>11, <2>12, <2>13, StepInv
<1> QED
  BY <1>2, <1>3

-----------------------------------------------------------------------------
(* The theorems                                                            *)

LEMMA StepsKeepInv == ASSUME IInv, [Next]_vars PROVE IInv'
<1>1. ASSUME NEW c \in Calls, Proceed(c) PROVE IInv'
  BY <1>1, WalkInv, CreateTempInv, CopyInv, RemoveInv, KeepInv, ReadInv, ReturnInv
     DEF Proceed
<1>2. ASSUME NEW c \in Calls,
             \/ \E m \in Messages : BeginInbound(c, m)
             \/ \E b \in Batches : BeginOutbound(c, b)
      PROVE  IInv'
  BY <1>2, BeginInv
<1>3. CASE (\E s \in HostSizes : Rewrite(s)) \/ UNCHANGED vars
  BY <1>3, HostInv
<1> QED
  BY <1>1, <1>2, <1>3 DEF Next

LEMMA AlwaysIInv == Spec => []IInv
<1>1. Init => IInv
  BY InitInv
<1>2. IInv /\ [Next]_vars => IInv'
  BY StepsKeepInv
<1> QED
  BY <1>1, <1>2, PTL DEF Spec

\* TypeOK: in particular, no temporary file exceeds the limit by more than the
\* byte that LimitReader lets through.
THEOREM TypeCorrect == Spec => []TypeOK
<1>1. IInv => TypeOK
  BY DEF IInv
<1> QED
  BY <1>1, AlwaysIInv, PTL

\* The temporary files on disk are those of calls under way, each of one call,
\* on every path through downloads, uploads, failures and handlers.
THEOREM FilesAreOwned == Spec => []FilesOwned
<1>1. IInv => FilesOwned
  BY DEF IInv
<1> QED
  BY <1>1, AlwaysIInv, PTL

\* While the gateway handles a message, every attachment has a file of its own
\* with the whole resource.
THEOREM GatewayHasWholeFiles == Spec => []GatewayReadsWhole
<1>1. ASSUME IInv, NEW c \in Calls
      PROVE  Cardinality(Given(c)) = Len(call[c].given)
  <2> DEFINE n == Len(call[c].given)
             f == [i \in 1..n |-> call[c].given[i].file]
  <2>1. n \in Nat /\ DOMAIN call[c].given = 1..n /\ Holds(call[c])
    BY <1>1, GivenFiles DEF IInv
  <2>2. f \in Bijection(1..n, Given(c))
    BY <2>1 DEF Bijection, Injection, Surjection, IsInjective, Given, Holds
  <2>3. ExistsBijection(1..n, Given(c))
    BY <2>2 DEF ExistsBijection
  <2> QED
    BY <2>1, <2>3, FS_CountingElements
<1>2. IInv => GatewayReadsWhole
  BY <1>1 DEF IInv, Holds, GatewayReadsWhole
<1> QED
  BY <1>2, AlwaysIInv, PTL

\* Uploads are whole and within the limit though the host changes its files.
THEOREM UploadsAreWhole == Spec => []UploadsWhole
<1>1. IInv => UploadsWhole
  BY DEF IInv
<1> QED
  BY <1>1, AlwaysIInv, PTL
=============================================================================

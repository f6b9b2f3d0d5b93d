-------------------------- MODULE SessionLog_proofs --------------------------
(***************************************************************************)
(* Proofs about SessionLog.  The paths, the parsed lines and the followed  *)
(* markers of the model are recursive functions: that each is defined for  *)
(* every input, and of its type, is shown first, by a smallest argument    *)
(* for which it would not be.                                              *)
(***************************************************************************)
EXTENDS SessionLog, SequenceTheorems, WellFoundedInduction, TLAPS

-----------------------------------------------------------------------------
(* Numbers and selections. *)

LEMMA LeastNat ==
    ASSUME NEW S, S \subseteq Nat, S # {}
    PROVE  \E n \in S : \A k \in S : n <= k
  <1>1. PICK n \in S : \A k \in S : ~(<<k, n>> \in OpToRel(<, Nat))
    BY NatLessThanWellFounded, WFMin
  <1>2. ASSUME NEW k \in S
        PROVE  n <= k
    <2>1. <<k, n>> \in Nat \X Nat /\ ~(k < n)
      BY <1>1, <1>2 DEF OpToRel
    <2> QED BY <2>1
  <1> QED BY <1>2

LEMMA GreatestNat ==
    ASSUME NEW b \in Nat, NEW S, S \subseteq 0..b, S # {}
    PROVE  \E n \in S : \A k \in S : n >= k
  <1> DEFINE T == {k \in 0..b : b - k \in S}
  <1>1. T \subseteq Nat /\ T # {}
    <2>1. PICK s \in S : s \in 0..b
      OBVIOUS
    <2>2. b - s \in 0..b /\ b - (b - s) = s
      BY <2>1
    <2>3. b - s \in T
      BY <2>1, <2>2
    <2>4. T \subseteq Nat
      OBVIOUS
    <2> QED BY <2>3, <2>4
  <1> HIDE DEF T
  <1>2. PICK t \in T : \A k \in T : t <= k
    BY <1>1, LeastNat
  <1>3. t \in 0..b /\ b - t \in S
    BY DEF T
  <1>4. ASSUME NEW k \in S
        PROVE  b - t >= k
    <2>1. k \in 0..b /\ b - k \in 0..b /\ b - (b - k) = k
      OBVIOUS
    <2>2. b - k \in T
      BY <2>1 DEF T
    <2> QED BY <1>2, <1>3, <2>1, <2>2
  <1> QED BY <1>3, <1>4

(* Induction up to a bound, for a property given as a set.                 *)
LEMMA UpTo ==
    ASSUME NEW b \in Nat, NEW S,
           \A n \in 0..b : (\A k \in 0..b : k < n => k \in S) => n \in S
    PROVE  \A n \in 0..b : n \in S
  <1> DEFINE Bad == {n \in 0..b : n \notin S}
  <1>1. SUFFICES ASSUME Bad # {} PROVE FALSE
    OBVIOUS
  <1>2. Bad \subseteq Nat
    OBVIOUS
  <1>3. PICK n \in Bad : \A k \in Bad : n <= k
    <2> HIDE DEF Bad
    <2> QED BY <1>1, <1>2, LeastNat
  <1>4. n \in 0..b /\ n \notin S
    BY <1>3
  <1>5. ASSUME NEW k \in 0..b, k < n
        PROVE  k \in S
    <2>1. ~(n <= k)
      BY <1>4, <1>5
    <2> QED BY <1>3, <2>1
  <1> QED BY <1>4, <1>5

(* The largest and the smallest of a set of indices.                       *)
LEMMA MaxMin ==
    ASSUME NEW b \in Nat, NEW S, S \subseteq 1..b, S # {}
    PROVE  /\ Max(S) \in S /\ \A k \in S : k <= Max(S)
           /\ Min(S) \in S /\ \A k \in S : Min(S) <= k
  <1>1. S \subseteq 0..b /\ S \subseteq Nat
    OBVIOUS
  <1>2. \E n \in S : \A k \in S : n >= k
    BY <1>1, GreatestNat
  <1>3. \E n \in S : \A k \in S : n <= k
    BY <1>1, LeastNat
  <1>4. Max(S) \in S /\ \A k \in S : Max(S) >= k
    BY <1>2 DEF Max
  <1>5. Min(S) \in S /\ \A k \in S : Min(S) <= k
    BY <1>3 DEF Min
  <1> QED BY <1>1, <1>4, <1>5

(* The last and the first place of a path with an entry in a set.          *)
Places(path, T) == {i \in 1..Len(path) : path[i] \in T}
LastAt(path, T) == IF Places(path, T) # {} THEN Max(Places(path, T)) ELSE 0
FirstAt(path, T) == IF Places(path, T) # {} THEN Min(Places(path, T)) ELSE 0

LEMMA SelectedPlaces ==
    ASSUME NEW path \in Seq(Ids), NEW T
    PROVE  /\ \/ LastAt(path, T) = 0 /\ \A k \in DOMAIN path : path[k] \notin T
              \/ /\ LastAt(path, T) \in DOMAIN path /\ path[LastAt(path, T)] \in T
                 /\ \A k \in DOMAIN path : k > LastAt(path, T) => path[k] \notin T
           /\ \/ FirstAt(path, T) = 0 /\ \A k \in DOMAIN path : path[k] \notin T
              \/ /\ FirstAt(path, T) \in DOMAIN path /\ path[FirstAt(path, T)] \in T
                 /\ \A k \in DOMAIN path : k < FirstAt(path, T) => path[k] \notin T
  <1> DEFINE I == Places(path, T)
  <1>1. Len(path) \in Nat /\ DOMAIN path = 1..Len(path)
    OBVIOUS
  <1>2. /\ I \subseteq 1..Len(path)
        /\ \A i : i \in I <=> i \in DOMAIN path /\ path[i] \in T
    BY <1>1 DEF Places
  <1> HIDE DEF I
  <1>3. LastAt(path, T) = (IF I # {} THEN Max(I) ELSE 0) /\
        FirstAt(path, T) = (IF I # {} THEN Min(I) ELSE 0)
    BY DEF LastAt, FirstAt, I
  <1>4. CASE I = {}
    BY <1>2, <1>3, <1>4
  <1>5. CASE I # {}
    <2>1. /\ Max(I) \in I /\ \A k \in I : k <= Max(I)
          /\ Min(I) \in I /\ \A k \in I : Min(I) <= k
      BY <1>1, <1>2, <1>5, MaxMin
    <2>2. Max(I) \in 1..Len(path) /\ Min(I) \in 1..Len(path)
      BY <1>2, <2>1
    <2>3. \A k \in DOMAIN path : k > Max(I) => k \notin I
      BY <1>1, <2>1, <2>2
    <2>4. \A k \in DOMAIN path : k < Min(I) => k \notin I
      BY <1>1, <2>1, <2>2
    <2> QED BY <1>2, <1>3, <1>5, <2>1, <2>3, <2>4
  <1> QED BY <1>4, <1>5

(* What the model selects, as such a place.                                *)
OfKind(kinds) == {i \in Ids : Kind(i) \in kinds}

LEMMA Selections ==
    \A path \in Seq(Ids) :
        /\ SelectLastInSeq(path, IsCompaction) = LastAt(path, OfKind({"compaction"}))
        /\ SelectLastInSeq(path, LAMBDA i : Kind(i) = "finished") =
             LastAt(path, OfKind({"finished"}))
        /\ SelectLastInSeq(path, LAMBDA i : Kind(i) \in {"user", "finished"}) =
             LastAt(path, OfKind({"user", "finished"}))
        /\ \A kept : SelectInSeq(path, LAMBDA i : i = kept) = FirstAt(path, {kept})
  <1> SUFFICES ASSUME NEW path \in Seq(Ids)
      PROVE
        /\ SelectLastInSeq(path, IsCompaction) = LastAt(path, OfKind({"compaction"}))
        /\ SelectLastInSeq(path, LAMBDA i : Kind(i) = "finished") =
             LastAt(path, OfKind({"finished"}))
        /\ SelectLastInSeq(path, LAMBDA i : Kind(i) \in {"user", "finished"}) =
             LastAt(path, OfKind({"user", "finished"}))
        /\ \A kept : SelectInSeq(path, LAMBDA i : i = kept) = FirstAt(path, {kept})
    OBVIOUS
  <1>1. \A i \in 1..Len(path) : path[i] \in Ids
    OBVIOUS
  <1>2. {i \in 1..Len(path) : Kind(path[i]) = "compaction"} =
          Places(path, OfKind({"compaction"}))
    BY <1>1 DEF Places, OfKind
  <1>3. {i \in 1..Len(path) : Kind(path[i]) = "finished"} =
          Places(path, OfKind({"finished"}))
    BY <1>1 DEF Places, OfKind
  <1>4. {i \in 1..Len(path) : Kind(path[i]) \in {"user", "finished"}} =
          Places(path, OfKind({"user", "finished"}))
    BY <1>1 DEF Places, OfKind
  <1>5. \A kept : {i \in 1..Len(path) : path[i] = kept} = Places(path, {kept})
    BY DEF Places
  <1>6. SelectLastInSeq(path, IsCompaction) = LastAt(path, OfKind({"compaction"}))
    BY <1>2 DEF SelectLastInSeq, LastAt, IsCompaction
  <1>7. SelectLastInSeq(path, LAMBDA i : Kind(i) = "finished") =
          LastAt(path, OfKind({"finished"}))
    BY <1>3 DEF SelectLastInSeq, LastAt
  <1>8. SelectLastInSeq(path, LAMBDA i : Kind(i) \in {"user", "finished"}) =
          LastAt(path, OfKind({"user", "finished"}))
    BY <1>4 DEF SelectLastInSeq, LastAt
  <1>9. \A kept : SelectInSeq(path, LAMBDA i : i = kept) = FirstAt(path, {kept})
    BY <1>5 DEF SelectInSeq, FirstAt
  <1> QED BY <1>6, <1>7, <1>8, <1>9

(* A path is interrupted if a user message comes after its last end.       *)
Interrupted(path) ==
    \E k \in DOMAIN path :
        /\ Kind(path[k]) = "user"
        /\ \A j \in DOMAIN path : j > k => Kind(path[j]) \notin {"user", "finished"}

LEMMA UnclosedMeans ==
    \A path \in Seq(Ids) : Unclosed(path) <=> Interrupted(path)
  <1> SUFFICES ASSUME NEW path \in Seq(Ids)
               PROVE  Unclosed(path) <=> Interrupted(path)
    OBVIOUS
  <1> DEFINE T == OfKind({"user", "finished"})
             at == LastAt(path, T)
  <1>1. Unclosed(path) <=> at # 0 /\ Kind(path[at]) = "user"
    BY Selections DEF Unclosed
  <1>2. /\ DOMAIN path = 1..Len(path) /\ Len(path) \in Nat
        /\ \A k \in DOMAIN path : path[k] \in T <=> Kind(path[k]) \in {"user", "finished"}
    BY DEF OfKind
  <1>3. \/ at = 0 /\ \A k \in DOMAIN path : path[k] \notin T
        \/ /\ at \in DOMAIN path /\ path[at] \in T
           /\ \A k \in DOMAIN path : k > at => path[k] \notin T
    BY SelectedPlaces
  <1> HIDE DEF at, T
  <1>4. ASSUME NEW k \in DOMAIN path, Kind(path[k]) = "user",
               \A j \in DOMAIN path : j > k => Kind(path[j]) \notin {"user", "finished"}
        PROVE  at = k
    <2>1. at \in DOMAIN path
      BY <1>2, <1>3, <1>4
    <2>2. ~(at > k) /\ ~(k > at)
      BY <1>2, <1>3, <1>4, <2>1
    <2> QED BY <1>2, <1>4, <2>1, <2>2
  <1> QED BY <1>1, <1>2, <1>3, <1>4 DEF Interrupted

LEMMA UnclosedNext ==
    (\A path \in Seq(Ids) : Unclosed(path) <=> Interrupted(path))'
  BY UnclosedMeans, PTL

-----------------------------------------------------------------------------
(* Paths. *)

(* Lines that can be followed from any leaf: each names an entry, made     *)
(* after its parent and after the entries of the lines before it.          *)
Proper(lines) ==
    \A k \in DOMAIN lines :
        /\ lines[k].id \in Ids /\ lines[k].to = 0
        /\ lines[k].parent < lines[k].id
        /\ \A j \in DOMAIN lines : j < k => lines[j].id < lines[k].id

LEMMA IdsPositive == Ids \subseteq Nat /\ 0 \notin Ids /\ Ids \cup {0} = 0..MaxEntries
  BY BoundsAssumption DEF Ids

LEMMA ParentOf ==
    ASSUME NEW lines \in Seq(Lines), Proper(lines),
           NEW k \in DOMAIN lines
    PROVE  Has(lines, lines[k].id) /\ Parent(lines, lines[k].id) = lines[k].parent
  <1> DEFINE j == CHOOSE j \in DOMAIN lines : lines[j].id = lines[k].id
  <1>1. j \in DOMAIN lines /\ lines[j].id = lines[k].id
    OBVIOUS
  <1>2. j \in Nat /\ k \in Nat
    BY <1>1
  <1>3. lines[j] \in Lines /\ lines[k] \in Lines
    BY <1>1
  <1>4. j = k
    BY <1>1, <1>2, <1>3 DEF Proper, Lines, Ids
  <1> QED BY <1>4 DEF Has, Parent

LEMMA ParentBefore ==
    ASSUME NEW lines \in Seq(Lines), Proper(lines), NEW i, Has(lines, i)
    PROVE  Parent(lines, i) \in Ids \cup {0} /\ i \in Ids /\ Parent(lines, i) < i
  <1>1. PICK k \in DOMAIN lines : lines[k].id = i
    BY DEF Has
  <1>2. Parent(lines, i) = lines[k].parent /\ lines[k] \in Lines
    BY <1>1, ParentOf
  <1> QED BY <1>1, <1>2 DEF Proper, Lines

(* A path goes one entry up and on.                                        *)
LEMMA PathFacts ==
    ASSUME NEW lines \in Seq(Lines), Proper(lines)
    PROVE  \A leaf \in Ids \cup {0} :
              /\ Path(lines, leaf) = IF Has(lines, leaf) /\ leaf # 0
                                     THEN Append(Path(lines, Parent(lines, leaf)), leaf)
                                     ELSE <<>>
              /\ Path(lines, leaf) \in Seq(Ids)
  <1> DEFINE D == Ids \cup {0}
             Step(g, i) == IF Has(lines, i) /\ i # 0
                           THEN Append(g[Parent(lines, i)], i) ELSE <<>>
             path == CHOOSE g : g = [i \in D |-> Step(g, i)]
             Good(n) == \E g \in [0..n -> Seq(Ids)] : \A i \in 0..n : g[i] = Step(g, i)
  <1>1. D = 0..MaxEntries /\ MaxEntries \in Nat
    BY BoundsAssumption DEF Ids
  <1>2. ASSUME NEW i \in 0..MaxEntries, Has(lines, i)
        PROVE  Parent(lines, i) \in 0..(i - 1) /\ i \in Ids
    BY <1>1, <1>2, ParentBefore
  <1>3. ASSUME NEW n \in 0..MaxEntries, \A k \in 0..MaxEntries : k < n => Good(k)
        PROVE  Good(n)
    <2>1. CASE n = 0
      <3> DEFINE h == [i \in 0..0 |-> <<>>]
      <3>1. h \in [0..0 -> Seq(Ids)] /\ \A i \in 0..0 : h[i] = Step(h, i)
        BY EmptySeq
      <3> QED BY <2>1, <3>1
    <2>2. CASE n # 0
      <3>1. n - 1 \in 0..MaxEntries /\ n - 1 < n
        BY <1>1, <2>2
      <3>2. PICK g \in [0..(n - 1) -> Seq(Ids)] : \A i \in 0..(n - 1) : g[i] = Step(g, i)
        BY <1>3, <3>1
      <3> DEFINE h == [i \in 0..n |-> IF i < n THEN g[i] ELSE Step(g, n)]
      <3>3. Step(g, n) \in Seq(Ids)
        BY <1>2, <3>2, EmptySeq, AppendProperties
      <3>4. h \in [0..n -> Seq(Ids)]
        BY <3>3
      <3>5. ASSUME NEW i \in 0..n
            PROVE  h[i] = Step(h, i)
        <4>1. Step(h, i) = Step(g, i)
          <5>1. ASSUME Has(lines, i)
                PROVE  h[Parent(lines, i)] = g[Parent(lines, i)]
            <6>1. i \in 0..MaxEntries
              BY <1>1
            <6>2. Parent(lines, i) \in 0..n /\ Parent(lines, i) < n
              BY <1>1, <1>2, <5>1, <6>1
            <6> QED BY <6>2
          <5> HIDE DEF h
          <5> QED BY <5>1
        <4>2. CASE i = n
          BY <4>1, <4>2
        <4>3. CASE i # n
          <5>1. i \in 0..(n - 1) /\ h[i] = g[i]
            BY <4>3
          <5> QED BY <3>2, <4>1, <5>1
        <4> QED BY <4>2, <4>3
      <3> QED BY <3>4, <3>5
    <2> QED BY <2>1, <2>2
  <1>4. Good(MaxEntries)
    <2> HIDE DEF Good
    <2> DEFINE S == {n \in 0..MaxEntries : Good(n)}
    <2>1. \A n \in 0..MaxEntries : (\A k \in 0..MaxEntries : k < n => k \in S) => n \in S
      BY <1>3
    <2>2. \A n \in 0..MaxEntries : n \in S
      <3> HIDE DEF S
      <3> QED BY <1>1, <2>1, UpTo
    <2> QED BY <1>1, <2>2
  <1>5. PICK g \in [0..MaxEntries -> Seq(Ids)] :
              \A i \in 0..MaxEntries : g[i] = Step(g, i)
    BY <1>4
  <1>6. g = [i \in D |-> Step(g, i)]
    BY <1>1, <1>5
  <1>7. path = [i \in D |-> Step(path, i)]
    BY <1>6
  <1> HIDE DEF path
  <1>8. \A leaf \in D : path[leaf] = Step(path, leaf)
    BY <1>7
  <1>9. \A leaf : Path(lines, leaf) = path[leaf]
    BY DEF Path, path
  <1>10. \A leaf \in D : path[leaf] \in Seq(Ids)
    <2> DEFINE S == {i \in D : path[i] \in Seq(Ids)}
    <2>1. ASSUME NEW n \in 0..MaxEntries, \A k \in 0..MaxEntries : k < n => k \in S
          PROVE  n \in S
      <3>1. CASE Has(lines, n) /\ n # 0
        <4>1. Parent(lines, n) \in 0..MaxEntries /\ Parent(lines, n) < n /\ n \in Ids
          BY <1>1, <1>2, <3>1
        <4>2. path[Parent(lines, n)] \in Seq(Ids)
          BY <2>1, <4>1
        <4>3. path[n] = Append(path[Parent(lines, n)], n)
          BY <1>1, <1>8, <3>1
        <4>4. path[n] \in Seq(Ids)
          BY <4>1, <4>2, <4>3, AppendProperties
        <4> QED BY <1>1, <4>4
      <3>2. CASE ~(Has(lines, n) /\ n # 0)
        BY <1>1, <1>8, <3>2, EmptySeq
      <3> QED BY <3>1, <3>2
    <2>2. \A n \in 0..MaxEntries : n \in S
      <3> HIDE DEF S
      <3> QED BY <1>1, <2>1, UpTo
    <2> QED BY <1>1, <2>2
  <1> QED BY <1>8, <1>9, <1>10

(* A path visits entries in their order, up to its leaf.                   *)
LEMMA PathRises ==
    ASSUME NEW lines \in Seq(Lines), Proper(lines)
    PROVE  \A leaf \in Ids \cup {0} :
              LET path == Path(lines, leaf) IN
              /\ \A k \in DOMAIN path : path[k] <= leaf /\ Has(lines, path[k])
              /\ \A j, k \in DOMAIN path : j < k => path[j] < path[k]
  <1> DEFINE Rises(leaf) ==
        /\ \A k \in DOMAIN Path(lines, leaf) :
              Path(lines, leaf)[k] <= leaf /\ Has(lines, Path(lines, leaf)[k])
        /\ \A j, k \in DOMAIN Path(lines, leaf) :
              j < k => Path(lines, leaf)[j] < Path(lines, leaf)[k]
      S == {i \in Ids \cup {0} : Rises(i)}
  <1>1. Ids \cup {0} = 0..MaxEntries /\ MaxEntries \in Nat
    BY BoundsAssumption DEF Ids
  <1>2. ASSUME NEW n \in 0..MaxEntries, \A k \in 0..MaxEntries : k < n => k \in S
        PROVE  n \in S
    <2>1. CASE Has(lines, n) /\ n # 0
      <3> DEFINE up == Path(lines, Parent(lines, n))
      <3>1. Parent(lines, n) \in 0..MaxEntries /\ Parent(lines, n) < n /\ n \in Ids
        BY <1>1, <2>1, ParentBefore
      <3>2. Path(lines, n) = Append(up, n) /\ up \in Seq(Ids)
        BY <1>1, <2>1, <3>1, PathFacts
      <3>3. Rises(Parent(lines, n))
        BY <1>2, <3>1
      <3> HIDE DEF up
      <3>4. /\ \A k \in DOMAIN up : up[k] < n /\ Has(lines, up[k]) /\ up[k] \in Ids
            /\ \A j, k \in DOMAIN up : j < k => up[j] < up[k]
        BY <1>1, <3>1, <3>2, <3>3 DEF up
      <3>5. Rises(n)
        <4> DEFINE path == Append(up, n)
        <4>1. Len(up) \in Nat /\ DOMAIN up = 1..Len(up) /\ DOMAIN path = 1..(Len(up) + 1)
          BY <3>2
        <4>2. \A k \in DOMAIN path :
                 \/ k \in DOMAIN up /\ path[k] = up[k]
                 \/ k = Len(up) + 1 /\ path[k] = n
          BY <3>1, <3>2, <4>1, AppendProperties
        <4> HIDE DEF path
        <4>3. \A k \in DOMAIN path : path[k] <= n /\ Has(lines, path[k])
          BY <1>1, <2>1, <3>1, <3>4, <4>2
        <4>4. ASSUME NEW j \in DOMAIN path, NEW k \in DOMAIN path, j < k
              PROVE  path[j] < path[k]
          <5>1. j \in DOMAIN up /\ path[j] = up[j]
            BY <4>1, <4>2, <4>4
          <5> QED BY <3>4, <4>2, <4>4, <5>1
        <4>5. path = Path(lines, n)
          BY <3>2 DEF path
        <4> QED BY <4>3, <4>4, <4>5
      <3> QED BY <1>1, <3>5
    <2>2. CASE ~(Has(lines, n) /\ n # 0)
      <3>1. Path(lines, n) = <<>>
        BY <1>1, <2>2, PathFacts
      <3> QED BY <1>1, <3>1
    <2> QED BY <2>1, <2>2
  <1>3. \A n \in 0..MaxEntries : n \in S
    <2> HIDE DEF S
    <2> QED BY <1>1, <1>2, UpTo
  <1> QED BY <1>1, <1>3

(* Lines that are the same for every entry up to a leaf give it one path.  *)
LEMMA PathSame ==
    ASSUME NEW lines \in Seq(Lines), Proper(lines),
           NEW more \in Seq(Lines), Proper(more), NEW b \in Ids \cup {0},
           \A i \in 1..b : /\ Has(more, i) <=> Has(lines, i)
                           /\ Has(lines, i) => Parent(more, i) = Parent(lines, i)
    PROVE  \A leaf \in 0..b : Path(more, leaf) = Path(lines, leaf)
  <1> DEFINE S == {i \in 0..b : Path(more, i) = Path(lines, i)}
  <1>1. b \in 0..MaxEntries /\ MaxEntries \in Nat /\ Ids \cup {0} = 0..MaxEntries
    BY BoundsAssumption DEF Ids
  <1>2. ASSUME NEW n \in 0..b, \A k \in 0..b : k < n => k \in S
        PROVE  n \in S
    <2>1. n \in Ids \cup {0} /\ (n # 0 => n \in 1..b)
      BY <1>1
    <2>2. CASE Has(lines, n) /\ n # 0
      <3>1. Parent(lines, n) \in 0..b /\ Parent(lines, n) < n
        BY <1>1, <2>2, ParentBefore
      <3>2. Path(more, Parent(lines, n)) = Path(lines, Parent(lines, n))
        BY <1>2, <3>1
      <3>3. Path(lines, n) = Append(Path(lines, Parent(lines, n)), n)
        BY <2>1, <2>2, PathFacts
      <3>4. Path(more, n) = Append(Path(more, Parent(more, n)), n)
        BY <2>1, <2>2, PathFacts
      <3> QED BY <2>1, <2>2, <3>2, <3>3, <3>4
    <2>3. CASE ~(Has(lines, n) /\ n # 0)
      <3>1. Path(lines, n) = <<>>
        BY <2>1, <2>3, PathFacts
      <3>2. Path(more, n) = <<>>
        BY <2>1, <2>3, PathFacts
      <3> QED BY <3>1, <3>2
    <2> QED BY <2>2, <2>3
  <1>3. \A n \in 0..b : n \in S
    <2>1. b \in Nat
      BY <1>1
    <2> HIDE DEF S
    <2> QED BY <1>2, <2>1, UpTo
  <1> QED BY <1>3

(* One more line: the paths to the earlier entries stay, and the new entry *)
(* comes at the end of its parent's.                                       *)
LEMMA PathAppend ==
    ASSUME NEW lines \in Seq(Lines), Proper(lines),
           NEW i \in Ids, NEW p \in Ids \cup {0}, p < i,
           \A k \in DOMAIN lines : lines[k].id < i
    PROVE  LET more == Append(lines, Line(i, p)) IN
           /\ more \in Seq(Lines) /\ Proper(more)
           /\ \A leaf \in 0..(i - 1) : Path(more, leaf) = Path(lines, leaf)
           /\ Path(more, i) = Append(Path(lines, p), i)
  <1> DEFINE more == Append(lines, Line(i, p))
  <1>1. Line(i, p) \in Lines /\ Line(i, p).id = i /\ Line(i, p).parent = p /\ Line(i, p).to = 0
    BY DEF Line, Lines
  <1>2. more \in Seq(Lines) /\ Len(lines) \in Nat
    BY <1>1, AppendProperties
  <1>3. /\ DOMAIN lines = 1..Len(lines) /\ DOMAIN more = 1..(Len(lines) + 1)
        /\ \A k \in DOMAIN lines : k \in DOMAIN more /\ more[k] = lines[k]
        /\ more[Len(lines) + 1] = Line(i, p)
    BY <1>1, <1>2, AppendProperties
  <1>4. \A k \in DOMAIN more :
           (k \in DOMAIN lines /\ more[k] = lines[k]) \/ k = Len(lines) + 1
    BY <1>2, <1>3
  <1> HIDE DEF more
  <1>5. Proper(more)
    <2>1. ASSUME NEW k \in DOMAIN more, NEW j \in DOMAIN more, j < k
          PROVE  more[j].id < more[k].id
      <3>1. j \in DOMAIN lines /\ more[j] = lines[j]
        BY <1>2, <1>3, <1>4, <2>1
      <3>2. CASE k \in DOMAIN lines /\ more[k] = lines[k]
        BY <2>1, <3>1, <3>2 DEF Proper
      <3>3. CASE k = Len(lines) + 1
        BY <1>1, <1>3, <3>1, <3>3
      <3> QED BY <1>4, <3>2, <3>3
    <2>2. \A k \in DOMAIN more : /\ more[k].id \in Ids /\ more[k].to = 0
                                 /\ more[k].parent < more[k].id
      BY <1>1, <1>3, <1>4 DEF Proper
    <2> QED BY <2>1, <2>2 DEF Proper
  <1>6. i - 1 \in Ids \cup {0} /\ i \in Nat
    BY BoundsAssumption DEF Ids
  <1>7. ASSUME NEW j \in 1..(i - 1)
        PROVE  /\ Has(more, j) <=> Has(lines, j)
               /\ Has(lines, j) => Parent(more, j) = Parent(lines, j)
    <2>1. Has(lines, j) => Has(more, j)
      BY <1>3 DEF Has
    <2>2. Has(more, j) => Has(lines, j)
      BY <1>1, <1>3, <1>4, <1>6 DEF Has
    <2>3. ASSUME Has(lines, j)
          PROVE  Parent(more, j) = Parent(lines, j)
      <3>1. PICK k \in DOMAIN lines : lines[k].id = j
        BY <2>3 DEF Has
      <3>2. Parent(lines, j) = lines[k].parent
        BY <3>1, ParentOf
      <3>3. k \in DOMAIN more /\ more[k] = lines[k]
        BY <1>3
      <3>4. Parent(more, j) = more[k].parent
        BY <1>2, <1>5, <3>1, <3>3, ParentOf
      <3> QED BY <3>2, <3>3, <3>4
    <2> QED BY <2>1, <2>2, <2>3
  <1>8. \A leaf \in 0..(i - 1) : Path(more, leaf) = Path(lines, leaf)
    BY <1>2, <1>5, <1>6, <1>7, PathSame
  <1>9. Path(more, i) = Append(Path(lines, p), i)
    <2>1. Len(lines) + 1 \in DOMAIN more /\ more[Len(lines) + 1].id = i
      BY <1>1, <1>2, <1>3
    <2>2. Has(more, i) /\ Parent(more, i) = p
      BY <1>1, <1>2, <1>3, <1>5, <2>1, ParentOf
    <2>3. Path(more, i) = Append(Path(more, p), i)
      <3>1. i \in Ids \cup {0} /\ i # 0
        BY DEF Ids
      <3> QED BY <1>2, <1>5, <2>2, <3>1, PathFacts
    <2>4. p \in 0..(i - 1)
      BY <1>6 DEF Ids
    <2> QED BY <1>8, <2>3, <2>4
  <1> QED BY <1>2, <1>5, <1>8, <1>9 DEF more

-----------------------------------------------------------------------------
(* Parsed lines. *)

(* Parsed goes line by line.                                               *)
LEMMA ParsedSteps ==
    ASSUME NEW log, log.lines \in Seq(Lines)
    PROVE  \E upTo \in [0..Len(log.lines) -> Seq(Lines)] :
              /\ Parsed(log) = upTo[Len(log.lines)]
              /\ upTo[0] = <<>>
              /\ \A k \in 1..Len(log.lines) :
                    upTo[k] = IF log.lines[k].id = 0 THEN upTo[k - 1]
                              ELSE Append(upTo[k - 1], log.lines[k])
  <1> DEFINE lines == log.lines
             D == 0..Len(lines)
             Step(g, k) == IF k = 0 THEN <<>>
                           ELSE IF lines[k].id = 0 THEN g[k - 1]
                           ELSE Append(g[k - 1], lines[k])
             upTo == CHOOSE g : g = [k \in D |-> Step(g, k)]
             Good(n) == \E g \in [0..n -> Seq(Lines)] : \A i \in 0..n : g[i] = Step(g, i)
  <1>1. Len(lines) \in Nat /\ \A k \in 1..Len(lines) : lines[k] \in Lines
    OBVIOUS
  <1>2. ASSUME NEW n \in D, \A k \in D : k < n => Good(k)
        PROVE  Good(n)
    <2>1. CASE n = 0
      <3> DEFINE h == [i \in 0..0 |-> <<>>]
      <3>1. h \in [0..0 -> Seq(Lines)] /\ \A i \in 0..0 : h[i] = Step(h, i)
        BY EmptySeq
      <3> QED BY <2>1, <3>1
    <2>2. CASE n # 0
      <3>1. n - 1 \in D /\ n - 1 < n /\ n \in 1..Len(lines)
        BY <1>1, <2>2
      <3>2. PICK g \in [0..(n - 1) -> Seq(Lines)] : \A i \in 0..(n - 1) : g[i] = Step(g, i)
        BY <1>2, <3>1
      <3> DEFINE h == [i \in 0..n |-> IF i < n THEN g[i] ELSE Step(g, n)]
      <3>3. Step(g, n) \in Seq(Lines)
        <4>1. g[n - 1] \in Seq(Lines) /\ lines[n] \in Lines
          BY <1>1, <3>1, <3>2
        <4> QED BY <2>2, <4>1, AppendProperties
      <3>4. h \in [0..n -> Seq(Lines)]
        BY <3>3
      <3>5. ASSUME NEW i \in 0..n
            PROVE  h[i] = Step(h, i)
        <4>1. Step(h, i) = Step(g, i)
          <5>1. ASSUME i # 0
                PROVE  h[i - 1] = g[i - 1]
            <6>1. i - 1 \in 0..n /\ i - 1 < n
              BY <5>1
            <6> QED BY <6>1
          <5> HIDE DEF h
          <5> QED BY <5>1
        <4>2. CASE i = n
          BY <4>1, <4>2
        <4>3. CASE i # n
          <5>1. i \in 0..(n - 1) /\ h[i] = g[i]
            BY <4>3
          <5> QED BY <3>2, <4>1, <5>1
        <4> QED BY <4>2, <4>3
      <3> QED BY <3>4, <3>5
    <2> QED BY <2>1, <2>2
  <1>3. Good(Len(lines))
    <2> HIDE DEF Good
    <2> DEFINE S == {n \in D : Good(n)}
    <2>1. \A n \in D : (\A k \in D : k < n => k \in S) => n \in S
      BY <1>2
    <2>2. \A n \in D : n \in S
      <3> HIDE DEF S
      <3> QED BY <1>1, <2>1, UpTo
    <2> QED BY <1>1, <2>2
  <1>4. PICK g \in [D -> Seq(Lines)] : \A i \in D : g[i] = Step(g, i)
    BY <1>3
  <1>5. g = [k \in D |-> Step(g, k)]
    BY <1>4
  <1>6. upTo = [k \in D |-> Step(upTo, k)]
    BY <1>5
  <1> HIDE DEF upTo
  <1>7. \A k \in D : upTo[k] = Step(upTo, k)
    BY <1>6
  <1>8. Parsed(log) = upTo[Len(lines)]
    BY DEF Parsed, upTo
  <1>9. \A n \in D : upTo[n] \in Seq(Lines)
    <2> DEFINE S == {n \in D : upTo[n] \in Seq(Lines)}
    <2>1. ASSUME NEW n \in D, \A k \in D : k < n => k \in S
          PROVE  n \in S
      <3>1. CASE n = 0
        BY <1>7, <3>1, EmptySeq
      <3>2. CASE n # 0
        <4>1. n - 1 \in D /\ n - 1 < n /\ n \in 1..Len(lines)
          BY <1>1, <3>2
        <4>2. upTo[n - 1] \in Seq(Lines) /\ lines[n] \in Lines
          BY <1>1, <2>1, <4>1
        <4>3. upTo[n] = IF lines[n].id = 0 THEN upTo[n - 1] ELSE Append(upTo[n - 1], lines[n])
          BY <1>7, <3>2
        <4>4. upTo[n] \in Seq(Lines)
          BY <4>2, <4>3, AppendProperties
        <4> QED BY <4>4
      <3> QED BY <3>1, <3>2
    <2>2. \A n \in D : n \in S
      <3> HIDE DEF S
      <3> QED BY <1>1, <2>1, UpTo
    <2> QED BY <2>2
  <1>10. upTo \in [D -> Seq(Lines)]
    BY <1>6, <1>9
  <1>11. upTo[0] = <<>> /\ \A k \in 1..Len(lines) :
            upTo[k] = IF lines[k].id = 0 THEN upTo[k - 1] ELSE Append(upTo[k - 1], lines[k])
    BY <1>1, <1>7
  <1> QED BY <1>8, <1>10, <1>11

(* One more line is parsed after the others, or skipped.                   *)
LEMMA ParsedAppend ==
    ASSUME NEW log, log.lines \in Seq(Lines), NEW l \in Lines,
           NEW more, more.lines = Append(log.lines, l)
    PROVE  Parsed(more) = IF l.id = 0 THEN Parsed(log) ELSE Append(Parsed(log), l)
  <1> DEFINE n == Len(log.lines)
  <1>1. /\ n \in Nat /\ more.lines \in Seq(Lines) /\ Len(more.lines) = n + 1
        /\ more.lines[n + 1] = l
        /\ \A k \in 1..n : more.lines[k] = log.lines[k]
    BY AppendProperties
  <1>2. PICK u \in [0..n -> Seq(Lines)] :
              /\ Parsed(log) = u[n] /\ u[0] = <<>>
              /\ \A k \in 1..n : u[k] = IF log.lines[k].id = 0 THEN u[k - 1]
                                        ELSE Append(u[k - 1], log.lines[k])
    BY ParsedSteps
  <1>3. PICK v \in [0..(n + 1) -> Seq(Lines)] :
              /\ Parsed(more) = v[n + 1] /\ v[0] = <<>>
              /\ \A k \in 1..(n + 1) : v[k] = IF more.lines[k].id = 0 THEN v[k - 1]
                                              ELSE Append(v[k - 1], more.lines[k])
    <2>1. \E v \in [0..Len(more.lines) -> Seq(Lines)] :
              /\ Parsed(more) = v[Len(more.lines)] /\ v[0] = <<>>
              /\ \A k \in 1..Len(more.lines) :
                    v[k] = IF more.lines[k].id = 0 THEN v[k - 1]
                           ELSE Append(v[k - 1], more.lines[k])
      BY <1>1, ParsedSteps
    <2> QED BY <1>1, <2>1
  <1>4. \A k \in 0..n : v[k] = u[k]
    <2> DEFINE S == {k \in 0..n : v[k] = u[k]}
    <2>1. ASSUME NEW k \in 0..n, \A j \in 0..n : j < k => j \in S
          PROVE  k \in S
      <3>1. CASE k = 0
        BY <1>2, <1>3, <3>1
      <3>2. CASE k # 0
        <4>1. k \in 1..n /\ k \in 1..(n + 1) /\ k - 1 \in 0..n /\ k - 1 < k
          BY <1>1, <3>2
        <4>2. v[k - 1] = u[k - 1] /\ more.lines[k] = log.lines[k]
          BY <1>1, <2>1, <4>1
        <4>3. v[k] = u[k]
          BY <1>2, <1>3, <4>1, <4>2
        <4> QED BY <4>3
      <3> QED BY <3>1, <3>2
    <2>2. \A k \in 0..n : k \in S
      <3> HIDE DEF S
      <3> QED BY <1>1, <2>1, UpTo
    <2> QED BY <2>2
  <1>5. n + 1 \in 1..(n + 1) /\ (n + 1) - 1 = n /\ n \in 0..n
    BY <1>1
  <1>6. v[n + 1] = IF l.id = 0 THEN v[n] ELSE Append(v[n], l)
    BY <1>1, <1>3, <1>5
  <1> QED BY <1>2, <1>3, <1>4, <1>5, <1>6

(* Of lines that all parse, all are kept.                                  *)
LEMMA ParsedWhole ==
    ASSUME NEW log, log.lines \in Seq(Lines),
           \A k \in DOMAIN log.lines : log.lines[k].id # 0
    PROVE  Parsed(log) = log.lines
  <1> DEFINE n == Len(log.lines)
  <1>1. n \in Nat /\ DOMAIN log.lines = 1..n
    OBVIOUS
  <1>2. PICK u \in [0..n -> Seq(Lines)] :
              /\ Parsed(log) = u[n] /\ u[0] = <<>>
              /\ \A k \in 1..n : u[k] = IF log.lines[k].id = 0 THEN u[k - 1]
                                        ELSE Append(u[k - 1], log.lines[k])
    BY ParsedSteps
  <1> DEFINE Same(k) == Len(u[k]) = k /\ \A j \in 1..k : u[k][j] = log.lines[j]
             S == {k \in 0..n : Same(k)}
  <1>3. ASSUME NEW k \in 0..n, \A j \in 0..n : j < k => j \in S
        PROVE  k \in S
    <2>1. CASE k = 0
      BY <1>2, <2>1, EmptySeq
    <2>2. CASE k # 0
      <3>1. k \in 1..n /\ k - 1 \in 0..n /\ k - 1 < k
        BY <1>1, <2>2
      <3>2. Same(k - 1) /\ u[k] = Append(u[k - 1], log.lines[k]) /\ log.lines[k] \in Lines
        <4>1. Same(k - 1)
          BY <1>3, <3>1
        <4>2. log.lines[k].id # 0 /\ log.lines[k] \in Lines
          BY <1>1, <3>1
        <4> QED BY <1>2, <3>1, <4>1, <4>2
      <3>3. u[k - 1] \in Seq(Lines) /\ Len(u[k - 1]) = k - 1
        BY <3>1, <3>2
      <3>4. Len(u[k]) = k /\ u[k][k] = log.lines[k]
        BY <3>1, <3>2, <3>3, AppendProperties
      <3>5. ASSUME NEW j \in 1..(k - 1)
            PROVE  u[k][j] = log.lines[j]
        BY <3>2, <3>3, AppendProperties
      <3>6. Same(k)
        BY <3>1, <3>4, <3>5
      <3> QED BY <3>6
    <2> QED BY <2>1, <2>2
  <1>4. \A k \in 0..n : k \in S
    <2> HIDE DEF S
    <2> QED BY <1>1, <1>3, UpTo
  <1>5. Same(n) /\ u[n] \in Seq(Lines)
    BY <1>1, <1>4
  <1> QED BY <1>1, <1>2, <1>5, SeqEqual

(* What follows of a log's lines: those that parse come in the order of    *)
(* their entries, none made after the first b entries.                     *)
Readable(log, b) ==
    \A k \in DOMAIN log.lines :
        log.lines[k].id # 0 =>
            /\ log.lines[k].to = 0 /\ log.lines[k].id <= b
            /\ log.lines[k].parent < log.lines[k].id
            /\ \A j \in DOMAIN log.lines : j < k => log.lines[j].id < log.lines[k].id

LEMMA ParsedReadable ==
    ASSUME NEW log, log.lines \in Seq(Lines), NEW b, Readable(log, b)
    PROVE  /\ Parsed(log) \in Seq(Lines) /\ Proper(Parsed(log))
           /\ \A k \in DOMAIN Parsed(log) : Parsed(log)[k].id <= b
  <1> DEFINE n == Len(log.lines)
             lines == log.lines
  <1>1. n \in Nat /\ DOMAIN lines = 1..n /\ \A k \in 1..n : lines[k] \in Lines
    OBVIOUS
  <1>2. PICK u \in [0..n -> Seq(Lines)] :
              /\ Parsed(log) = u[n] /\ u[0] = <<>>
              /\ \A k \in 1..n : u[k] = IF lines[k].id = 0 THEN u[k - 1]
                                        ELSE Append(u[k - 1], lines[k])
    BY ParsedSteps
  <1> DEFINE From(k) == \A j \in DOMAIN u[k] :
                          \E i \in 1..k : u[k][j] = lines[i] /\ lines[i].id # 0
             S == {k \in 0..n : Proper(u[k]) /\ From(k)}
  <1>3. ASSUME NEW k \in 0..n, \A j \in 0..n : j < k => j \in S
        PROVE  k \in S
    <2>1. CASE k = 0
      BY <1>2, <2>1 DEF Proper
    <2>2. CASE k # 0
      <3>1. k \in 1..n /\ k - 1 \in 0..n /\ k - 1 < k
        BY <1>1, <2>2
      <3>2. Proper(u[k - 1]) /\ From(k - 1) /\ u[k - 1] \in Seq(Lines) /\ lines[k] \in Lines
        BY <1>1, <1>2, <1>3, <3>1
      <3>3. CASE lines[k].id = 0
        <4>1. u[k] = u[k - 1]
          BY <1>2, <3>1, <3>3
        <4>2. \A i \in 1..(k - 1) : i \in 1..k
          BY <3>1
        <4>3. From(k)
          BY <3>2, <4>1, <4>2
        <4> QED BY <3>2, <4>1, <4>3
      <3>4. CASE lines[k].id # 0
        <4> DEFINE old == u[k - 1]
                   new == Append(old, lines[k])
        <4>1. u[k] = new
          BY <1>2, <3>1, <3>4
        <4>2. /\ lines[k].to = 0 /\ lines[k].id \in Ids
              /\ lines[k].parent < lines[k].id
              /\ \A j \in 1..(k - 1) : lines[j].id < lines[k].id
          <5>1. k \in DOMAIN log.lines /\ \A j \in 1..(k - 1) : j \in DOMAIN log.lines /\ j < k
            BY <1>1, <3>1
          <5>2. lines[k].id \in Ids
            BY <3>2, <3>4 DEF Lines
          <5> QED BY <3>4, <5>1, <5>2 DEF Readable
        <4>3. /\ Len(old) \in Nat /\ DOMAIN old = 1..Len(old)
              /\ DOMAIN new = 1..(Len(old) + 1)
              /\ \A j \in DOMAIN old : new[j] = old[j]
              /\ new[Len(old) + 1] = lines[k]
          BY <3>2, AppendProperties
        <4>4. \A j \in DOMAIN old : \E i \in 1..(k - 1) : old[j] = lines[i] /\ lines[i].id # 0
          BY <3>2
        <4>5. Proper(old)
          BY <3>2
        <4> HIDE DEF old, new
        <4>6. \A j \in DOMAIN new :
                 (j \in DOMAIN old /\ new[j] = old[j]) \/ j = Len(old) + 1
          BY <4>3
        <4>7. From(k)
          <5>1. ASSUME NEW j \in DOMAIN new
                PROVE  \E i \in 1..k : new[j] = lines[i] /\ lines[i].id # 0
            <6>1. CASE j \in DOMAIN old /\ new[j] = old[j]
              <7>1. PICK i \in 1..(k - 1) : old[j] = lines[i] /\ lines[i].id # 0
                BY <4>4, <6>1
              <7> QED BY <3>1, <6>1, <7>1
            <6>2. CASE j = Len(old) + 1
              BY <3>1, <3>4, <4>3, <6>2
            <6> QED BY <4>6, <6>1, <6>2
          <5> QED BY <4>1, <5>1
        <4>8. Proper(new)
          <5>1. ASSUME NEW j \in DOMAIN new, NEW l \in DOMAIN new, j < l
                PROVE  new[j].id < new[l].id
            <6>1. j \in DOMAIN old /\ new[j] = old[j]
              BY <4>3, <4>6, <5>1
            <6>2. CASE l \in DOMAIN old /\ new[l] = old[l]
              BY <4>5, <5>1, <6>1, <6>2 DEF Proper
            <6>3. CASE l = Len(old) + 1
              BY <4>2, <4>3, <4>4, <6>1, <6>3
            <6> QED BY <4>6, <6>2, <6>3
          <5>2. \A j \in DOMAIN new : /\ new[j].id \in Ids /\ new[j].to = 0
                                      /\ new[j].parent < new[j].id
            BY <4>2, <4>3, <4>5, <4>6 DEF Proper
          <5> QED BY <5>1, <5>2 DEF Proper
        <4> QED BY <4>1, <4>7, <4>8
      <3> QED BY <3>3, <3>4
    <2> QED BY <2>1, <2>2
  <1>4. \A k \in 0..n : k \in S
    <2> HIDE DEF S
    <2> QED BY <1>1, <1>3, UpTo
  <1>5. n \in 0..n /\ Proper(u[n]) /\ From(n) /\ u[n] \in Seq(Lines)
    <2>1. n \in 0..n
      BY <1>1
    <2>2. n \in S
      BY <1>4, <2>1
    <2> QED BY <2>1, <2>2
  <1>6. \A i \in 1..n : lines[i].id # 0 => lines[i].id <= b
    BY <1>1 DEF Readable
  <1> QED BY <1>2, <1>5, <1>6

-----------------------------------------------------------------------------
(* The type and the invariant of the lines. *)

(* A log names no other continuation than the next one, and only by its    *)
(* last line if it is closed; half a line is no marker.                    *)
LogInv(n, log, b) ==
    /\ log \in Log /\ Readable(log, b)
    /\ \A k \in DOMAIN log.lines : log.lines[k].to \in {0, n + 1}
    /\ ~log.exists => log.lines = <<>>
    /\ log.torn => log.lines # <<>> /\ Last(log.lines).to = 0

(* A manager's memory holds entries that were made.                        *)
MemoryInv(memory, b) ==
    /\ memory \in Memory
    /\ Proper(memory.lines) /\ memory.leaf <= b
    /\ \A k \in DOMAIN memory.lines : memory.lines[k].id <= b

(* What a marker names and what a manager writes on to is there.           *)
Present ==
    /\ \A n \in Logs : Closed(disk[n]) => disk[n + 1].exists
    /\ \A m \in Managers : mem[m].flushed => disk[mem[m].log].exists

LinesInv ==
    /\ \A n \in Logs : LogInv(n, disk[n], next)
    /\ \A m \in Managers : MemoryInv(mem[m], next)

TypeInv == TypeOK /\ LinesInv /\ Present

LEMMA ClosedHasNext ==
    ASSUME NEW n \in Logs, NEW log, NEW b, LogInv(n, log, b), Closed(log)
    PROVE  Last(log.lines).to = n + 1 /\ n + 1 \in Logs /\ log.exists
  <1>1. log.lines \in Seq(Lines) /\ log.lines # <<>> /\ Len(log.lines) \in Nat
    BY DEF LogInv, Log, Closed
  <1>2. Len(log.lines) \in DOMAIN log.lines
    BY <1>1, EmptySeq
  <1>3. Last(log.lines) = log.lines[Len(log.lines)] /\ log.lines[Len(log.lines)] \in Lines
    BY <1>1, <1>2 DEF Last
  <1> QED BY <1>1, <1>2, <1>3 DEF LogInv, Closed, Lines

(* Following the markers ends in a log that is open.                       *)
LEMMA ResolveFacts ==
    TypeInv => \A n \in Logs :
                 /\ Resolve(n) \in Logs /\ ~Closed(disk[Resolve(n)])
                 /\ disk[n].exists => disk[Resolve(n)].exists
                 /\ ~Closed(disk[n]) => Resolve(n) = n
                 /\ Closed(disk[n]) => n + 1 \in Logs /\ Resolve(n) = Resolve(n + 1)
  <1> SUFFICES ASSUME TypeInv
               PROVE  \A n \in Logs :
                 /\ Resolve(n) \in Logs /\ ~Closed(disk[Resolve(n)])
                 /\ disk[n].exists => disk[Resolve(n)].exists
                 /\ ~Closed(disk[n]) => Resolve(n) = n
                 /\ Closed(disk[n]) => n + 1 \in Logs /\ Resolve(n) = Resolve(n + 1)
    OBVIOUS
  <1> DEFINE Follow(g, k) == IF Closed(disk[k]) THEN g[Last(disk[k].lines).to] ELSE k
             to == CHOOSE g : g = [k \in Logs |-> Follow(g, k)]
             Open1(k) == {j \in k..MaxLogs : ~Closed(disk[j])}
             least == [k \in Logs |-> Min(Open1(k))]
  <1>1. Logs = 1..MaxLogs /\ MaxLogs \in Nat
    BY BoundsAssumption DEF Logs
  <1>2. \A k \in Logs : Closed(disk[k]) => Last(disk[k].lines).to = k + 1 /\ k + 1 \in Logs
    BY ClosedHasNext DEF TypeInv, LinesInv
  <1>3. \A k \in Logs : Open1(k) \subseteq 1..MaxLogs /\ MaxLogs \in Open1(k)
    BY <1>1, <1>2
  <1>4. \A k \in Logs : Min(Open1(k)) \in Open1(k) /\ \A j \in Open1(k) : Min(Open1(k)) <= j
    <2> TAKE k \in Logs
    <2>1. Open1(k) \subseteq 1..MaxLogs /\ Open1(k) # {}
      BY <1>3
    <2> HIDE DEF Open1
    <2> QED BY <1>1, <2>1, MaxMin
  <1>5. ASSUME NEW k \in Logs
        PROVE  least[k] = Follow(least, k)
    <2>1. CASE Closed(disk[k])
      <3>1. Open1(k) = Open1(k + 1)
        BY <1>1, <1>2, <2>1
      <3> HIDE DEF Open1
      <3> QED BY <1>2, <2>1, <3>1
    <2>2. CASE ~Closed(disk[k])
      <3>1. k \in Open1(k) /\ Min(Open1(k)) \in k..MaxLogs
        BY <1>1, <1>4, <2>2
      <3>2. Min(Open1(k)) = k
        BY <1>1, <1>4, <3>1
      <3> HIDE DEF Open1
      <3> QED BY <2>2, <3>2
    <2> QED BY <2>1, <2>2
  <1>6. least = [k \in Logs |-> Follow(least, k)]
    <2> HIDE DEF Open1
    <2> QED BY <1>5
  <1>7. to = [k \in Logs |-> Follow(to, k)]
    <2> HIDE DEF least
    <2> QED BY <1>6
  <1> HIDE DEF to
  <1>8. \A k \in Logs : to[k] = Follow(to, k)
    BY <1>7
  <1>9. \A n : Resolve(n) = to[n]
    BY DEF Resolve, to
  <1>10. \A n \in Logs : /\ to[n] \in Logs /\ ~Closed(disk[to[n]])
                         /\ disk[n].exists => disk[to[n]].exists
    <2> DEFINE Ends(n) == /\ to[n] \in Logs /\ ~Closed(disk[to[n]])
                          /\ disk[n].exists => disk[to[n]].exists
               Bad == {n \in Logs : ~Ends(n)}
    <2>1. SUFFICES ASSUME Bad # {} PROVE FALSE
      <3> HIDE DEF Ends
      <3>1. \A n \in Logs : Ends(n)
        BY <2>1
      <3> QED BY <3>1 DEF Ends
    <2>2. Bad \subseteq 1..MaxLogs
      BY <1>1
    <2>3. PICK n \in Bad : \A k \in Bad : k <= n
      <3> HIDE DEF Bad
      <3> QED BY <1>1, <2>1, <2>2, MaxMin
    <2>4. Closed(disk[n])
      BY <1>8, <2>3
    <2>5. n + 1 \in Logs /\ to[n] = to[n + 1]
      BY <1>2, <1>8, <2>3, <2>4
    <2>6. n + 1 \in Bad
      BY <2>3, <2>4, <2>5 DEF TypeInv, Present
    <2> QED BY <1>1, <2>2, <2>3, <2>6
  <1> QED BY <1>2, <1>8, <1>9, <1>10

LEMMA ResolveNext ==
    TypeInv' => \A n \in Logs :
                 /\ Resolve(n)' \in Logs /\ ~Closed(disk'[Resolve(n)'])
                 /\ disk'[n].exists => disk'[Resolve(n)'].exists
                 /\ ~Closed(disk'[n]) => Resolve(n)' = n
                 /\ Closed(disk'[n]) => n + 1 \in Logs /\ Resolve(n)' = Resolve(n + 1)'
  <1>1. (TypeInv => \A n \in Logs :
                 /\ Resolve(n) \in Logs /\ ~Closed(disk[Resolve(n)])
                 /\ disk[n].exists => disk[Resolve(n)].exists
                 /\ ~Closed(disk[n]) => Resolve(n) = n
                 /\ Closed(disk[n]) => n + 1 \in Logs /\ Resolve(n) = Resolve(n + 1))'
    BY ResolveFacts, PTL
  <1> QED BY <1>1

(* What the writes of the model make of a log.                             *)
LEMMA LogKept ==
    ASSUME NEW n, NEW log, NEW b \in Nat, LogInv(n, log, b), NEW c \in Nat, b <= c
    PROVE  LogInv(n, log, c)
  <1>1. \A k \in DOMAIN log.lines : log.lines[k].id \in Nat
    <2> TAKE k \in DOMAIN log.lines
    <2>1. log.lines \in Seq(Lines)
      BY DEF LogInv, Log
    <2>2. log.lines[k] \in Lines
      BY <2>1
    <2> QED BY <2>2, IdsPositive DEF Lines
  <1> QED BY <1>1 DEF LogInv, Readable

LEMMA LastAppended ==
    ASSUME NEW S, NEW s \in Seq(S), NEW x \in S
    PROVE  Last(Append(s, x)) = x /\ Append(s, x) # <<>>
  BY AppendProperties DEF Last

(* A line for log n that has b entries, the last that it may name being c. *)
Fresh(n, l, b, c) ==
    /\ b <= c /\ l \in Lines /\ l.to \in {0, n + 1}
    /\ l.id # 0 => l.to = 0 /\ l.parent < l.id /\ b < l.id /\ l.id <= c

LEMMA LineAdded ==
    ASSUME NEW n \in Logs, NEW log, NEW b \in Nat, LogInv(n, log, b), log.exists,
           NEW c \in Nat, NEW l, Fresh(n, l, b, c)
    PROVE  /\ LogInv(n, Glued(log, l), c) /\ Glued(log, l).exists
           /\ Glued(log, l).torn = FALSE
           /\ l.to = 0 => ~Closed(Glued(log, l))
           /\ log.torn => Glued(log, l).lines = log.lines
           /\ ~log.torn => Glued(log, l).lines = Append(log.lines, l)
  <1>1. /\ log \in Log /\ log.lines \in Seq(Lines) /\ Len(log.lines) \in Nat
        /\ DOMAIN log.lines = 1..Len(log.lines)
    BY DEF LogInv, Log
  <1>0. /\ b <= c /\ l \in Lines /\ l.to \in {0, n + 1}
        /\ l.id # 0 => l.to = 0 /\ l.parent < l.id /\ b < l.id /\ l.id <= c
    BY DEF Fresh
  <1>2. LogInv(n, log, c)
    BY <1>0, LogKept
  <1>3. CASE log.torn
    <2>1. Glued(log, l) = [log EXCEPT !.torn = FALSE]
      BY <1>3 DEF Glued
    <2>2. /\ Glued(log, l) \in Log /\ Glued(log, l).lines = log.lines
          /\ Glued(log, l).exists = log.exists /\ Glued(log, l).torn = FALSE
      BY <1>1, <2>1 DEF Log
    <2>3. LogInv(n, Glued(log, l), c)
      BY <1>2, <2>2 DEF LogInv, Readable
    <2>4. Last(log.lines).to = 0
      BY <1>3 DEF LogInv
    <2>5. ~Closed(Glued(log, l))
      BY <2>2, <2>4 DEF Closed
    <2> QED BY <1>3, <2>2, <2>3, <2>5
  <1>4. CASE ~log.torn
    <2> DEFINE new == Append(log.lines, l)
    <2>1. Glued(log, l) = [log EXCEPT !.lines = new]
      BY <1>4 DEF Glued
    <2>2. /\ new \in Seq(Lines) /\ new # <<>> /\ Last(new) = l
          /\ DOMAIN new = 1..(Len(log.lines) + 1)
          /\ \A k \in DOMAIN log.lines : new[k] = log.lines[k]
          /\ new[Len(log.lines) + 1] = l
      BY <1>0, <1>1, AppendProperties, LastAppended
    <2> HIDE DEF new
    <2>3. /\ Glued(log, l) \in Log /\ Glued(log, l).lines = new
          /\ Glued(log, l).exists = log.exists /\ Glued(log, l).torn = FALSE
      BY <1>1, <1>4, <2>1, <2>2 DEF Log
    <2>4. \A k \in DOMAIN new :
             (k \in DOMAIN log.lines /\ new[k] = log.lines[k]) \/ k = Len(log.lines) + 1
      BY <1>1, <2>2
    <2>5. \A k \in DOMAIN new : new[k].to \in {0, n + 1}
      BY <1>0, <2>2, <2>4 DEF LogInv
    <2>6. Readable(Glued(log, l), c)
      <3>1. ASSUME NEW k \in DOMAIN new, new[k].id # 0
            PROVE  /\ new[k].to = 0 /\ new[k].id <= c
                   /\ new[k].parent < new[k].id
                   /\ \A j \in DOMAIN new : j < k => new[j].id < new[k].id
        <4>1. CASE k = Len(log.lines) + 1
          <5>1. l.id # 0 /\ new[k] = l
            BY <2>2, <3>1, <4>1
          <5>2. ASSUME NEW j \in DOMAIN new, j < k
                PROVE  new[j].id < l.id
            <6>1. j \in DOMAIN log.lines /\ new[j] = log.lines[j]
              BY <1>1, <2>2, <2>4, <4>1, <5>2
            <6>2. log.lines[j].id \in Nat /\ l.id \in Nat
              <7>1. log.lines[j] \in Lines
                BY <1>1, <6>1
              <7> QED BY <1>0, <7>1, IdsPositive DEF Lines
            <6>3. log.lines[j].id = 0 \/ log.lines[j].id <= b
              BY <6>1 DEF LogInv, Readable
            <6> QED BY <1>0, <5>1, <6>1, <6>2, <6>3
          <5> QED BY <1>0, <5>1, <5>2
        <4>2. CASE k \in DOMAIN log.lines /\ new[k] = log.lines[k]
          <5>1. \A j \in DOMAIN new : j < k => j \in DOMAIN log.lines /\ new[j] = log.lines[j]
            BY <1>1, <2>2, <2>4, <4>2
          <5> QED BY <1>2, <3>1, <4>2, <5>1 DEF LogInv, Readable
        <4> QED BY <2>4, <4>1, <4>2
      <3> QED BY <2>3, <3>1 DEF Readable
    <2>7. LogInv(n, Glued(log, l), c)
      BY <2>3, <2>5, <2>6 DEF LogInv
    <2> QED BY <1>4, <2>2, <2>3, <2>7 DEF Closed
  <1> QED BY <1>3, <1>4 DEF LogInv, Log

LEMMA GluedFields ==
    ASSUME NEW log \in Log, NEW l
    PROVE  /\ Glued(log, l).torn = FALSE
           /\ ~log.torn => Glued(log, l).lines = Append(log.lines, l)
  BY DEF Glued, Log

LEMMA TornAdded ==
    ASSUME NEW n \in Logs, NEW log, NEW b \in Nat, LogInv(n, log, b)
    PROVE  /\ LogInv(n, Tear(log), b) /\ Tear(log).exists /\ ~Closed(Tear(log))
           /\ Parsed(Tear(log)) = Parsed(log)
  <1>0. Garbage \in Lines /\ Garbage.id = 0 /\ Garbage.to = 0
    BY DEF Garbage, Line, Lines
  <1>1. /\ log \in Log /\ log.lines \in Seq(Lines)
        /\ Tear(log) \in Log /\ Tear(log).exists /\ Tear(log).torn
    <2>1. log \in Log /\ log.lines \in Seq(Lines)
      BY DEF LogInv, Log
    <2>2. Append(log.lines, Garbage) \in Seq(Lines)
      BY <1>0, <2>1, AppendProperties
    <2> QED BY <2>1, <2>2 DEF Tear, Log
  <1>2. CASE log.torn
    <2>1. Tear(log).lines = log.lines
      BY <1>2 DEF Tear
    <2>2. Parsed(Tear(log)) = Parsed(log)
      BY <2>1 DEF Parsed
    <2> QED BY <1>1, <1>2, <2>1, <2>2 DEF LogInv, Readable, Closed
  <1>3. CASE ~log.torn
    <2> DEFINE whole == [log EXCEPT !.exists = TRUE]
    <2>1. /\ LogInv(n, whole, b) /\ whole.exists /\ whole.lines = log.lines
          /\ whole.torn = log.torn
      BY <1>1 DEF LogInv, Log, Readable
    <2> HIDE DEF whole
    <2>2. LogInv(n, Glued(whole, Garbage), b) /\ Glued(whole, Garbage).lines = Append(log.lines, Garbage)
      <3>1. Fresh(n, Garbage, b, b)
        BY <1>0 DEF Fresh
      <3>2. /\ LogInv(n, Glued(whole, Garbage), b)
            /\ ~whole.torn => Glued(whole, Garbage).lines = Append(whole.lines, Garbage)
        <4>1. LogInv(n, whole, b) /\ whole.exists
          BY <2>1
        <4>2. LogInv(n, Glued(whole, Garbage), b)
          BY <4>1, <3>1, LineAdded
        <4>3. ~whole.torn => Glued(whole, Garbage).lines = Append(whole.lines, Garbage)
          BY <4>1, GluedFields DEF LogInv
        <4> QED BY <4>2, <4>3
      <3> QED BY <1>3, <2>1, <3>2
    <2>3. Tear(log).lines = Append(log.lines, Garbage)
      BY <1>3 DEF Tear
    <2>4. Parsed(Tear(log)) = Parsed(log)
      BY <1>0, <1>1, <2>3, ParsedAppend
    <2>5. Tear(log).lines # <<>> /\ Last(Tear(log).lines).to = 0
      BY <1>0, <1>1, <2>3, LastAppended
    <2>6. LogInv(n, Tear(log), b)
      BY <1>1, <2>2, <2>3, <2>5 DEF LogInv, Readable
    <2> QED BY <1>1, <2>4, <2>6 DEF Closed
  <1> QED BY <1>1, <1>2, <1>3 DEF LogInv, Log

LEMMA TornEnded ==
    ASSUME NEW n \in Logs, NEW log, NEW b \in Nat, LogInv(n, log, b)
    PROVE  /\ LogInv(n, Terminated(log), b) /\ Terminated(log).exists = log.exists
           /\ Terminated(log).torn = FALSE /\ Parsed(Terminated(log)) = Parsed(log)
           /\ Closed(log) => Terminated(log) = log
           /\ Closed(Terminated(log)) => Closed(log)
  <1>1. /\ log \in Log /\ Terminated(log) \in Log /\ Terminated(log).torn = FALSE
        /\ Terminated(log).lines = log.lines /\ Terminated(log).exists = log.exists
    BY DEF LogInv, Log, Terminated
  <1>2. Parsed(Terminated(log)) = Parsed(log)
    BY <1>1 DEF Parsed
  <1>3. ~log.torn => Terminated(log) = log
    BY <1>1 DEF Terminated, Log
  <1> QED BY <1>1, <1>2, <1>3 DEF LogInv, Readable, Closed

(* All entries of a memory at once.                                        *)
LEMMA AllWritten ==
    ASSUME NEW n \in Logs, NEW b \in Nat, NEW lines \in Seq(Lines), Proper(lines),
           \A k \in DOMAIN lines : lines[k].id <= b
    PROVE  LET log == [exists |-> TRUE, lines |-> lines, torn |-> FALSE] IN
           LogInv(n, log, b) /\ ~Closed(log) /\ Parsed(log) = lines
  <1> DEFINE log == [exists |-> TRUE, lines |-> lines, torn |-> FALSE]
  <1>1. log \in Log /\ log.lines = lines /\ log.exists /\ log.torn = FALSE
    BY DEF Log
  <1> HIDE DEF log
  <1>2. \A k \in DOMAIN lines : lines[k].id # 0 /\ lines[k].to = 0
    BY DEF Proper, Ids
  <1>3. lines # <<>> => Last(lines).to = 0
    <2>1. ASSUME lines # <<>>
          PROVE  Len(lines) \in DOMAIN lines
      BY <2>1, EmptySeq
    <2> QED BY <1>2, <2>1 DEF Last
  <1>4. Parsed(log) = lines
    BY <1>1, <1>2, ParsedWhole
  <1> QED BY <1>1, <1>2, <1>3, <1>4 DEF LogInv, Readable, Proper, Closed, log

-----------------------------------------------------------------------------
(* Lines of a rotated log. *)

Rising(ids) == \A j, k \in DOMAIN ids : j < k => ids[j] < ids[k]

LEMMA ChainedProper ==
    ASSUME NEW ids \in Seq(Ids), Rising(ids)
    PROVE  /\ Chained(ids) \in Seq(Lines) /\ Proper(Chained(ids))
           /\ Len(Chained(ids)) = Len(ids)
           /\ \A k \in DOMAIN ids : /\ Chained(ids)[k].id = ids[k]
                                    /\ Chained(ids)[k].parent = IF k = 1 THEN 0 ELSE ids[k - 1]
           /\ ids # <<>> => LeafOf(Chained(ids)) = Last(ids)
  <1> DEFINE Text(k) == Line(ids[k], IF k = 1 THEN 0 ELSE ids[k - 1])
  <1>1. Len(ids) \in Nat /\ DOMAIN ids = 1..Len(ids) /\ \A k \in 1..Len(ids) : ids[k] \in Ids
    OBVIOUS
  <1>2. ASSUME NEW k \in 1..Len(ids)
        PROVE  /\ Text(k) \in Lines /\ Text(k).id = ids[k] /\ Text(k).to = 0
               /\ Text(k).parent = IF k = 1 THEN 0 ELSE ids[k - 1]
               /\ Text(k).parent < Text(k).id
    <2>1. k # 1 => /\ k - 1 \in 1..Len(ids) /\ k - 1 < k
      BY <1>1
    <2>2. k # 1 => ids[k - 1] \in Ids /\ ids[k - 1] < ids[k]
      BY <1>1, <2>1 DEF Rising
    <2>3. ids[k] \in Ids /\ ids[k] > 0
      BY <1>1, IdsPositive
    <2> QED BY <2>2, <2>3 DEF Line, Lines
  <1>3. Chained(ids) = [k \in 1..Len(ids) |-> Text(k)]
    BY <1>1 DEF Chained
  <1> HIDE DEF Text
  <1>4. Chained(ids) \in [1..Len(ids) -> Lines]
    BY <1>2, <1>3
  <1>5. Chained(ids) \in Seq(Lines) /\ Len(Chained(ids)) = Len(ids)
    BY <1>1, <1>4
  <1>6. DOMAIN Chained(ids) = 1..Len(ids) /\ \A k \in 1..Len(ids) : Chained(ids)[k] = Text(k)
    BY <1>3
  <1>7. Proper(Chained(ids))
    <2>1. \A j, k \in 1..Len(ids) : j < k => Chained(ids)[j].id < Chained(ids)[k].id
      BY <1>1, <1>2, <1>6 DEF Rising
    <2>2. \A k \in 1..Len(ids) : /\ Chained(ids)[k].id \in Ids /\ Chained(ids)[k].to = 0
                                 /\ Chained(ids)[k].parent < Chained(ids)[k].id
      BY <1>1, <1>2, <1>6
    <2> QED BY <1>6, <2>1, <2>2 DEF Proper
  <1>8. ids # <<>> => LeafOf(Chained(ids)) = Last(ids)
    <2>1. SUFFICES ASSUME ids # <<>>
                   PROVE  LeafOf(Chained(ids)) = Last(ids)
      OBVIOUS
    <2>2. Len(ids) \in 1..Len(ids)
      BY <2>1, EmptySeq
    <2>3. Chained(ids) # <<>>
      BY <1>5, <2>2, EmptySeq
    <2>4. Last(Chained(ids)).id = ids[Len(ids)]
      BY <1>2, <1>5, <1>6, <2>2 DEF Last
    <2> QED BY <2>3, <2>4 DEF LeafOf, Last
  <1> QED BY <1>1, <1>2, <1>5, <1>6, <1>7, <1>8

LEMMA RisingAppend ==
    ASSUME NEW ids \in Seq(Ids), Rising(ids), NEW i \in Ids,
           \A k \in DOMAIN ids : ids[k] < i
    PROVE  /\ Append(ids, i) \in Seq(Ids) /\ Rising(Append(ids, i))
           /\ Append(ids, i) # <<>> /\ Last(Append(ids, i)) = i
           /\ \A k \in DOMAIN Append(ids, i) : Append(ids, i)[k] <= i
  <1> DEFINE more == Append(ids, i)
  <1>1. more \in Seq(Ids) /\ Len(ids) \in Nat /\ more # <<>> /\ Last(more) = i
    BY AppendProperties, LastAppended
  <1>2. /\ DOMAIN ids = 1..Len(ids) /\ DOMAIN more = 1..(Len(ids) + 1)
        /\ \A k \in DOMAIN ids : more[k] = ids[k]
        /\ more[Len(ids) + 1] = i
    BY AppendProperties
  <1> HIDE DEF more
  <1>3. \A k \in DOMAIN more : (k \in DOMAIN ids /\ more[k] = ids[k]) \/ k = Len(ids) + 1
    BY <1>1, <1>2
  <1>4. ASSUME NEW j \in DOMAIN more, NEW k \in DOMAIN more, j < k
        PROVE  more[j] < more[k]
    <2>1. j \in DOMAIN ids /\ more[j] = ids[j]
      BY <1>1, <1>2, <1>3, <1>4
    <2>2. CASE k \in DOMAIN ids /\ more[k] = ids[k]
      BY <1>4, <2>1, <2>2 DEF Rising
    <2>3. CASE k = Len(ids) + 1
      BY <1>2, <2>1, <2>3
    <2> QED BY <1>3, <2>2, <2>3
  <1>5. \A k \in DOMAIN more : more[k] <= i
    <2>1. \A k \in DOMAIN ids : ids[k] \in Nat /\ ids[k] < i /\ i \in Nat
      BY <1>2, IdsPositive
    <2> QED BY <1>2, <1>3, <2>1, IdsPositive
  <1> QED BY <1>1, <1>4, <1>5 DEF Rising, more

(* The tail, with the last finished operation before it, is a part of the  *)
(* path in its order.                                                      *)
LEMMA CarriedFacts ==
    \A path \in Seq(Ids) : Rising(path) =>
        \A start \in DOMAIN path :
            /\ Carried(path, start) \in Seq(Ids) /\ Rising(Carried(path, start))
            /\ \A k \in DOMAIN Carried(path, start) :
                  \E j \in DOMAIN path : Carried(path, start)[k] = path[j]
  <1> SUFFICES ASSUME NEW path \in Seq(Ids), Rising(path), NEW start \in DOMAIN path
               PROVE  /\ Carried(path, start) \in Seq(Ids) /\ Rising(Carried(path, start))
                      /\ \A k \in DOMAIN Carried(path, start) :
                            \E j \in DOMAIN path : Carried(path, start)[k] = path[j]
    OBVIOUS
  <1> DEFINE finished == LastAt(path, OfKind({"finished"}))
             tail == SubSeq(path, start, Len(path))
             has == finished < start /\ finished # 0
             lead == IF has THEN <<path[finished]>> ELSE <<>>
  <1>1. Carried(path, start) = lead \o tail
    BY Selections DEF Carried
  <1>2. Len(path) \in Nat /\ DOMAIN path = 1..Len(path) /\ start \in 1..Len(path)
    OBVIOUS
  <1>3. finished # 0 => finished \in DOMAIN path
    BY SelectedPlaces
  <1>4. /\ tail \in Seq(Ids) /\ Len(tail) = Len(path) - start + 1
        /\ \A k \in 1..Len(tail) : tail[k] = path[start + k - 1]
    BY <1>2, SubSeqProperties
  <1> HIDE DEF finished, tail
  <1>5. CASE has
    <2>1. finished \in 1..Len(path) /\ path[finished] \in Ids
      BY <1>2, <1>3, <1>5
    <2>2. lead \in Seq(Ids) /\ Len(lead) = 1 /\ lead[1] = path[finished]
      BY <1>5, <2>1
    <2> DEFINE all == lead \o tail
               at(k) == IF k = 1 THEN finished ELSE start + k - 2
    <2>3. /\ all \in Seq(Ids) /\ Len(all) = 1 + Len(tail)
          /\ \A k \in 1..(1 + Len(tail)) : all[k] = IF k <= 1 THEN lead[k] ELSE tail[k - 1]
      BY <1>4, <2>2, ConcatProperties
    <2> HIDE DEF lead, all
    <2>4. ASSUME NEW k \in DOMAIN all
          PROVE  at(k) \in DOMAIN path /\ all[k] = path[at(k)]
      <3>1. k \in 1..(1 + Len(tail)) /\ Len(tail) \in Nat
        BY <1>2, <1>4, <2>3
      <3>2. CASE k = 1
        BY <1>2, <2>1, <2>2, <2>3, <3>1, <3>2
      <3>3. CASE k # 1
        <4>1. k - 1 \in 1..Len(tail) /\ all[k] = tail[k - 1] /\ start + (k - 1) - 1 = at(k)
          BY <1>2, <2>3, <3>1, <3>3
        <4> QED BY <1>2, <1>4, <4>1
      <3> QED BY <3>2, <3>3
    <2>5. ASSUME NEW j \in DOMAIN all, NEW k \in DOMAIN all, j < k
          PROVE  at(j) < at(k)
      <3>1. j \in Nat \ {0} /\ k \in Nat \ {0}
        BY <2>3
      <3> QED BY <1>2, <1>5, <2>1, <2>5, <3>1
    <2>6. Rising(all)
      BY <2>4, <2>5 DEF Rising
    <2> QED BY <1>1, <2>3, <2>4, <2>6 DEF all
  <1>6. CASE ~has
    <2>1. lead \o tail = tail
      BY <1>4, <1>6, ConcatEmptySeq
    <2>2. DOMAIN tail = 1..Len(tail) /\ Len(tail) \in Nat
      BY <1>4
    <2>3. \A k \in DOMAIN tail : start + k - 1 \in DOMAIN path /\ tail[k] = path[start + k - 1]
      BY <1>2, <1>4, <2>2
    <2>4. Rising(tail)
      BY <1>2, <2>2, <2>3 DEF Rising
    <2> QED BY <1>1, <1>4, <2>1, <2>3, <2>4
  <1> QED BY <1>5, <1>6

-----------------------------------------------------------------------------
(* Every reachable state has its type, and the lines their invariant. *)

LEMMA MemoryKept ==
    ASSUME NEW memory, NEW b \in Nat, MemoryInv(memory, b), NEW c \in Nat, b <= c
    PROVE  MemoryInv(memory, c)
  <1>1. memory.lines \in Seq(Lines) /\ memory.leaf \in Nat
    BY IdsPositive DEF MemoryInv, Memory
  <1>2. \A k \in DOMAIN memory.lines : memory.lines[k].id \in Nat
    BY IdsPositive DEF MemoryInv, Proper
  <1> QED BY <1>1, <1>2 DEF MemoryInv

(* What is left to show of a step: of the logs and managers it changes.    *)
LEMMA LinesStep ==
    ASSUME TypeInv, next' \in Nat, next <= next',
           \A n \in Logs :
               /\ disk'[n] = disk[n] \/ LogInv(n, disk'[n], next')
               /\ disk[n].exists => disk'[n].exists
               /\ Closed(disk'[n]) => Closed(disk[n]) \/ disk'[n + 1].exists,
           \A m \in Managers :
               \/ mem'[m] = mem[m]
               \/ /\ MemoryInv(mem'[m], next')
                  /\ mem'[m].flushed => disk'[mem'[m].log].exists
    PROVE  LinesInv' /\ Present'
  <1>1. next \in Nat
    BY DEF TypeInv, TypeOK
  <1>2. \A n \in Logs : LogInv(n, disk'[n], next')
    BY <1>1, LogKept DEF TypeInv, LinesInv
  <1>3. \A m \in Managers : MemoryInv(mem'[m], next')
    BY <1>1, MemoryKept DEF TypeInv, LinesInv
  <1>4. ASSUME NEW n \in Logs, Closed(disk'[n])
        PROVE  disk'[n + 1].exists
    <2>1. CASE Closed(disk[n])
      <3>1. n + 1 \in Logs
        BY <2>1, ClosedHasNext DEF TypeInv, LinesInv
      <3> QED BY <2>1, <3>1 DEF TypeInv, Present
    <2> QED BY <1>4, <2>1
  <1>5. ASSUME NEW m \in Managers, mem'[m].flushed
        PROVE  disk'[mem'[m].log].exists
    <2>1. CASE mem'[m] = mem[m]
      <3>1. mem[m].log \in Logs
        BY DEF TypeInv, TypeOK, Memory
      <3> QED BY <1>5, <2>1, <3>1 DEF TypeInv, Present
    <2> QED BY <1>5, <2>1
  <1> QED BY <1>2, <1>3, <1>4, <1>5 DEF LinesInv, Present

(* The entry a manager makes next.                                         *)
LEMMA EntryMade ==
    ASSUME TypeInv, NEW m \in Managers,
           NEW k \in Kinds, NEW kept \in Ids \cup {0}, NEW covers \in SUBSET Ids,
           NewEntry(m, k, kept, covers)
    PROVE  LET i == next + 1
               after == Extended(m, i)
               line == Line(i, mem[m].leaf)
           IN  /\ next' = i /\ i \in Ids /\ next \in Nat /\ i \in Nat
               /\ entry' \in [Ids -> [kind : Kinds, parent : Ids \cup {0},
                                      kept : Ids \cup {0}, covers : SUBSET Ids]]
               /\ entry'[i] = [kind |-> k, parent |-> mem[m].leaf, kept |-> kept,
                               covers |-> covers]
               /\ \A j \in Ids : j # i => entry'[j] = entry[j]
               /\ MemoryInv(after, i) /\ after.lines = Append(mem[m].lines, line)
               /\ after.leaf = i /\ after.log = mem[m].log /\ after.up = mem[m].up
               /\ after.flushed = mem[m].flushed /\ after.failed = mem[m].failed
               /\ after.unclosed = mem[m].unclosed
               /\ \A n \in Logs : Fresh(n, line, next, i)
  <1> DEFINE i == next + 1
             after == Extended(m, i)
             line == Line(i, mem[m].leaf)
  <1>1. /\ next \in Nat /\ i \in Ids /\ i \in Nat /\ next < i /\ next' = i
        /\ i \in 0..MaxEntries
    BY BoundsAssumption DEF TypeInv, TypeOK, NewEntry, Ids
  <1>2. mem[m] \in Memory /\ MemoryInv(mem[m], next)
    BY DEF TypeInv, LinesInv, TypeOK
  <1>3. /\ mem[m].leaf \in Ids \cup {0} /\ mem[m].leaf <= next /\ mem[m].leaf < i
        /\ mem[m].lines \in Seq(Lines) /\ Proper(mem[m].lines)
        /\ \A j \in DOMAIN mem[m].lines : mem[m].lines[j].id \in Nat /\ mem[m].lines[j].id <= next
    BY <1>1, <1>2, IdsPositive DEF MemoryInv, Memory, Proper
  <1>4. line \in Lines /\ line.id = i /\ line.parent = mem[m].leaf /\ line.to = 0
    BY <1>1, <1>3 DEF Line, Lines
  <1>5. \A n \in Logs : Fresh(n, line, next, i)
    BY <1>1, <1>3, <1>4 DEF Fresh
  <1>6. disk[mem[m].log] \in Log
    <2>1. mem[m].log \in Logs
      BY <1>2 DEF Memory
    <2> QED BY <2>1 DEF TypeInv, TypeOK
  <1>7. /\ Append(mem[m].lines, line) \in Seq(Lines) /\ Proper(Append(mem[m].lines, line))
    BY <1>1, <1>3, PathAppend
  <1>8. \A j \in DOMAIN Append(mem[m].lines, line) : Append(mem[m].lines, line)[j].id <= i
    <2> DEFINE lines == mem[m].lines
               more == Append(lines, line)
    <2>1. /\ Len(lines) \in Nat /\ DOMAIN lines = 1..Len(lines)
          /\ DOMAIN more = 1..(Len(lines) + 1)
          /\ \A j \in DOMAIN lines : more[j] = lines[j]
          /\ more[Len(lines) + 1] = line
      BY <1>3, <1>4, AppendProperties
    <2>2. \A j \in DOMAIN lines : lines[j].id \in Nat /\ lines[j].id <= next
      BY <1>3
    <2> HIDE DEF lines, more, line
    <2>3. \A j \in DOMAIN more : (j \in DOMAIN lines /\ more[j] = lines[j]) \/ j = Len(lines) + 1
      BY <2>1
    <2>4. \A j \in DOMAIN more : more[j].id <= i
      BY <1>1, <1>4, <2>1, <2>2, <2>3
    <2> QED BY <2>4 DEF more, lines
  <1> HIDE DEF line
  <1>9. /\ after \in Memory /\ after.lines = Append(mem[m].lines, line)
        /\ after.leaf = i /\ after.log = mem[m].log /\ after.up = mem[m].up
        /\ after.flushed = mem[m].flushed /\ after.failed = mem[m].failed
        /\ after.unclosed = mem[m].unclosed
    BY <1>1, <1>2, <1>6, <1>7 DEF Extended, Memory, line
  <1>10. MemoryInv(after, i)
    <2> HIDE DEF after
    <2>1. i <= i
      BY <1>1
    <2> HIDE DEF i
    <2> QED BY <1>6, <1>7, <1>8, <1>9, <2>1 DEF MemoryInv
  <1>11. /\ entry' \in [Ids -> [kind : Kinds, parent : Ids \cup {0},
                                kept : Ids \cup {0}, covers : SUBSET Ids]]
         /\ entry'[i] = [kind |-> k, parent |-> mem[m].leaf, kept |-> kept,
                         covers |-> covers]
         /\ \A j \in Ids : j # i => entry'[j] = entry[j]
    BY <1>1, <1>3 DEF NewEntry, TypeInv, TypeOK
  <1> QED BY <1>1, <1>5, <1>9, <1>10, <1>11 DEF line

(* _persist, or the rewriting of the whole log.                            *)
LEMMA EntryWritten ==
    ASSUME TypeInv, NEW m \in Managers,
           NEW k \in Kinds, NEW kept \in Ids \cup {0}, NEW covers \in SUBSET Ids,
           NewEntry(m, k, kept, covers), NEW prune \in BOOLEAN
    PROVE  LET after == Extended(m, next + 1)
               log == Compacted(m, after, prune)
           IN  /\ LogInv(after.log, log, next + 1) /\ log.exists /\ log.torn = FALSE
               /\ ~Closed(log)
               /\ mem[m].flushed /\ ~prune /\ ~disk[mem[m].log].torn =>
                    Parsed(log) = Append(Parsed(disk[mem[m].log]), Line(next + 1, mem[m].leaf))
               /\ ~mem[m].flushed \/ prune => Parsed(log) = after.lines
  <1> DEFINE i == next + 1
             after == Extended(m, i)
             line == Line(i, mem[m].leaf)
             log == Compacted(m, after, prune)
             whole == [exists |-> TRUE, lines |-> after.lines, torn |-> FALSE]
             old == disk[mem[m].log]
  <1>1. /\ i \in Nat /\ i \in Ids /\ next \in Nat /\ MemoryInv(after, i)
        /\ after.lines = Append(mem[m].lines, line)
        /\ after.log = mem[m].log /\ \A n \in Logs : Fresh(n, line, next, i)
    BY EntryMade
  <1>2. mem[m].log \in Logs /\ mem[m].lines \in Seq(Lines)
    BY DEF TypeInv, TypeOK, Memory
  <1>3. LogInv(mem[m].log, old, next) /\ old \in Log
    BY <1>2 DEF TypeInv, LinesInv, TypeOK
  <1>4. Fresh(mem[m].log, line, next, i) /\ line \in Lines
    BY <1>1, <1>2 DEF Fresh
  <1> HIDE DEF after, old
  <1>5. Last(after.lines) = line
    <2>1. Last(Append(mem[m].lines, line)) = line
      BY <1>2, <1>4, LastAppended
    <2> QED BY <1>1, <2>1
  <1>6. CASE mem[m].flushed /\ ~prune
    <2>1. log = Glued(old, line)
      BY <1>1, <1>5, <1>6 DEF Compacted, Persisted, old
    <2>2. old.exists
      BY <1>6 DEF TypeInv, Present, old
    <2>3. line.to = 0 /\ line.id = i /\ i # 0
      BY <1>1, IdsPositive DEF Line
    <2> HIDE DEF line, i
    <2>4. /\ LogInv(mem[m].log, Glued(old, line), i) /\ Glued(old, line).exists
          /\ Glued(old, line).torn = FALSE
          /\ ~Closed(Glued(old, line))
          /\ ~old.torn => Glued(old, line).lines = Append(old.lines, line)
      <3>1. LogInv(mem[m].log, old, next) /\ old.exists /\ Fresh(mem[m].log, line, next, i)
        BY <1>3, <1>4, <2>2
      <3>2. i \in Nat /\ next \in Nat /\ mem[m].log \in Logs
        BY <1>1, <1>2
      <3>3. /\ LogInv(mem[m].log, Glued(old, line), i) /\ Glued(old, line).exists
        BY <3>1, <3>2, LineAdded
      <3>6. Glued(old, line).torn = FALSE
        BY <1>3, GluedFields
      <3>4. line.to = 0 => ~Closed(Glued(old, line))
        BY <3>1, <3>2, LineAdded
      <3>5. ~old.torn => Glued(old, line).lines = Append(old.lines, line)
        BY <1>3, GluedFields
      <3> QED BY <2>3, <3>3, <3>4, <3>5, <3>6
    <2>5. ~old.torn => Parsed(log) = Append(Parsed(old), line)
      <3>1. old.lines \in Seq(Lines)
        BY <1>3 DEF Log
      <3> QED BY <1>4, <2>1, <2>3, <2>4, <3>1, ParsedAppend
    <2> QED BY <1>1, <1>6, <2>1, <2>4, <2>5 DEF line, i, after, old
  <1>7. CASE ~mem[m].flushed \/ prune
    <2>1. log = whole
      BY <1>7 DEF Compacted, Persisted
    <2>2. /\ after.lines \in Seq(Lines) /\ Proper(after.lines)
          /\ \A j \in DOMAIN after.lines : after.lines[j].id <= i
      BY <1>1 DEF MemoryInv, Memory
    <2>3. LogInv(mem[m].log, whole, i) /\ ~Closed(whole) /\ Parsed(whole) = after.lines
      BY <1>1, <1>2, <2>2, AllWritten
    <2> QED BY <1>1, <1>7, <2>1, <2>3 DEF after
  <1> QED BY <1>6, <1>7


-----------------------------------------------------------------------------
(* Each action keeps the type and the invariant.                           *)

LEMMA LeafFacts ==
    ASSUME NEW lines \in Seq(Lines), Proper(lines), NEW b \in Nat,
           \A k \in DOMAIN lines : lines[k].id <= b
    PROVE  /\ LeafOf(lines) \in Ids \cup {0} /\ LeafOf(lines) <= b
           /\ lines # <<>> => Has(lines, LeafOf(lines)) /\ LeafOf(lines) # 0
  <1>1. CASE lines = <<>>
    BY <1>1 DEF LeafOf
  <1>2. CASE lines # <<>>
    <2>1. /\ Len(lines) \in Nat /\ DOMAIN lines = 1..Len(lines) /\ Len(lines) \in DOMAIN lines
          /\ LeafOf(lines) = lines[Len(lines)].id
      BY <1>2, LenProperties, EmptySeq DEF LeafOf, Last
    <2>2. lines[Len(lines)].id \in Ids /\ lines[Len(lines)].id <= b
      BY <2>1 DEF Proper
    <2> QED BY <2>1, <2>2, IdsPositive DEF Has
  <1> QED BY <1>1, <1>2

LEMMA UpsetType ==
    ASSUME steady \in BOOLEAN, NEW happened \in BOOLEAN, Upset(happened)
    PROVE  steady' \in BOOLEAN
  BY Zenon DEF Upset

(* Nothing changes on disk. *)
LEMMA DiskSame ==
    ASSUME TypeInv, disk' = disk
    PROVE  \A n \in Logs :
             /\ disk'[n] = disk[n]
             /\ disk[n].exists => disk'[n].exists
             /\ Closed(disk'[n]) => Closed(disk[n])
  OBVIOUS

(* One log changes and is open afterwards.                                 *)
LEMMA DiskChanged ==
    ASSUME TypeInv, NEW n \in Logs, NEW log, disk' = [disk EXCEPT ![n] = log],
           LogInv(n, log, next'), log.exists \/ ~disk[n].exists,
           ~Closed(log)
    PROVE  /\ disk' \in [Logs -> Log] /\ disk'[n] = log
           /\ \A k \in Logs : k # n => disk'[k] = disk[k]
           /\ \A k \in Logs :
                /\ disk'[k] = disk[k] \/ LogInv(k, disk'[k], next')
                /\ disk[k].exists => disk'[k].exists
                /\ Closed(disk'[k]) => Closed(disk[k])
  <1>1. disk \in [Logs -> Log]
    BY DEF TypeInv, TypeOK
  <1>2. log \in Log
    BY DEF LogInv
  <1>3. /\ disk' \in [Logs -> Log] /\ disk'[n] = log
        /\ \A k \in Logs : k # n => disk'[k] = disk[k]
    BY <1>1, <1>2
  <1> QED BY <1>3

Opened(log, lines, leaf, unclosed) ==
    [NewSession EXCEPT !.log = log, !.lines = lines, !.leaf = leaf,
                       !.flushed = TRUE, !.unclosed = unclosed]

LEMMA OpenedMemory ==
    ASSUME NEW log \in Logs, NEW lines \in Seq(Lines), NEW leaf \in Ids \cup {0},
           NEW unclosed \in BOOLEAN
    PROVE  LET memory == Opened(log, lines, leaf, unclosed)
           IN  /\ memory \in Memory /\ memory.lines = lines /\ memory.leaf = leaf
               /\ memory.checked = NoLog /\ memory.log = log /\ memory.flushed
               /\ memory.up /\ ~memory.failed /\ memory.unclosed = unclosed
  <1>1. NoLog \in Log
    BY EmptySeq DEF NoLog, Log
  <1> HIDE DEF NoLog
  <1> QED BY <1>1 DEF Opened, NewSession, Memory

LEMMA OpenStep ==
    ASSUME TypeInv, NEW m \in Managers, Open(m)
    PROVE  TypeInv'
  <1>1. PICK n \in {newest} \cup (IF Others(m) = {} THEN {} ELSE Logs) :
           /\ n # 0 /\ disk[n].exists
           /\ LET log == Resolve(n)
                  lines == Parsed(disk[log])
              IN  /\ disk' = [disk EXCEPT ![log] = Terminated(@)]
                  /\ newest' = IF disk[log].torn THEN log ELSE newest
                  /\ mem' = [mem EXCEPT ![m] =
                       [NewSession EXCEPT
                          !.log = log, !.lines = lines, !.leaf = LeafOf(lines),
                          !.flushed = TRUE,
                          !.unclosed = Unclosed(Path(lines, LeafOf(lines)))]]
    BY DEF Open
  <1> DEFINE log == Resolve(n)
             lines == Parsed(disk[log])
             unclosed == Unclosed(Path(lines, LeafOf(lines)))
             memory == Opened(log, lines, LeafOf(lines), unclosed)
  <1>2. n \in Logs
    BY <1>1 DEF TypeInv, TypeOK
  <1>3. log \in Logs /\ ~Closed(disk[log]) /\ disk[log].exists
    BY <1>1, <1>2, ResolveFacts
  <1> HIDE DEF log
  <1>4. LogInv(log, disk[log], next) /\ next \in Nat /\ next' = next
    BY <1>3 DEF TypeInv, TypeOK, LinesInv, Open
  <1>5. /\ LogInv(log, Terminated(disk[log]), next) /\ Terminated(disk[log]).exists
        /\ ~Closed(Terminated(disk[log]))
    BY <1>3, <1>4, TornEnded
  <1>6. disk' = [disk EXCEPT ![log] = Terminated(disk[log])]
    BY <1>1 DEF log
  <1>7. /\ disk' \in [Logs -> Log] /\ disk'[log] = Terminated(disk[log])
        /\ \A k \in Logs :
             /\ disk'[k] = disk[k] \/ LogInv(k, disk'[k], next')
             /\ disk[k].exists => disk'[k].exists
             /\ Closed(disk'[k]) => Closed(disk[k])
    BY <1>3, <1>4, <1>5, <1>6, DiskChanged
  <1>8. /\ lines \in Seq(Lines) /\ Proper(lines)
        /\ \A k \in DOMAIN lines : lines[k].id <= next
    <2>1. disk[log].lines \in Seq(Lines) /\ Readable(disk[log], next)
      BY <1>4 DEF LogInv, Log
    <2> QED BY <2>1, ParsedReadable
  <1> HIDE DEF lines
  <1>9. LeafOf(lines) \in Ids \cup {0} /\ LeafOf(lines) <= next
    BY <1>4, <1>8, LeafFacts
  <1>10. unclosed \in BOOLEAN
    BY DEF Unclosed
  <1> HIDE DEF unclosed
  <1>11. /\ memory \in Memory /\ memory.lines = lines /\ memory.leaf = LeafOf(lines)
         /\ memory.checked = NoLog /\ memory.log = log
    BY <1>3, <1>8, <1>9, <1>10, OpenedMemory
  <1>13. MemoryInv(memory, next)
    BY <1>8, <1>9, <1>11 DEF MemoryInv
  <1>14. mem' = [mem EXCEPT ![m] = memory]
    BY <1>1, Zenon DEF log, lines, unclosed, Opened
  <1> HIDE DEF memory
  <1>15. /\ mem' \in [Managers -> Memory] /\ mem'[m] = memory
         /\ \A o \in Managers : o # m => mem'[o] = mem[o]
    BY <1>11, <1>14 DEF TypeInv, TypeOK
  <1>16. LinesInv' /\ Present'
    <2>1. \A o \in Managers :
             \/ mem'[o] = mem[o]
             \/ MemoryInv(mem'[o], next') /\ (mem'[o].flushed => disk'[mem'[o].log].exists)
      BY <1>4, <1>5, <1>7, <1>11, <1>13, <1>15
    <2>2. \A k \in Logs :
             /\ disk'[k] = disk[k] \/ LogInv(k, disk'[k], next')
             /\ disk[k].exists => disk'[k].exists
             /\ Closed(disk'[k]) => Closed(disk[k]) \/ disk'[k + 1].exists
      BY <1>7
    <2> QED BY <1>4, <2>1, <2>2, LinesStep
  <1>17. newest' \in Logs \cup {0}
    BY <1>1, <1>3 DEF TypeInv, TypeOK, log
  <1>18. steady' \in BOOLEAN
    BY UpsetType DEF Open, TypeInv, TypeOK
  <1> QED BY <1>7, <1>15, <1>16, <1>17, <1>18 DEF TypeInv, TypeOK, Open

(* A step of a manager's own memory only. *)
LEMMA MemoryStep ==
    ASSUME TypeInv, disk' = disk, next' = next, NEW m \in Managers, NEW memory,
           mem' = [mem EXCEPT ![m] = memory], MemoryInv(memory, next),
           memory.flushed => disk[memory.log].exists
    PROVE  mem' \in [Managers -> Memory] /\ LinesInv' /\ Present'
  <1>1. next \in Nat
    BY DEF TypeInv, TypeOK
  <1>2. memory \in Memory
    BY DEF MemoryInv
  <1>3. /\ mem' \in [Managers -> Memory] /\ mem'[m] = memory
        /\ \A o \in Managers : o # m => mem'[o] = mem[o]
    BY <1>2 DEF TypeInv, TypeOK
  <1>4. \A n \in Logs :
          /\ disk'[n] = disk[n]
          /\ disk[n].exists => disk'[n].exists
          /\ Closed(disk'[n]) => Closed(disk[n])
    BY DiskSame
  <1>5. \A o \in Managers :
           \/ mem'[o] = mem[o]
           \/ MemoryInv(mem'[o], next') /\ (mem'[o].flushed => disk'[mem'[o].log].exists)
    BY <1>3
  <1>6. next' \in Nat /\ next <= next'
    BY <1>1
  <1>7. LinesInv' /\ Present'
    BY <1>4, <1>5, <1>6, LinesStep
  <1> QED BY <1>3, <1>4, <1>7

LEMMA EmptyMemory ==
    /\ NewSession \in Memory /\ Down \in Memory
    /\ \A b \in Nat : MemoryInv(NewSession, b) /\ MemoryInv(Down, b)
    /\ ~NewSession.flushed /\ ~Down.flushed
  <1>1. 1 \in Logs
    BY BoundsAssumption DEF Logs
  <1>2. <<>> \in Seq(Lines) /\ DOMAIN <<>> = {} /\ NoLog \in Log /\ ~Closed(NoLog)
    BY EmptySeq DEF NoLog, Log, Closed
  <1>3. NewSession \in Memory /\ Down \in Memory
    BY <1>1, <1>2 DEF NewSession, Down, Memory
  <1>4. /\ NewSession.lines = <<>> /\ Down.lines = <<>>
        /\ NewSession.checked = NoLog /\ Down.checked = NoLog
        /\ NewSession.leaf = 0 /\ Down.leaf = 0
    BY DEF NewSession, Down
  <1>5. Proper(<<>>)
    BY <1>2 DEF Proper
  <1>6. ~NewSession.flushed /\ ~Down.flushed
    BY DEF NewSession, Down
  <1>7. ASSUME NEW b \in Nat
        PROVE  MemoryInv(NewSession, b) /\ MemoryInv(Down, b)
    BY <1>2, <1>3, <1>4, <1>5 DEF MemoryInv
  <1> QED BY <1>3, <1>6, <1>7

LEMMA CreateStep ==
    ASSUME TypeInv, NEW m \in Managers, Create(m)
    PROVE  TypeInv'
  <1>1. next \in Nat
    BY DEF TypeInv, TypeOK
  <1>2. MemoryInv(NewSession, next) /\ ~NewSession.flushed
    BY <1>1, EmptyMemory
  <1>3. mem' = [mem EXCEPT ![m] = NewSession] /\ disk' = disk /\ next' = next
    BY DEF Create
  <1>4. mem' \in [Managers -> Memory] /\ LinesInv' /\ Present'
    BY <1>2, <1>3, MemoryStep
  <1> QED BY <1>4 DEF Create, TypeInv, TypeOK

LEMMA DieStep ==
    ASSUME TypeInv, NEW m \in Managers, Die(m)
    PROVE  TypeInv'
  <1>1. next \in Nat
    BY DEF TypeInv, TypeOK
  <1>2. MemoryInv(Down, next) /\ ~Down.flushed
    BY <1>1, EmptyMemory
  <1>3. mem' = [mem EXCEPT ![m] = Down] /\ disk' = disk /\ next' = next
    BY DEF Die
  <1>4. mem' \in [Managers -> Memory] /\ LinesInv' /\ Present'
    BY <1>2, <1>3, MemoryStep
  <1>5. runs' \in [Managers -> SUBSET [kept : Ids, covers : SUBSET Ids]]
    BY DEF Die, TypeInv, TypeOK
  <1> QED BY <1>4, <1>5 DEF Die, TypeInv, TypeOK

LEMMA BranchStep ==
    ASSUME TypeInv, NEW m \in Managers, Branch(m)
    PROVE  TypeInv'
  <1>1. PICK i \in {mem[m].lines[k].id : k \in DOMAIN mem[m].lines} \cup {0} :
           mem' = [mem EXCEPT ![m].leaf = i]
    BY Zenon DEF Branch
  <1> DEFINE memory == [mem[m] EXCEPT !.leaf = i]
  <1>2. mem' = [mem EXCEPT ![m] = memory] /\ disk' = disk /\ next' = next
    BY <1>1 DEF Branch
  <1>3. next \in Nat /\ mem[m] \in Memory /\ MemoryInv(mem[m], next)
    BY DEF TypeInv, TypeOK, LinesInv
  <1>4. i \in Ids \cup {0} /\ i <= next
    <2>1. CASE i = 0
      BY <1>3, <2>1
    <2>2. CASE i # 0
      <3>1. PICK k \in DOMAIN mem[m].lines : i = mem[m].lines[k].id
        BY <2>2
      <3> QED BY <1>3, <3>1 DEF MemoryInv, Proper
    <2> QED BY <2>1, <2>2
  <1>5. /\ memory \in Memory /\ memory.leaf = i /\ memory.lines = mem[m].lines
        /\ memory.checked = mem[m].checked /\ memory.log = mem[m].log
        /\ memory.flushed = mem[m].flushed
    BY <1>3, <1>4 DEF Memory
  <1> HIDE DEF memory
  <1>6. MemoryInv(memory, next)
    BY <1>3, <1>4, <1>5 DEF MemoryInv
  <1>7. memory.flushed => disk[memory.log].exists
    BY <1>5 DEF TypeInv, Present
  <1>8. mem' \in [Managers -> Memory] /\ LinesInv' /\ Present'
    BY <1>2, <1>6, <1>7, MemoryStep
  <1>9. steady' \in BOOLEAN
    <2>1. steady' = FALSE \/ steady' = TRUE
      BY Zenon DEF Branch, Upset
    <2> QED BY <2>1
  <1> QED BY <1>8, <1>9 DEF Branch, TypeInv, TypeOK

LEMMA CheckStep ==
    ASSUME TypeInv, NEW m \in Managers, Check(m)
    PROVE  TypeInv'
  <1> DEFINE memory == [mem[m] EXCEPT !.passed = TRUE, !.checked = disk[mem[m].log]]
  <1>2. /\ mem[m] \in Memory /\ MemoryInv(mem[m], next)
        /\ disk[mem[m].log] \in Log
    BY DEF TypeInv, TypeOK, LinesInv, Memory
  <1>1. mem' = [mem EXCEPT ![m] = memory] /\ disk' = disk /\ next' = next
    BY DEF Check, TypeInv, TypeOK
  <1>3. /\ memory \in Memory /\ memory.leaf = mem[m].leaf
        /\ memory.lines = mem[m].lines /\ memory.log = mem[m].log
        /\ memory.flushed = mem[m].flushed
    BY <1>2 DEF Memory
  <1> HIDE DEF memory
  <1>4. MemoryInv(memory, next)
    BY <1>2, <1>3 DEF MemoryInv
  <1>5. memory.flushed => disk[memory.log].exists
    BY <1>3 DEF TypeInv, Present
  <1>6. mem' \in [Managers -> Memory] /\ LinesInv' /\ Present'
    BY <1>1, <1>4, <1>5, MemoryStep
  <1> QED BY <1>6 DEF Check, TypeInv, TypeOK

(* A step in which one manager changes. *)
LEMMA ManagerStep ==
    ASSUME TypeInv, NEW m \in Managers, NEW memory, mem' = [mem EXCEPT ![m] = memory],
           next' \in Nat, next <= next', MemoryInv(memory, next'),
           memory.flushed => disk'[memory.log].exists,
           \A n \in Logs :
               /\ disk'[n] = disk[n] \/ LogInv(n, disk'[n], next')
               /\ disk[n].exists => disk'[n].exists
               /\ Closed(disk'[n]) => Closed(disk[n]) \/ disk'[n + 1].exists
    PROVE  /\ mem' \in [Managers -> Memory] /\ mem'[m] = memory
           /\ \A o \in Managers : o # m => mem'[o] = mem[o]
           /\ LinesInv' /\ Present'
  <1>1. memory \in Memory
    BY DEF MemoryInv
  <1>2. /\ mem' \in [Managers -> Memory] /\ mem'[m] = memory
        /\ \A o \in Managers : o # m => mem'[o] = mem[o]
    BY <1>1 DEF TypeInv, TypeOK
  <1>3. \A o \in Managers :
           \/ mem'[o] = mem[o]
           \/ MemoryInv(mem'[o], next') /\ (mem'[o].flushed => disk'[mem'[o].log].exists)
    BY <1>2
  <1>4. LinesInv' /\ Present'
    BY <1>3, LinesStep
  <1> QED BY <1>2, <1>4

(* What Upset and the turn make of the history keeps its type.             *)
LEMMA HistoryType ==
    /\ \A happened \in BOOLEAN : Upset(happened) => steady' \in BOOLEAN
    /\ \A k : TurnAfter(k) \in {"running", "ended", "unknown"}
  <1>1. ASSUME NEW happened \in BOOLEAN, Upset(happened)
        PROVE  steady' \in BOOLEAN
    <2>1. steady' = FALSE \/ steady' = TRUE
      BY <1>1, Zenon DEF Upset
    <2> QED BY <2>1
  <1> QED BY <1>1 DEF TurnAfter

(* The memory after an append, and the log it wrote or left alone.         *)
LEMMA AppendedStep ==
    ASSUME TypeInv, NEW m \in Managers,
           NEW k \in Kinds, NEW kept \in Ids \cup {0}, NEW covers \in SUBSET Ids,
           NewEntry(m, k, kept, covers),
           NEW log, LogInv(mem[m].log, log, next'), log.exists, ~Closed(log),
           disk' = [disk EXCEPT ![mem[m].log] = log],
           NEW memory, mem' = [mem EXCEPT ![m] = memory], memory \in Memory,
           memory.lines = Extended(m, next + 1).lines, memory.leaf = next + 1,
           memory.log = mem[m].log
    PROVE  /\ mem' \in [Managers -> Memory] /\ LinesInv' /\ Present'
           /\ disk' \in [Logs -> Log]
  <1>1. mem[m].log \in Logs
    BY DEF TypeInv, TypeOK, Memory
  <1>2. /\ next' = next + 1 /\ next \in Nat /\ next + 1 \in Nat
        /\ MemoryInv(Extended(m, next + 1), next + 1) /\ Extended(m, next + 1).leaf = next + 1
    BY EntryMade
  <1>3. MemoryInv(memory, next')
    BY <1>2 DEF MemoryInv
  <1>4. /\ disk' \in [Logs -> Log] /\ disk'[mem[m].log] = log
        /\ \A n \in Logs :
             /\ disk'[n] = disk[n] \/ LogInv(n, disk'[n], next')
             /\ disk[n].exists => disk'[n].exists
             /\ Closed(disk'[n]) => Closed(disk[n])
    BY <1>1, DiskChanged
  <1>5. next' \in Nat /\ next <= next'
    BY <1>2
  <1>6. memory.flushed => disk'[memory.log].exists
    BY <1>4
  <1>7. mem' \in [Managers -> Memory] /\ LinesInv' /\ Present'
    BY <1>3, <1>4, <1>5, <1>6, ManagerStep
  <1> QED BY <1>4, <1>7

LEMMA KeptStep ==
    ASSUME TypeInv, NEW m \in Managers,
           NEW k \in Kinds, NEW kept \in Ids \cup {0}, NEW covers \in SUBSET Ids,
           NewEntry(m, k, kept, covers), disk' = disk,
           NEW memory, mem' = [mem EXCEPT ![m] = memory], memory \in Memory,
           memory.lines = Extended(m, next + 1).lines, memory.leaf = next + 1,
           memory.log = mem[m].log, memory.flushed = mem[m].flushed
    PROVE  /\ mem' \in [Managers -> Memory] /\ LinesInv' /\ Present'
           /\ disk' \in [Logs -> Log]
  <1>2. /\ next' = next + 1 /\ next \in Nat /\ next + 1 \in Nat
        /\ MemoryInv(Extended(m, next + 1), next + 1) /\ Extended(m, next + 1).leaf = next + 1
    BY EntryMade
  <1>3. MemoryInv(memory, next')
    BY <1>2 DEF MemoryInv
  <1>4. \A n \in Logs :
          /\ disk'[n] = disk[n]
          /\ disk[n].exists => disk'[n].exists
          /\ Closed(disk'[n]) => Closed(disk[n])
    BY DiskSame
  <1>5. next' \in Nat /\ next <= next'
    BY <1>2
  <1>6. memory.flushed => disk'[memory.log].exists
    BY DEF TypeInv, Present
  <1>7. mem' \in [Managers -> Memory] /\ LinesInv' /\ Present'
    BY <1>3, <1>4, <1>5, <1>6, ManagerStep
  <1> QED BY <1>4, <1>7 DEF TypeInv, TypeOK

LEMMA AppendStep ==
    ASSUME TypeInv, NEW m \in Managers, NEW k \in Kinds, AppendEntry(m, k)
    PROVE  TypeInv'
  <1> DEFINE after == Extended(m, next + 1)
             log == Persisted(m, after)
             unclosed == after.unclosed /\ k # "finished"
  <1>1. /\ NewEntry(m, k, 0, {})
        /\ waits' = waits /\ runs' = runs
    BY DEF AppendEntry
  <1>0. 0 \in Ids \cup {0} /\ {} \in SUBSET Ids
    OBVIOUS
  <1>2. /\ next' = next + 1 /\ next + 1 \in Ids /\ next + 1 \in Nat /\ MemoryInv(after, next + 1)
        /\ entry' \in [Ids -> [kind : Kinds, parent : Ids \cup {0},
                               kept : Ids \cup {0}, covers : SUBSET Ids]]
        /\ after.leaf = next + 1 /\ after.log = mem[m].log
        /\ after.flushed = mem[m].flushed
    BY <1>0, <1>1, EntryMade
  <1>3. LogInv(mem[m].log, log, next + 1) /\ log.exists /\ ~Closed(log) /\ log \in Log
    <2>1. Compacted(m, after, FALSE) = log
      BY DEF Compacted
    <2>2. FALSE \in BOOLEAN /\ 0 \in Ids \cup {0} /\ {} \in SUBSET Ids
      OBVIOUS
    <2> HIDE DEF after
    <2>3. /\ LogInv(after.log, Compacted(m, after, FALSE), next + 1)
          /\ Compacted(m, after, FALSE).exists /\ ~Closed(Compacted(m, after, FALSE))
      BY <1>1, <2>2, EntryWritten DEF after
    <2> QED BY <1>2, <2>1, <2>3 DEF LogInv
  <1>4. next' \in 0..MaxEntries
    BY <1>2, IdsPositive
  <1>5. unclosed \in BOOLEAN /\ after \in Memory
    BY <1>2 DEF MemoryInv
  <1> HIDE DEF log, unclosed
  <1>6. CASE /\ disk' = [disk EXCEPT ![after.log] = log]
             /\ newest' = after.log /\ last' = next + 1
             /\ turn' = TurnAfter(k)
             /\ mem' = [mem EXCEPT ![m] =
                  [after EXCEPT !.flushed = TRUE, !.checked = log,
                                !.unclosed = unclosed]]
             /\ Upset(mem[m].failed) /\ resized' = resized \ {m}
    <2> DEFINE memory == [after EXCEPT !.flushed = TRUE, !.checked = log,
                                       !.unclosed = unclosed]
    <2>1. /\ memory \in Memory /\ memory.lines = after.lines /\ memory.leaf = after.leaf
          /\ memory.log = after.log /\ memory.checked = log
      <3> HIDE DEF after
      <3> QED BY <1>3, <1>5 DEF Memory
    <2>2. mem' = [mem EXCEPT ![m] = memory]
      BY <1>6
    <2> HIDE DEF memory
    <2>3. /\ memory.lines = Extended(m, next + 1).lines /\ memory.leaf = next + 1
          /\ memory.log = mem[m].log /\ memory \in Memory
      BY <1>2, <1>3, <2>1
    <2>4. /\ disk' = [disk EXCEPT ![mem[m].log] = log]
          /\ LogInv(mem[m].log, log, next')
      BY <1>2, <1>3, <1>6
    <2>5. /\ mem' \in [Managers -> Memory] /\ LinesInv' /\ Present'
          /\ disk' \in [Logs -> Log]
      BY <1>0, <1>1, <1>3, <2>2, <2>3, <2>4, AppendedStep
    <2>6. newest' \in Logs \cup {0} /\ last' \in Ids \cup {0}
      BY <1>2, <1>5, <1>6 DEF Memory
    <2>7. steady' \in BOOLEAN /\ turn' \in {"running", "ended", "unknown"}
      BY <1>6, HistoryType DEF TypeInv, TypeOK, Memory
    <2>8. resized' \subseteq Managers
      BY <1>6 DEF TypeInv, TypeOK
    <2> QED BY <1>1, <1>2, <1>4, <2>5, <2>6, <2>7, <2>8 DEF TypeInv, TypeOK
  <1>7. CASE /\ mem' = [mem EXCEPT ![m] = [after EXCEPT !.unclosed = unclosed]]
             /\ UNCHANGED <<disk, newest, last, turn, steady, resized>>
    <2> DEFINE memory == [after EXCEPT !.unclosed = unclosed]
    <2>1. /\ memory \in Memory /\ memory.lines = after.lines /\ memory.leaf = after.leaf
          /\ memory.log = after.log /\ memory.checked = after.checked
          /\ memory.flushed = after.flushed
      <3> HIDE DEF after
      <3> QED BY <1>5 DEF Memory
    <2>2. mem' = [mem EXCEPT ![m] = memory] /\ disk' = disk
      BY <1>7
    <2> HIDE DEF memory
    <2>3. /\ memory.lines = Extended(m, next + 1).lines /\ memory.leaf = next + 1
          /\ memory.log = mem[m].log /\ memory \in Memory
          /\ memory.flushed = mem[m].flushed
      BY <1>2, <1>5, <2>1
    <2>5. /\ mem' \in [Managers -> Memory] /\ LinesInv' /\ Present'
          /\ disk' \in [Logs -> Log]
      BY <1>0, <1>1, <2>2, <2>3, KeptStep
    <2> QED BY <1>1, <1>2, <1>4, <1>7, <2>5 DEF TypeInv, TypeOK
  <1> QED BY <1>6, <1>7, Zenon DEF AppendEntry, log, unclosed

(* The first write, cut short: the lines before the cut are there.         *)
Cut(lines, c) ==
    [exists |-> TRUE, lines |-> Append(SubSeq(lines, 1, c), Garbage), torn |-> TRUE]

LEMMA PartWritten ==
    ASSUME NEW n \in Logs, NEW b \in Nat, NEW lines \in Seq(Lines), Proper(lines),
           \A k \in DOMAIN lines : lines[k].id <= b, NEW c \in 0..(Len(lines) - 1)
    PROVE  LET part == SubSeq(lines, 1, c)
               log == Cut(lines, c)
           IN  /\ part \in Seq(Lines) /\ Proper(part) /\ Len(part) = c
               /\ \A k \in DOMAIN part : part[k] = lines[k] /\ k \in DOMAIN lines
               /\ \A k \in DOMAIN part : part[k].id <= b
               /\ LogInv(n, log, b) /\ log.exists /\ ~Closed(log) /\ Parsed(log) = part
  <1> DEFINE part == SubSeq(lines, 1, c)
             whole == [exists |-> TRUE, lines |-> part, torn |-> FALSE]
             log == Cut(lines, c)
  <1>1. Len(lines) \in Nat /\ DOMAIN lines = 1..Len(lines) /\ c \in Nat /\ c <= Len(lines)
    BY LenProperties
  <1>2. /\ part \in Seq(Lines) /\ Len(part) = c
        /\ \A k \in 1..c : part[k] = lines[k]
    <2>1. CASE c = 0
      BY <1>1, <2>1, SubSeqProperties
    <2>2. CASE c # 0
      BY <1>1, <2>2, SubSeqProperties
    <2> QED BY <2>1, <2>2
  <1>3. DOMAIN part = 1..c
    BY <1>2, LenProperties
  <1> HIDE DEF part
  <1>4. \A k \in DOMAIN part : part[k] = lines[k] /\ k \in DOMAIN lines
    BY <1>1, <1>2, <1>3
  <1>5. Proper(part) /\ \A k \in DOMAIN part : part[k].id <= b
    BY <1>4 DEF Proper
  <1>6. LogInv(n, whole, b) /\ Parsed(whole) = part
    BY <1>2, <1>5, AllWritten
  <1>7. Tear(whole) = log /\ log.exists
    BY DEF Tear, Cut, part
  <1> HIDE DEF log
  <1>8. /\ LogInv(n, Tear(whole), b) /\ ~Closed(Tear(whole))
        /\ Parsed(Tear(whole)) = Parsed(whole)
    <2> HIDE DEF whole
    <2> QED BY <1>6, TornAdded
  <1> QED BY <1>2, <1>4, <1>5, <1>6, <1>7, <1>8 DEF part, log

LEMMA WriteFailsStep ==
    ASSUME TypeInv, NEW m \in Managers, NEW k \in Kinds, NEW kept \in Ids \cup {0},
           NEW covers \in SUBSET Ids, WriteFails(m, k, kept, covers),
           runs' \in [Managers -> SUBSET [kept : Ids, covers : SUBSET Ids]]
    PROVE  TypeInv'
  <1> DEFINE after == Extended(m, next + 1)
             unclosed == after.unclosed /\ k # "finished"
             memory == [after EXCEPT !.failed = TRUE, !.unclosed = unclosed]
  <1>1. /\ NewEntry(m, k, kept, covers) /\ Torn(m, after)
        /\ waits' = waits /\ steady' = steady /\ resized' = resized
        /\ mem' = [mem EXCEPT ![m] = memory]
    BY DEF WriteFails
  <1>2. /\ next' = next + 1 /\ next + 1 \in Ids /\ next + 1 \in Nat /\ next \in Nat
        /\ MemoryInv(after, next + 1)
        /\ entry' \in [Ids -> [kind : Kinds, parent : Ids \cup {0},
                               kept : Ids \cup {0}, covers : SUBSET Ids]]
        /\ after.leaf = next + 1 /\ after.log = mem[m].log
        /\ after.flushed = mem[m].flushed
    BY <1>1, EntryMade
  <1>3. next' \in 0..MaxEntries
    BY <1>2, IdsPositive
  <1>4. unclosed \in BOOLEAN /\ after \in Memory
    BY <1>2 DEF MemoryInv
  <1> HIDE DEF unclosed
  <1>5. /\ memory \in Memory /\ memory.lines = after.lines /\ memory.leaf = after.leaf
        /\ memory.log = after.log /\ memory.checked = after.checked
        /\ memory.flushed = after.flushed
    <2> HIDE DEF after
    <2> QED BY <1>4 DEF Memory
  <1> HIDE DEF memory
  <1>6. /\ memory.lines = Extended(m, next + 1).lines /\ memory.leaf = next + 1
        /\ memory.log = mem[m].log /\ memory \in Memory
        /\ memory.flushed = mem[m].flushed
    BY <1>2, <1>4, <1>5
  <1>7. mem[m].log \in Logs /\ LogInv(mem[m].log, disk[mem[m].log], next)
    BY DEF TypeInv, TypeOK, Memory, LinesInv
  <1>8. CASE UNCHANGED <<disk, newest, last, turn>>
    <2>1. /\ mem' \in [Managers -> Memory] /\ LinesInv' /\ Present'
          /\ disk' \in [Logs -> Log]
      BY <1>1, <1>6, <1>8, KeptStep
    <2> QED BY <1>1, <1>2, <1>3, <1>8, <2>1 DEF TypeInv, TypeOK
  <1> HIDE DEF after
  <1>9. CASE /\ newest' = after.log /\ disk' = [disk EXCEPT ![after.log] = Tear(@)]
             /\ UNCHANGED <<last, turn>>
    <2> DEFINE log == Tear(disk[mem[m].log])
    <2>1. LogInv(mem[m].log, log, next) /\ log.exists /\ ~Closed(log)
      BY <1>2, <1>7, TornAdded
    <2>2. disk' = [disk EXCEPT ![mem[m].log] = log]
      BY <1>2, <1>9
    <2> HIDE DEF log
    <2>3. LogInv(mem[m].log, log, next')
      BY <1>2, <2>1, LogKept
    <2>4. /\ mem' \in [Managers -> Memory] /\ LinesInv' /\ Present'
          /\ disk' \in [Logs -> Log]
      BY <1>1, <1>6, <2>1, <2>2, <2>3, AppendedStep
    <2> QED BY <1>1, <1>2, <1>3, <1>7, <1>9, <2>4 DEF TypeInv, TypeOK
  <1>10. ASSUME newest' = after.log, NEW c \in 0..(Len(after.lines) - 1),
                LET lines == SubSeq(after.lines, 1, c)
                IN  /\ disk' = [disk EXCEPT ![after.log] =
                         [exists |-> TRUE, lines |-> Append(lines, Garbage),
                          torn |-> TRUE]]
                    /\ last' = LeafOf(lines)
                    /\ turn' = IF Unclosed(Path(lines, LeafOf(lines)))
                               THEN "running" ELSE "ended"
         PROVE  TypeInv'
    <2> DEFINE part == SubSeq(after.lines, 1, c)
               log == Cut(after.lines, c)
    <2>1. /\ after.lines \in Seq(Lines) /\ Proper(after.lines)
          /\ \A j \in DOMAIN after.lines : after.lines[j].id <= next + 1
      <3>1. next + 1 \in Nat
        BY <1>2
      <3> QED BY <1>2, <3>1 DEF MemoryInv, Memory
    <2>2. /\ part \in Seq(Lines) /\ Proper(part)
          /\ \A j \in DOMAIN part : part[j].id <= next + 1
          /\ LogInv(mem[m].log, log, next + 1) /\ log.exists /\ ~Closed(log)
      <3> DEFINE lines == after.lines
      <3>1. next + 1 \in Nat /\ c \in 0..(Len(lines) - 1) /\ mem[m].log \in Logs
        BY <1>2, <1>7, <1>10
      <3>2. /\ lines \in Seq(Lines) /\ Proper(lines)
            /\ \A j \in DOMAIN lines : lines[j].id <= next + 1
        BY <2>1
      <3> HIDE DEF lines
      <3>3. LET cut == SubSeq(lines, 1, c)
                torn == Cut(lines, c)
            IN  /\ cut \in Seq(Lines) /\ Proper(cut)
                /\ \A j \in DOMAIN cut : cut[j].id <= next + 1
                /\ LogInv(mem[m].log, torn, next + 1) /\ torn.exists /\ ~Closed(torn)
        BY <3>1, <3>2, PartWritten
      <3> QED BY <3>3 DEF lines
    <2>3. /\ disk' = [disk EXCEPT ![mem[m].log] = log] /\ last' = LeafOf(part)
          /\ turn' \in {"running", "ended", "unknown"}
      BY <1>2, <1>10 DEF Cut
    <2> HIDE DEF part, log
    <2>4. LogInv(mem[m].log, log, next')
      BY <1>2, <2>2
    <2>5. /\ mem' \in [Managers -> Memory] /\ LinesInv' /\ Present'
          /\ disk' \in [Logs -> Log]
      BY <1>1, <1>6, <2>2, <2>3, <2>4, AppendedStep
    <2>6. last' \in Ids \cup {0}
      BY <1>2, <2>2, <2>3, LeafFacts
    <2> QED BY <1>1, <1>2, <1>3, <1>7, <1>10, <2>3, <2>5, <2>6 DEF TypeInv, TypeOK
  <1> QED BY <1>1, <1>8, <1>9, <1>10 DEF Torn

LEMMA AppendFailsStep ==
    ASSUME TypeInv, NEW m \in Managers, NEW k \in Kinds, AppendFails(m, k)
    PROVE  TypeInv'
  <1>1. WriteFails(m, k, 0, {}) /\ runs' = runs
    BY DEF AppendFails
  <1>2. 0 \in Ids \cup {0} /\ {} \in SUBSET Ids
    OBVIOUS
  <1>3. runs' \in [Managers -> SUBSET [kept : Ids, covers : SUBSET Ids]]
    BY <1>1 DEF TypeInv, TypeOK
  <1> QED BY <1>1, <1>2, <1>3, WriteFailsStep

LEMMA RunFailsStep ==
    ASSUME TypeInv, NEW m \in Managers, RunFails(m)
    PROVE  TypeInv'
  <1>1. PICK run \in runs[m] :
           /\ runs' = [runs EXCEPT ![m] = @ \ {run}]
           /\ \/ UNCHANGED <<disk, newest, mem, entry, next, waits, last, turn,
                             steady, resized>>
              \/ WriteFails(m, "compaction", run.kept, run.covers)
    BY DEF RunFails
  <1>2. /\ run.kept \in Ids \cup {0} /\ run.covers \in SUBSET Ids
        /\ runs' \in [Managers -> SUBSET [kept : Ids, covers : SUBSET Ids]]
    BY <1>1 DEF TypeInv, TypeOK
  <1>3. CASE UNCHANGED <<disk, newest, mem, entry, next, waits, last, turn, steady,
                       resized>>
    BY <1>2, <1>3 DEF TypeInv, TypeOK, LinesInv, Present
  <1>4. CASE WriteFails(m, "compaction", run.kept, run.covers)
    <2>1. "compaction" \in Kinds
      BY DEF Kinds
    <2> QED BY <1>2, <1>4, <2>1, WriteFailsStep
  <1> QED BY <1>1, <1>3, <1>4

(* The path a manager is on. *)
LEMMA OwnPath ==
    ASSUME TypeInv, NEW m \in Managers
    PROVE  LET path == Path(mem[m].lines, mem[m].leaf) IN
           /\ path \in Seq(Ids) /\ Rising(path)
           /\ Len(path) \in Nat /\ DOMAIN path = 1..Len(path)
           /\ \A k \in DOMAIN path : path[k] <= next
  <1> DEFINE path == Path(mem[m].lines, mem[m].leaf)
  <1>1. /\ mem[m].lines \in Seq(Lines) /\ Proper(mem[m].lines)
        /\ mem[m].leaf \in Ids \cup {0} /\ mem[m].leaf <= next /\ next \in Nat
    BY DEF TypeInv, TypeOK, LinesInv, MemoryInv, Memory
  <1>2. path \in Seq(Ids)
    BY <1>1, PathFacts
  <1>3. /\ \A k \in DOMAIN path : path[k] <= mem[m].leaf
        /\ \A j, k \in DOMAIN path : j < k => path[j] < path[k]
    BY <1>1, PathRises
  <1> HIDE DEF path
  <1>4. Len(path) \in Nat /\ DOMAIN path = 1..Len(path)
    BY <1>2, LenProperties
  <1>5. \A k \in DOMAIN path : path[k] <= next
    <2>1. \A k \in DOMAIN path : path[k] \in Nat /\ mem[m].leaf \in Nat
      BY <1>1, <1>2, <1>4, ElementOfSeq, IdsPositive
    <2> QED BY <1>1, <1>3, <2>1
  <1> QED BY <1>2, <1>3, <1>4, <1>5 DEF Rising, path

LEMMA PrepareStep ==
    ASSUME TypeInv, NEW m \in Managers, Prepare(m)
    PROVE  TypeInv'
  <1> DEFINE path == Path(mem[m].lines, mem[m].leaf)
             prev == SelectLastInSeq(path, IsCompaction)
             keptAt == SelectInSeq(path, LAMBDA i : i = entry[path[prev]].kept)
             start == IF prev = 0 THEN 1 ELSE IF keptAt # 0 THEN keptAt ELSE prev + 1
             covered(cut) == {path[k] : k \in start..(cut - 1)} \cup
                             (IF prev = 0 THEN {} ELSE entry[path[prev]].covers)
  <1>1. PICK cut \in (start + 1)..Len(path) :
           runs' = [runs EXCEPT ![m] = @ \cup {[kept |-> path[cut], covers |-> covered(cut)]}]
    BY Zenon DEF Prepare
  <1>2. path \in Seq(Ids) /\ Len(path) \in Nat /\ DOMAIN path = 1..Len(path)
    BY OwnPath
  <1> HIDE DEF path
  <1>3. prev = 0 \/ prev \in DOMAIN path
    <2>1. prev = LastAt(path, OfKind({"compaction"}))
      BY <1>2, Selections
    <2> HIDE DEF prev
    <2>2. LastAt(path, OfKind({"compaction"})) = 0 \/ LastAt(path, OfKind({"compaction"})) \in DOMAIN path
      BY <1>2, SelectedPlaces
    <2> QED BY <2>1, <2>2
  <1> HIDE DEF prev
  <1>4. keptAt = 0 \/ keptAt \in DOMAIN path
    <2> DEFINE kept == entry[path[prev]].kept
    <2>1. keptAt = FirstAt(path, {kept})
      <3> HIDE DEF kept
      <3>1. SelectInSeq(path, LAMBDA i : i = kept) = FirstAt(path, {kept})
        BY <1>2, Selections
      <3> QED BY <3>1 DEF kept
    <2> HIDE DEF keptAt, kept
    <2>2. FirstAt(path, {kept}) = 0 \/ FirstAt(path, {kept}) \in DOMAIN path
      BY <1>2, SelectedPlaces
    <2> QED BY <2>1, <2>2
  <1> HIDE DEF keptAt
  <1>5. start \in Nat /\ start >= 1
    BY <1>2, <1>3, <1>4
  <1> HIDE DEF start
  <1>6. cut \in DOMAIN path /\ \A k \in start..(cut - 1) : k \in DOMAIN path
    BY <1>1, <1>2, <1>5
  <1>7. path[cut] \in Ids /\ {path[k] : k \in start..(cut - 1)} \subseteq Ids
    BY <1>2, <1>6, ElementOfSeq
  <1>8. prev # 0 => entry[path[prev]].covers \subseteq Ids
    <2>1. ASSUME prev # 0
          PROVE  path[prev] \in Ids
      BY <1>2, <1>3, <2>1, ElementOfSeq
    <2> QED BY <2>1 DEF TypeInv, TypeOK
  <1>9. covered(cut) \in SUBSET Ids
    BY <1>7, <1>8
  <1> HIDE DEF covered
  <1>10. runs' \in [Managers -> SUBSET [kept : Ids, covers : SUBSET Ids]]
    <2>1. [kept |-> path[cut], covers |-> covered(cut)] \in [kept : Ids, covers : SUBSET Ids]
      BY <1>7, <1>9
    <2> DEFINE run == [kept |-> path[cut], covers |-> covered(cut)]
    <2> HIDE DEF run
    <2>2. run \in [kept : Ids, covers : SUBSET Ids]
      BY <2>1 DEF run
    <2>3. runs' = [runs EXCEPT ![m] = @ \cup {run}]
      BY <1>1 DEF run
    <2> QED BY <2>2, <2>3 DEF TypeInv, TypeOK
  <1>11. UNCHANGED <<disk, newest, mem, entry, next, waits, last, turn, steady,
                       resized>>
    BY DEF Prepare
  <1> QED BY <1>10, <1>11 DEF TypeInv, TypeOK, LinesInv, Present

-----------------------------------------------------------------------------
(* Log Rotation. *)

(* The entries of the new log: the last is the compaction, made last.      *)
RotatedIds(m, start, i) == Append(Carried(Path(mem[m].lines, mem[m].leaf), start), i)

LEMMA RotatedLines ==
    ASSUME TypeInv, NEW m \in Managers, NEW kept, NEW i \in Ids, next < i,
           NEW start \in TailStarts(Path(mem[m].lines, mem[m].leaf), kept)
    PROVE  /\ start \in DOMAIN Path(mem[m].lines, mem[m].leaf)
           /\ Carried(Path(mem[m].lines, mem[m].leaf), start) \in Seq(Ids)
           /\ RotatedIds(m, start, i) \in Seq(Ids) /\ Rising(RotatedIds(m, start, i))
           /\ Chained(RotatedIds(m, start, i)) \in Seq(Lines)
           /\ Proper(Chained(RotatedIds(m, start, i)))
           /\ LeafOf(Chained(RotatedIds(m, start, i))) = i
           /\ \A k \in DOMAIN Chained(RotatedIds(m, start, i)) :
                 Chained(RotatedIds(m, start, i))[k].id <= i
  <1> DEFINE path == Path(mem[m].lines, mem[m].leaf)
             carried == Carried(path, start)
             ids == Append(carried, i)
             lines == Chained(ids)
  <1>1. /\ path \in Seq(Ids) /\ Rising(path) /\ Len(path) \in Nat
        /\ DOMAIN path = 1..Len(path) /\ \A k \in DOMAIN path : path[k] <= next
    BY OwnPath
  <1>2. start \in DOMAIN path
    BY DEF TailStarts
  <1> HIDE DEF path
  <1>3. /\ carried \in Seq(Ids) /\ Rising(carried)
        /\ \A k \in DOMAIN carried : \E j \in DOMAIN path : carried[k] = path[j]
    BY <1>1, <1>2, CarriedFacts
  <1> HIDE DEF carried
  <1>4. \A k \in DOMAIN carried : carried[k] < i
    <2> TAKE k \in DOMAIN carried
    <2>1. PICK j \in DOMAIN path : carried[k] = path[j]
      BY <1>3
    <2>2. path[j] \in Nat /\ path[j] <= next /\ i \in Nat /\ next \in Nat
      BY <1>1, ElementOfSeq, IdsPositive DEF TypeInv, TypeOK
    <2> QED BY <2>1, <2>2
  <1>5. /\ ids \in Seq(Ids) /\ Rising(ids) /\ ids # <<>> /\ Last(ids) = i
        /\ \A k \in DOMAIN ids : ids[k] <= i
    BY <1>3, <1>4, RisingAppend
  <1> HIDE DEF ids
  <1>6. /\ lines \in Seq(Lines) /\ Proper(lines) /\ Len(lines) = Len(ids)
        /\ \A k \in DOMAIN ids : lines[k].id = ids[k]
        /\ LeafOf(lines) = i
    BY <1>5, ChainedProper
  <1> HIDE DEF lines
  <1>7. DOMAIN lines = DOMAIN ids
    BY <1>5, <1>6, LenProperties
  <1> QED BY <1>2, <1>3, <1>5, <1>6, <1>7 DEF lines, ids, carried, path, RotatedIds

(* What Log Rotation leaves of the log it closes.                          *)
LEMMA ClosedLog ==
    ASSUME NEW n \in Logs, n + 1 \in Logs, NEW b \in Nat, NEW log,
           LogInv(n, log, b), log.exists,
           NEW old \in {log, Tear(log), Glued(log, Marker(n + 1))}
    PROVE  LogInv(n, old, b) /\ old.exists
  <1>1. CASE old = log
    BY <1>1
  <1>2. CASE old = Tear(log)
    BY <1>2, TornAdded
  <1>3. CASE old = Glued(log, Marker(n + 1))
    <2>1. /\ Marker(n + 1) \in Lines /\ Marker(n + 1).id = 0
          /\ Marker(n + 1).to = n + 1
      BY DEF Marker, Garbage, Line, Lines
    <2>2. Fresh(n, Marker(n + 1), b, b)
      BY <2>1 DEF Fresh
    <2> QED BY <1>3, <2>2, LineAdded
  <1> QED BY <1>1, <1>2, <1>3

(* Two logs change: the second was not there.                              *)
LEMMA DiskRotated ==
    ASSUME TypeInv, NEW n \in Logs, n + 1 \in Logs, NEW old, NEW new,
           disk' = [disk EXCEPT ![n] = old, ![n + 1] = new],
           LogInv(n, old, next'), LogInv(n + 1, new, next'), old.exists, new.exists,
           ~Closed(new), ~disk[n + 1].exists
    PROVE  /\ disk' \in [Logs -> Log] /\ disk'[n] = old /\ disk'[n + 1] = new
           /\ \A k \in Logs : k # n /\ k # n + 1 => disk'[k] = disk[k]
           /\ \A k \in Logs :
                /\ disk'[k] = disk[k] \/ LogInv(k, disk'[k], next')
                /\ disk[k].exists => disk'[k].exists
                /\ Closed(disk'[k]) => Closed(disk[k]) \/ disk'[k + 1].exists
  <1>1. disk \in [Logs -> Log]
    BY DEF TypeInv, TypeOK
  <1>2. old \in Log /\ new \in Log
    BY DEF LogInv
  <1>3. n \in Nat /\ n # n + 1
    BY BoundsAssumption DEF Logs
  <1>4. /\ disk' \in [Logs -> Log] /\ disk'[n] = old /\ disk'[n + 1] = new
        /\ \A k \in Logs : k # n /\ k # n + 1 => disk'[k] = disk[k]
    BY <1>1, <1>2, <1>3
  <1>6. \A k \in Logs :
          /\ disk'[k] = disk[k] \/ LogInv(k, disk'[k], next')
          /\ disk[k].exists => disk'[k].exists
          /\ Closed(disk'[k]) => Closed(disk[k]) \/ disk'[k + 1].exists
    <2> TAKE k \in Logs
    <2>1. CASE k = n
      BY <1>4, <2>1
    <2>2. CASE k = n + 1
      BY <1>4, <2>2
    <2>3. CASE k # n /\ k # n + 1
      BY <1>4, <2>3
    <2> QED BY <2>1, <2>2, <2>3
  <1> QED BY <1>4, <1>6

LEMMA RunEndsStep ==
    ASSUME TypeInv, NEW m \in Managers, RunEnds(m)
    PROVE  TypeInv'
  <1>1. PICK run \in runs[m], prune \in BOOLEAN :
           /\ NewEntry(m, "compaction", run.kept, run.covers)
           /\ runs' = [runs EXCEPT ![m] = @ \ {run}]
           /\ LET after == Extended(m, next + 1)
                  log == Compacted(m, after, prune)
              IN  \/ /\ disk' = [disk EXCEPT ![after.log] = log]
                     /\ newest' = after.log
                     /\ mem' = [mem EXCEPT ![m] =
                          [after EXCEPT !.flushed = TRUE, !.checked = log]]
                     /\ Upset(mem[m].failed)
                  \/ /\ Rotate(m, after, log, run.kept)
                     /\ Upset(mem[m].failed \/ runs'[m] # {})
    BY DEF RunEnds
  <1> DEFINE after == Extended(m, next + 1)
             log == Compacted(m, after, prune)
  <1>2. /\ "compaction" \in Kinds
        /\ last' = next + 1 /\ waits' = waits /\ turn' = turn
    BY DEF RunEnds, Kinds
  <1>3. run.kept \in Ids \cup {0} /\ run.covers \in SUBSET Ids
    BY <1>1 DEF TypeInv, TypeOK
  <1>4. /\ next' = next + 1 /\ next + 1 \in Ids /\ next + 1 \in Nat /\ next \in Nat
        /\ MemoryInv(after, next + 1)
        /\ entry' \in [Ids -> [kind : Kinds, parent : Ids \cup {0},
                               kept : Ids \cup {0}, covers : SUBSET Ids]]
        /\ after.leaf = next + 1 /\ after.log = mem[m].log
    BY <1>1, <1>2, <1>3, EntryMade
  <1>5. LogInv(after.log, log, next + 1) /\ log.exists /\ ~Closed(log)
    <2> HIDE DEF after
    <2>1. NewEntry(m, "compaction", run.kept, run.covers)
      BY <1>1
    <2> QED BY <2>1, <1>2, <1>3, EntryWritten DEF after
  <1>6. next' \in 0..MaxEntries /\ last' \in Ids \cup {0}
    BY <1>2, <1>4, IdsPositive
  <1>7. runs' \in [Managers -> SUBSET [kept : Ids, covers : SUBSET Ids]]
    BY <1>1 DEF TypeInv, TypeOK
  <1>8. after \in Memory /\ log \in Log /\ mem[m].log \in Logs
    BY <1>4, <1>5 DEF MemoryInv, LogInv, TypeInv, TypeOK, Memory
  <1>9. resized' \subseteq Managers
    <2>1. Others(m) \subseteq Managers /\ resized \subseteq Managers
      BY DEF Others, TypeInv, TypeOK
    <2> QED BY <2>1 DEF RunEnds
  <1> HIDE DEF log
  <1>10. CASE /\ disk' = [disk EXCEPT ![after.log] = log] /\ newest' = after.log
              /\ mem' = [mem EXCEPT ![m] =
                   [after EXCEPT !.flushed = TRUE, !.checked = log]]
              /\ Upset(mem[m].failed)
    <2> DEFINE memory == [after EXCEPT !.flushed = TRUE, !.checked = log]
    <2>1. /\ memory \in Memory /\ memory.lines = after.lines /\ memory.leaf = after.leaf
          /\ memory.log = after.log /\ memory.checked = log
      <3> HIDE DEF after
      <3> QED BY <1>8 DEF Memory
    <2>2. mem' = [mem EXCEPT ![m] = memory]
      BY <1>10
    <2> HIDE DEF memory
    <2>3. /\ memory.lines = Extended(m, next + 1).lines /\ memory.leaf = next + 1
          /\ memory.log = mem[m].log /\ memory \in Memory
      BY <1>4, <1>5, <2>1
    <2>4. /\ disk' = [disk EXCEPT ![mem[m].log] = log]
          /\ LogInv(mem[m].log, log, next') /\ log.exists /\ ~Closed(log)
      BY <1>4, <1>5, <1>10
    <2>5. NewEntry(m, "compaction", run.kept, run.covers)
      BY <1>1
    <2>6. /\ mem' \in [Managers -> Memory] /\ LinesInv' /\ Present'
          /\ disk' \in [Logs -> Log]
      BY <1>2, <1>3, <2>2, <2>3, <2>4, <2>5, AppendedStep
    <2>7. steady' \in BOOLEAN
      BY <1>10, HistoryType DEF TypeInv, TypeOK, Memory
    <2> QED BY <1>2, <1>4, <1>6, <1>7, <1>8, <1>9, <1>10, <2>6, <2>7 DEF TypeInv, TypeOK
  <1>11. CASE /\ Rotate(m, after, log, run.kept)
              /\ Upset(mem[m].failed \/ runs'[m] # {})
    <2> DEFINE path == Path(mem[m].lines, mem[m].leaf)
               lines(start) == Chained(Append(Carried(path, start), after.leaf))
               new(start) == [exists |-> TRUE, lines |-> lines(start), torn |-> FALSE]
               rotated(start) == [after EXCEPT !.log = @ + 1, !.lines = lines(start),
                                               !.leaf = LeafOf(lines(start)),
                                               !.flushed = TRUE, !.checked = new(start)]
               n == after.log
    <2>1. PICK start \in TailStarts(path, run.kept) :
             /\ mem' = [mem EXCEPT ![m] = rotated(start)]
             /\ \E old \in {log, Tear(log), Glued(log, Marker(n + 1))} :
                  /\ disk' = [disk EXCEPT ![n] = old, ![n + 1] = new(start)]
                  /\ newest' \in IF old = log THEN {n + 1}
                                 ELSE IF Closed(old) THEN {n, n + 1} ELSE {n}
      BY <1>11, Zenon DEF Rotate
    <2>2. PICK old \in {log, Tear(log), Glued(log, Marker(n + 1))} :
             /\ disk' = [disk EXCEPT ![n] = old, ![n + 1] = new(start)]
             /\ newest' \in IF old = log THEN {n + 1}
                            ELSE IF Closed(old) THEN {n, n + 1} ELSE {n}
      BY <2>1
    <2>3. n < MaxLogs /\ ~disk[n + 1].exists
      BY <1>11 DEF Rotate
    <2>4. n \in Logs /\ n + 1 \in Logs /\ n = mem[m].log
      BY <1>4, <1>8, <2>3, BoundsAssumption DEF Logs
    <2>5. /\ lines(start) \in Seq(Lines) /\ Proper(lines(start))
          /\ LeafOf(lines(start)) = next + 1
          /\ \A k \in DOMAIN lines(start) : lines(start)[k].id <= next + 1
      <3> DEFINE i == next + 1
                 made == Chained(RotatedIds(m, start, i))
      <3>1. i \in Ids /\ next < i
        BY <1>4
      <3>2. lines(start) = made
        BY <1>4 DEF RotatedIds
      <3> HIDE DEF after, lines, i
      <3>3. /\ made \in Seq(Lines) /\ Proper(made) /\ LeafOf(made) = i
            /\ \A k \in DOMAIN made : made[k].id <= i
        BY <3>1, RotatedLines
      <3> QED BY <3>2, <3>3 DEF i
    <2>6. LogInv(n + 1, new(start), next + 1) /\ ~Closed(new(start)) /\ new(start).exists
      <3> DEFINE more == lines(start)
      <3> HIDE DEF lines
      <3> QED BY <1>4, <2>4, <2>5, AllWritten
    <2>7. LogInv(n, old, next + 1) /\ old.exists
      BY <1>4, <1>5, <2>4, ClosedLog
    <2> DEFINE memory == rotated(start)
    <2>8. /\ memory \in Memory /\ memory.lines = lines(start) /\ memory.leaf = next + 1
          /\ memory.log = n + 1 /\ memory.checked = new(start)
      <3>1. new(start) \in Log
        BY <2>6 DEF LogInv
      <3> HIDE DEF after, lines, new
      <3> QED BY <1>4, <1>8, <2>4, <2>5, <3>1 DEF Memory
    <2>9. mem' = [mem EXCEPT ![m] = memory]
      BY <2>1
    <2> HIDE DEF memory, rotated, new, lines, after, n
    <2>10. MemoryInv(memory, next')
      <3>1. next + 1 <= next + 1
        BY <1>4
      <3> QED BY <1>4, <2>5, <2>6, <2>8, <3>1 DEF MemoryInv
    <2>11. LogInv(n, old, next') /\ LogInv(n + 1, new(start), next')
      BY <1>4, <2>6, <2>7
    <2>13. disk' = [disk EXCEPT ![n] = old, ![n + 1] = new(start)]
      BY <2>2
    <2>14. /\ disk' \in [Logs -> Log] /\ disk'[n + 1] = new(start)
           /\ \A k \in Logs :
                /\ disk'[k] = disk[k] \/ LogInv(k, disk'[k], next')
                /\ disk[k].exists => disk'[k].exists
                /\ Closed(disk'[k]) => Closed(disk[k]) \/ disk'[k + 1].exists
      BY <2>3, <2>4, <2>6, <2>7, <2>11, <2>13, DiskRotated
    <2>15. memory.flushed => disk'[memory.log].exists
      BY <2>6, <2>8, <2>14
    <2>16. next' \in Nat /\ next <= next'
      BY <1>4
    <2>17. mem' \in [Managers -> Memory] /\ LinesInv' /\ Present'
      BY <2>9, <2>10, <2>14, <2>15, <2>16, ManagerStep
    <2>18. newest' \in Logs \cup {0}
      BY <2>2, <2>4
    <2>19. steady' \in BOOLEAN
      <3>1. (mem[m].failed \/ runs'[m] # {}) \in BOOLEAN
        OBVIOUS
      <3> QED BY <1>11, <3>1, HistoryType
    <2> QED BY <1>2, <1>4, <1>6, <1>7, <1>9, <2>14, <2>17, <2>18, <2>19 DEF TypeInv, TypeOK
  <1> QED BY <1>1, <1>10, <1>11 DEF log

-----------------------------------------------------------------------------
(* What holds of every history. *)

LEMMA TypeInit == Init => TypeInv
  <1> SUFFICES ASSUME Init PROVE TypeInv
    OBVIOUS
  <1>1. 0 \in Nat /\ 0 \in 0..MaxEntries
    BY BoundsAssumption
  <1>2. NoLog \in Log /\ ~Closed(NoLog) /\ NoLog.lines = <<>> /\ ~NoLog.exists
        /\ ~NoLog.torn /\ DOMAIN <<>> = {}
    BY EmptySeq DEF NoLog, Log, Closed
  <1>3. \A n \in Logs : LogInv(n, NoLog, 0)
    BY <1>2 DEF LogInv, Readable
  <1>4. MemoryInv(Down, 0) /\ Down \in Memory /\ ~Down.flushed
    BY <1>1, EmptyMemory
  <1>5. [i \in Ids |-> [kind |-> "user", parent |-> 0, kept |-> 0, covers |-> {}]]
          \in [Ids -> [kind : Kinds, parent : Ids \cup {0},
                       kept : Ids \cup {0}, covers : SUBSET Ids]]
    BY DEF Kinds
  <1>6. LinesInv /\ Present
    <2>1. /\ \A n \in Logs : disk[n] = NoLog
          /\ \A m \in Managers : mem[m] = Down
          /\ next = 0
      BY DEF Init
    <2> QED BY <1>2, <1>3, <1>4, <2>1 DEF LinesInv, Present
  <1>7. TypeOK
    BY <1>1, <1>2, <1>4, <1>5 DEF Init, TypeOK
  <1> QED BY <1>6, <1>7 DEF TypeInv

LEMMA TypeNext == TypeInv /\ [Next]_vars => TypeInv'
  <1> SUFFICES ASSUME TypeInv, [Next]_vars PROVE TypeInv'
    OBVIOUS
  <1>1. CASE UNCHANGED vars
    BY <1>1 DEF vars, TypeInv, TypeOK, LinesInv, Present
  <1>2. ASSUME NEW m \in Managers,
               NEW k \in Kinds, AppendEntry(m, k) \/ AppendFails(m, k)
        PROVE  TypeInv'
    BY <1>2, AppendStep, AppendFailsStep
  <1>3. ASSUME NEW m \in Managers,
               \/ Open(m) \/ Create(m) \/ Die(m) \/ Branch(m) \/ Check(m)
               \/ Prepare(m) \/ RunFails(m) \/ RunEnds(m)
        PROVE  TypeInv'
    BY <1>3, OpenStep, CreateStep, DieStep, BranchStep, CheckStep, PrepareStep,
       RunFailsStep, RunEndsStep
  <1> QED BY <1>1, <1>2, <1>3 DEF Next

(* Logs, memories, runs and the history keep their types: the lines that   *)
(* parse come in the order of their entries, each after its parent, in     *)
(* every log that loadEntriesFromFile reads and in every fileEntries, so   *)
(* that every path of buildSessionPath ends at a root.                     *)
THEOREM TypeCorrect == Spec => []TypeOK
  <1>1. TypeInv => TypeOK
    BY DEF TypeInv
  <1> QED BY <1>1, TypeInit, TypeNext, PTL DEF Spec

(* Following the rotation markers, resolveSessionFile ends at a log that   *)
(* is not closed, and that is there if the log it starts from is.          *)
THEOREM MarkersLeadOn ==
    Spec => [](\A n \in Logs : /\ ~Closed(disk[Resolve(n)])
                               /\ disk[n].exists => disk[Resolve(n)].exists)
  <1>1. TypeInv => \A n \in Logs : /\ ~Closed(disk[Resolve(n)])
                                   /\ disk[n].exists => disk[Resolve(n)].exists
    BY ResolveFacts
  <1> QED BY <1>1, TypeInit, TypeNext, PTL DEF Spec

-----------------------------------------------------------------------------
(* The turn that a path leaves open. *)

(* As in Interrupted, with the entries given.                              *)
Asks(path, e) ==
    \E k \in DOMAIN path :
        /\ e[path[k]].kind = "user"
        /\ \A j \in DOMAIN path : j > k => e[path[j]].kind \notin {"user", "finished"}

LEMMA UnclosedAsks == \A path \in Seq(Ids) : Unclosed(path) <=> Asks(path, entry)
  BY UnclosedMeans DEF Interrupted, Asks, Kind

LEMMA UnclosedAsksNext ==
    (\A path \in Seq(Ids) : Unclosed(path) <=> Asks(path, entry))'
  BY UnclosedAsks, PTL

(* Only the entries of the path matter. *)
LEMMA AsksSame ==
    ASSUME NEW path \in Seq(Ids), NEW e, NEW f,
           \A k \in DOMAIN path : e[path[k]].kind = f[path[k]].kind
    PROVE  Asks(path, e) <=> Asks(path, f)
  BY DEF Asks

(* A user message opens the turn, operation_finished closes it, any other  *)
(* entry leaves it as it is.                                               *)
LEMMA AsksAppend ==
    ASSUME NEW path \in Seq(Ids), NEW i \in Ids, NEW e
    PROVE  /\ e[i].kind = "user" => Asks(Append(path, i), e)
           /\ e[i].kind = "finished" => ~Asks(Append(path, i), e)
           /\ e[i].kind \notin {"user", "finished"} =>
                (Asks(Append(path, i), e) <=> Asks(path, e))
  <1> DEFINE more == Append(path, i)
             n == Len(path) + 1
  <1>1. /\ Len(path) \in Nat /\ DOMAIN path = 1..Len(path) /\ DOMAIN more = 1..n
        /\ \A k \in DOMAIN path : more[k] = path[k]
        /\ more[n] = i
    BY AppendProperties, LenProperties
  <1> HIDE DEF more
  <1>2. /\ n \in DOMAIN more /\ \A k \in DOMAIN more : ~(k > n)
        /\ \A k \in DOMAIN more : k = n \/ (k \in DOMAIN path /\ n > k /\ more[k] = path[k])
        /\ \A k \in DOMAIN path : k \in DOMAIN more
    <2>1. n \in DOMAIN more /\ \A k \in DOMAIN more : ~(k > n)
      BY <1>1
    <2>2. \A k \in DOMAIN path : k \in DOMAIN more
      BY <1>1
    <2>3. \A k \in DOMAIN more : k = n \/ (k \in DOMAIN path /\ n > k)
      BY <1>1
    <2> HIDE DEF n
    <2> QED BY <1>1, <2>1, <2>2, <2>3
  <1> HIDE DEF n
  <1>3. ASSUME e[i].kind = "user"
        PROVE  Asks(more, e)
    BY <1>1, <1>2, <1>3 DEF Asks
  <1>4. ASSUME e[i].kind = "finished", Asks(more, e)
        PROVE  FALSE
    <2>1. PICK k \in DOMAIN more :
             /\ e[more[k]].kind = "user"
             /\ \A j \in DOMAIN more : j > k => e[more[j]].kind \notin {"user", "finished"}
      BY <1>4 DEF Asks
    <2>2. k # n
      BY <1>1, <1>4, <2>1
    <2> QED BY <1>1, <1>2, <1>4, <2>1, <2>2
  <1>5. ASSUME e[i].kind \notin {"user", "finished"}
        PROVE  Asks(more, e) <=> Asks(path, e)
    <2>1. ASSUME Asks(more, e)
          PROVE  Asks(path, e)
      <3>1. PICK k \in DOMAIN more :
               /\ e[more[k]].kind = "user"
               /\ \A j \in DOMAIN more : j > k => e[more[j]].kind \notin {"user", "finished"}
        BY <2>1 DEF Asks
      <3>2. k \in DOMAIN path /\ more[k] = path[k]
        BY <1>1, <1>2, <1>5, <3>1
      <3>3. \A j \in DOMAIN path : j > k => e[path[j]].kind \notin {"user", "finished"}
        BY <1>1, <1>2, <3>1
      <3> QED BY <3>1, <3>2, <3>3 DEF Asks
    <2>2. ASSUME Asks(path, e)
          PROVE  Asks(more, e)
      <3>1. PICK k \in DOMAIN path :
               /\ e[path[k]].kind = "user"
               /\ \A j \in DOMAIN path : j > k => e[path[j]].kind \notin {"user", "finished"}
        BY <2>2 DEF Asks
      <3>2. k \in DOMAIN more /\ e[more[k]].kind = "user"
        BY <1>1, <1>2, <3>1
      <3>3. ASSUME NEW j \in DOMAIN more, j > k
            PROVE  e[more[j]].kind \notin {"user", "finished"}
        BY <1>1, <1>2, <1>5, <3>1, <3>3
      <3> QED BY <3>2, <3>3 DEF Asks
    <2> QED BY <2>1, <2>2
  <1> QED BY <1>3, <1>4, <1>5 DEF more

(* What a rotated log carries leaves the same turn open: the tail begins   *)
(* with the path or with a user message.                                   *)
LEMMA AsksCarried ==
    \A path \in Seq(Ids) : \A start \in DOMAIN path :
        start = 1 \/ Kind(path[start]) = "user" =>
            (Asks(Carried(path, start), entry) <=> Asks(path, entry))
  <1> SUFFICES ASSUME NEW path \in Seq(Ids), NEW start \in DOMAIN path,
                      start = 1 \/ Kind(path[start]) = "user"
               PROVE  Asks(Carried(path, start), entry) <=> Asks(path, entry)
    OBVIOUS
  <1> DEFINE finished == LastAt(path, OfKind({"finished"}))
             tail == SubSeq(path, start, Len(path))
             has == finished < start /\ finished # 0
             lead == IF has THEN <<path[finished]>> ELSE <<>>
             p == IF has THEN 1 ELSE 0
             all == lead \o tail
             asking(k) == entry[path[k]].kind = "user"
             later(k) == entry[path[k]].kind \notin {"user", "finished"}
  <1>1. Carried(path, start) = all
    BY Selections DEF Carried
  <1>2. Len(path) \in Nat /\ DOMAIN path = 1..Len(path) /\ start \in 1..Len(path)
    OBVIOUS
  <1>3. finished # 0 => finished \in DOMAIN path /\ entry[path[finished]].kind = "finished"
    BY SelectedPlaces DEF OfKind, Kind
  <1>4. /\ tail \in Seq(Ids) /\ Len(tail) = Len(path) - start + 1
        /\ \A k \in 1..Len(tail) : tail[k] = path[start + k - 1]
    BY <1>2, SubSeqProperties
  <1> HIDE DEF finished, tail
  <1>5. /\ lead \in Seq(Ids) /\ Len(lead) = p
        /\ has => lead[1] = path[finished]
    <2>1. CASE has
      <3>1. path[finished] \in Ids
        BY <1>3, <2>1
      <3> QED BY <2>1, <3>1
    <2>2. CASE ~has
      BY <2>2
    <2> QED BY <2>1, <2>2
  <1>6. /\ Len(all) = p + Len(tail)
        /\ \A k \in 1..(p + Len(tail)) : all[k] = IF k <= p THEN lead[k] ELSE tail[k - p]
        /\ DOMAIN all = 1..(p + Len(tail))
    <2> HIDE DEF lead, p
    <2>1. /\ all \in Seq(Ids) /\ Len(all) = Len(lead) + Len(tail)
          /\ \A k \in 1..(Len(lead) + Len(tail)) :
               all[k] = IF k <= Len(lead) THEN lead[k] ELSE tail[k - Len(lead)]
      BY <1>4, <1>5, ConcatProperties
    <2> QED BY <1>5, <2>1, LenProperties
  <1>7. p \in {0, 1} /\ (p = 1 => has)
    OBVIOUS
  <1> HIDE DEF lead, p, all, has
  (* The tail of the path is the end of what is carried. *)
  <1>8. ASSUME NEW k \in DOMAIN path, k >= start
        PROVE  /\ k - start + 1 + p \in DOMAIN all
               /\ all[k - start + 1 + p] = path[k]
    <2> DEFINE j == k - start + 1
    <2>1. j \in 1..Len(tail) /\ tail[j] = path[k] /\ start + j - 1 = k
      BY <1>2, <1>4, <1>8
    <2>2. j + p \in 1..(p + Len(tail)) /\ ~(j + p <= p) /\ (j + p) - p = j
      BY <1>2, <1>4, <1>7, <2>1
    <2>3. all[j + p] = tail[j]
      BY <1>6, <2>2
    <2> QED BY <1>6, <2>1, <2>2, <2>3
  <1>9. ASSUME NEW j \in DOMAIN all
        PROVE  \/ /\ p = 1 /\ j = 1 /\ entry[all[j]].kind = "finished"
               \/ /\ j > p /\ j - p + start - 1 \in DOMAIN path /\ j - p + start - 1 >= start
                  /\ all[j] = path[j - p + start - 1]
    <2>1. j \in 1..(p + Len(tail))
      BY <1>6
    <2>2. CASE j <= p
      <3>1. p = 1 /\ j = 1 /\ all[j] = lead[1]
        BY <1>6, <1>7, <2>1, <2>2
      <3> QED BY <1>3, <1>5, <1>7, <3>1 DEF has
    <2>3. CASE ~(j <= p)
      <3>1. /\ j - p \in 1..Len(tail) /\ j > p /\ all[j] = tail[j - p]
            /\ start + (j - p) - 1 = j - p + start - 1
        <4>1. j \in Nat /\ p \in Nat /\ Len(tail) \in Nat /\ j <= p + Len(tail)
          BY <1>2, <1>4, <1>7, <2>1
        <4>2. j > p /\ j - p \in 1..Len(tail)
          BY <2>3, <4>1
        <4>3. all[j] = tail[j - p]
          BY <1>6, <2>1, <2>3
        <4>4. start + (j - p) - 1 = j - p + start - 1
          BY <1>2, <4>1
        <4> QED BY <4>2, <4>3, <4>4
      <3>2. tail[j - p] = path[start + (j - p) - 1]
        BY <1>4, <3>1
      <3>3. j - p + start - 1 \in DOMAIN path /\ j - p + start - 1 >= start
        BY <1>2, <1>4, <3>1
      <3> QED BY <3>1, <3>2, <3>3
    <2> QED BY <2>2, <2>3
  <1>10. ASSUME Asks(all, entry)
         PROVE  Asks(path, entry)
    <2>1. PICK k \in DOMAIN all :
             /\ entry[all[k]].kind = "user"
             /\ \A j \in DOMAIN all : j > k => entry[all[j]].kind \notin {"user", "finished"}
      BY <1>10 DEF Asks
    <2> DEFINE at == k - p + start - 1
    <2>2. at \in DOMAIN path /\ at >= start /\ asking(at) /\ k \in Nat
      BY <1>6, <1>9, <2>1
    <2>3. ASSUME NEW j \in DOMAIN path, j > at
          PROVE  later(j)
      <3>1. j >= start
        BY <1>2, <2>2, <2>3
      <3>2. /\ j - start + 1 + p \in DOMAIN all
            /\ all[j - start + 1 + p] = path[j]
        BY <1>8, <3>1
      <3>3. j - start + 1 + p > k
        BY <1>2, <1>7, <2>2, <2>3
      <3> QED BY <2>1, <3>2, <3>3
    <2> QED BY <2>2, <2>3 DEF Asks
  <1>11. ASSUME Asks(path, entry)
         PROVE  Asks(all, entry)
    <2>1. PICK k \in DOMAIN path :
             /\ asking(k) /\ \A j \in DOMAIN path : j > k => later(j)
      BY <1>11 DEF Asks
    <2>2. k >= start
      <3>1. CASE start = 1
        BY <1>2, <3>1
      <3>2. CASE Kind(path[start]) = "user"
        <4>1. ~(start > k)
          BY <2>1, <3>2 DEF Kind
        <4> QED BY <1>2, <4>1
      <3> QED BY <3>1, <3>2
    <2> DEFINE at == k - start + 1 + p
    <2>3. at \in DOMAIN all /\ all[at] = path[k]
      BY <1>8, <2>2
    <2>4. ASSUME NEW j \in DOMAIN all, j > at
          PROVE  entry[all[j]].kind \notin {"user", "finished"}
      <3>1. j \in Nat /\ ~(j = 1 /\ p = 1)
        BY <1>2, <1>6, <1>7, <2>2, <2>4
      <3>2. /\ j - p + start - 1 \in DOMAIN path
            /\ all[j] = path[j - p + start - 1]
        BY <1>9, <3>1
      <3>3. j - p + start - 1 > k
        BY <1>2, <1>7, <2>4, <3>1
      <3> QED BY <2>1, <3>2, <3>3
    <2> QED BY <2>1, <2>3, <2>4 DEF Asks
  <1> QED BY <1>1, <1>10, <1>11

(* Entries chained as lines are the path to the last of them.              *)
LEMMA ChainedPath ==
    ASSUME NEW ids \in Seq(Ids), Rising(ids), ids # <<>>
    PROVE  Path(Chained(ids), Last(ids)) = ids
  <1> DEFINE lines == Chained(ids)
             n == Len(ids)
  <1>1. /\ n \in Nat /\ n >= 1 /\ DOMAIN ids = 1..n /\ Last(ids) = ids[n]
    BY LenProperties, EmptySeq DEF Last
  <1>2. /\ lines \in Seq(Lines) /\ Proper(lines) /\ Len(lines) = n
        /\ \A k \in DOMAIN ids : /\ lines[k].id = ids[k]
                                 /\ lines[k].parent = IF k = 1 THEN 0 ELSE ids[k - 1]
    BY ChainedProper
  <1> HIDE DEF lines
  <1>3. DOMAIN lines = 1..n
    BY <1>2, LenProperties
  <1>4. \A k \in 1..n : /\ ids[k] \in Ids /\ ids[k] # 0
                        /\ Has(lines, ids[k]) /\ Parent(lines, ids[k]) = lines[k].parent
    <2> TAKE k \in 1..n
    <2>1. ids[k] \in Ids /\ ids[k] # 0
      BY <1>1, ElementOfSeq, IdsPositive
    <2>2. lines[k].id = ids[k] /\ k \in DOMAIN lines
      BY <1>1, <1>2, <1>3
    <2>3. Has(lines, lines[k].id) /\ Parent(lines, lines[k].id) = lines[k].parent
      BY <1>2, <2>2, ParentOf
    <2> QED BY <2>1, <2>2, <2>3
  <1> DEFINE part(k) == SubSeq(ids, 1, k)
             S == {k \in 0..n : k # 0 => Path(lines, ids[k]) = part(k)}
  <1>5. ASSUME NEW k \in 0..n, \A j \in 0..n : j < k => j \in S
        PROVE  k \in S
    <2>1. CASE k = 0
      BY <2>1
    <2>2. CASE k # 0
      <3>1. k \in 1..n /\ k \in Nat
        BY <2>2
      <3>2. Path(lines, ids[k]) = Append(Path(lines, lines[k].parent), ids[k])
        BY <1>2, <1>4, <3>1, PathFacts
      <3>3. CASE k = 1
        <4>1. lines[k].parent = 0
          BY <1>1, <1>2, <3>1, <3>3
        <4>2. Path(lines, 0) = <<>>
          BY <1>2, PathFacts
        <4>3. Path(lines, ids[1]) = <<ids[1]>>
          <5> DEFINE x == ids[1]
          <5>1. Path(lines, x) = Append(<<>>, x)
            BY <3>2, <3>3, <4>1, <4>2
          <5> HIDE DEF x
          <5>2. Append(<<>>, x) = <<x>>
            OBVIOUS
          <5> QED BY <5>1, <5>2 DEF x
        <4>4. part(1) = <<ids[1]>>
          <5>1. /\ part(1) \in Seq(Ids) /\ Len(part(1)) = 1 /\ part(1)[1] = ids[1]
            BY <1>1, SubSeqProperties
          <5> HIDE DEF part
          <5>2. DOMAIN part(1) = 1..1
            BY <5>1, LenProperties
          <5> QED BY <5>1, <5>2
        <4> QED BY <3>1, <3>3, <4>3, <4>4
      <3>4. CASE k # 1
        <4>1. k - 1 \in 0..n /\ k - 1 < k /\ k - 1 # 0 /\ k - 1 \in Nat
          BY <3>1, <3>4
        <4>2. Path(lines, ids[k - 1]) = part(k - 1)
          BY <1>5, <4>1
        <4>3. lines[k].parent = ids[k - 1]
          BY <1>1, <1>2, <3>1, <3>4
        <4>4. part(k) = Append(part(k - 1), ids[k])
          BY <1>1, <3>1, <4>1
        <4> QED BY <3>1, <3>2, <4>2, <4>3, <4>4
      <3> QED BY <3>3, <3>4
    <2> QED BY <2>1, <2>2
  <1> HIDE DEF S
  <1>6. n \in S
    <2>1. \A k \in 0..n : (\A j \in 0..n : j < k => j \in S) => k \in S
      BY <1>5
    <2>2. n \in Nat /\ n \in 0..n
      BY <1>1
    <2> HIDE DEF n
    <2> QED BY <2>1, <2>2, UpTo
  <1>7. Path(lines, ids[n]) = SubSeq(ids, 1, n)
    BY <1>1, <1>6 DEF S
  <1>8. SubSeq(ids, 1, n) = ids
    BY <1>1
  <1> QED BY <1>1, <1>7, <1>8 DEF lines

-----------------------------------------------------------------------------
(* What a restart reads of the turn: the invariant.                        *)

(* The path to the last of the lines, as a restart takes it.               *)
Reads(lines) == Path(lines, LeafOf(lines))

(* A path whose turn is the one that the log says.                         *)
Tells(path) == turn # "unknown" => (Asks(path, entry) <=> turn = "running")

(* Two managers have the session open only in histories that are upset.    *)
Alone == \A m, o \in Managers : mem[m].up /\ mem[o].up => m = o

(* A turn is on record only in a log. *)
NothingRuns == newest = 0 => turn # "running"

FoundTells == newest # 0 => Tells(Reads(Parsed(disk[Resolve(newest)])))

(* The log that a manager appends to says the same as its memory, until a  *)
(* write fails.  A CLI session that has not written yet has no reply.      *)
ManagerTells(m) ==
    LET log == disk[mem[m].log]
        lines == mem[m].lines
    IN  /\ mem[m].flushed => newest # 0 /\ Tells(Reads(Parsed(log)))
        /\ ~mem[m].failed =>
             /\ mem[m].leaf # LeafOf(lines) => turn = "unknown"
             /\ mem[m].flushed => Parsed(log) = lines /\ log.torn = FALSE
             /\ ~mem[m].flushed =>
                  /\ newest = 0 /\ (waits \/ lines = <<>>)
                  /\ \A k \in DOMAIN lines : Kind(lines[k].id) \in {"user", "finished"}

SteadyInv ==
    steady => /\ Alone /\ NothingRuns /\ FoundTells
              /\ \A m \in Managers : mem[m].up => ManagerTells(m)

(* A manager is not overtaken by another one while the history is steady.  *)
LEMMA CheckUpset ==
    ASSUME SteadyInv, NEW m \in Managers, Check(m)
    PROVE  ~steady /\ ~steady'
  <1>1. mem[m].up /\ Others(m) # {} /\ steady' = steady
    BY DEF Check
  <1>2. PICK o \in Managers \ {m} : mem[o].up
    BY <1>1 DEF Others
  <1>3. ~steady
    BY <1>1, <1>2 DEF SteadyInv, Alone
  <1> QED BY <1>1, <1>3

LEMMA ReadsFacts ==
    ASSUME NEW lines \in Seq(Lines), Proper(lines), NEW b \in Nat,
           \A k \in DOMAIN lines : lines[k].id <= b
    PROVE  Reads(lines) \in Seq(Ids) /\ \A k \in DOMAIN Reads(lines) : Reads(lines)[k] <= b
  <1>1. LeafOf(lines) \in Ids \cup {0} /\ LeafOf(lines) <= b
    BY LeafFacts
  <1> DEFINE path == Path(lines, LeafOf(lines))
  <1>2. path \in Seq(Ids)
    BY <1>1, PathFacts
  <1>3. \A k \in DOMAIN path : path[k] <= LeafOf(lines)
    BY <1>1, PathRises
  <1> HIDE DEF path
  <1>4. \A k \in DOMAIN path : path[k] <= b
    <2>1. \A k \in DOMAIN path : path[k] \in Nat /\ LeafOf(lines) \in Nat
      BY <1>1, <1>2, ElementOfSeq, IdsPositive
    <2> QED BY <1>1, <1>3, <2>1
  <1> QED BY <1>2, <1>4 DEF Reads, path

LEMMA LogReads ==
    ASSUME TypeInv, NEW n \in Logs
    PROVE  LET path == Reads(Parsed(disk[n])) IN
           /\ path \in Seq(Ids) /\ \A k \in DOMAIN path : path[k] <= next
           /\ Parsed(disk[n]) \in Seq(Lines) /\ Proper(Parsed(disk[n]))
           /\ \A k \in DOMAIN Parsed(disk[n]) : Parsed(disk[n])[k].id <= next
  <1>1. LogInv(n, disk[n], next) /\ next \in Nat
    BY DEF TypeInv, TypeOK, LinesInv
  <1>2. disk[n].lines \in Seq(Lines) /\ Readable(disk[n], next)
    BY <1>1 DEF LogInv, Log
  <1>3. /\ Parsed(disk[n]) \in Seq(Lines) /\ Proper(Parsed(disk[n]))
        /\ \A k \in DOMAIN Parsed(disk[n]) : Parsed(disk[n])[k].id <= next
    BY <1>2, ParsedReadable
  <1> QED BY <1>1, <1>3, ReadsFacts

(* The new entry does not change what earlier ones say.                    *)
LEMMA AsksKept ==
    ASSUME TypeInv, entry' = entry \/ \A j \in Ids : j # next + 1 => entry'[j] = entry[j],
           NEW path \in Seq(Ids), \A k \in DOMAIN path : path[k] <= next
    PROVE  Asks(path, entry') <=> Asks(path, entry)
  <1>1. \A k \in DOMAIN path : path[k] \in Ids /\ path[k] # next + 1
    <2>1. \A k \in DOMAIN path : path[k] \in Ids /\ path[k] \in Nat /\ next \in Nat
      BY ElementOfSeq, IdsPositive DEF TypeInv, TypeOK
    <2> QED BY <2>1
  <1>2. \A k \in DOMAIN path : entry'[path[k]].kind = entry[path[k]].kind
    BY <1>1
  <1> QED BY <1>2, AsksSame

(* The path to an entry that is appended. *)
LEMMA AppendedReads ==
    ASSUME TypeInv, NEW m \in Managers,
           NEW k \in Kinds, NEW kept \in Ids \cup {0}, NEW covers \in SUBSET Ids,
           NewEntry(m, k, kept, covers)
    PROVE  LET lines == Extended(m, next + 1).lines
               path == Path(mem[m].lines, mem[m].leaf)
           IN  /\ Reads(lines) = Append(path, next + 1) /\ LeafOf(lines) = next + 1
               /\ path \in Seq(Ids) /\ next + 1 \in Ids
               /\ \A j \in Ids : j # next + 1 => entry'[j] = entry[j]
               /\ k = "user" => Asks(Reads(lines), entry')
               /\ k = "finished" => ~Asks(Reads(lines), entry')
               /\ k \notin {"user", "finished"} =>
                    (Asks(Reads(lines), entry') <=> Asks(path, entry))
  <1> DEFINE i == next + 1
             line == Line(i, mem[m].leaf)
             lines == Extended(m, next + 1).lines
             path == Path(mem[m].lines, mem[m].leaf)
  <1>1. /\ i \in Ids /\ next \in Nat /\ lines = Append(mem[m].lines, line)
        /\ \A j \in Ids : j # i => entry'[j] = entry[j]
        /\ entry'[i].kind = k
    <2>1. /\ i \in Ids /\ next \in Nat /\ lines = Append(mem[m].lines, line)
          /\ \A j \in Ids : j # i => entry'[j] = entry[j]
      BY EntryMade
    <2>2. entry'[i] = [kind |-> k, parent |-> mem[m].leaf, kept |-> kept, covers |-> covers]
      BY EntryMade
    <2> QED BY <2>1, <2>2
  <1>2. /\ mem[m].lines \in Seq(Lines) /\ Proper(mem[m].lines)
        /\ mem[m].leaf \in Ids \cup {0} /\ mem[m].leaf < i
        /\ \A j \in DOMAIN mem[m].lines : mem[m].lines[j].id < i
    <2>1. /\ mem[m].lines \in Seq(Lines) /\ Proper(mem[m].lines)
          /\ mem[m].leaf \in Ids \cup {0} /\ mem[m].leaf <= next
          /\ \A j \in DOMAIN mem[m].lines : mem[m].lines[j].id <= next
      BY DEF TypeInv, TypeOK, LinesInv, MemoryInv, Memory
    <2>2. \A j \in DOMAIN mem[m].lines : mem[m].lines[j].id \in Nat
      BY <2>1, IdsPositive DEF Proper
    <2>3. mem[m].leaf \in Nat
      BY <2>1, IdsPositive
    <2> QED BY <1>1, <2>1, <2>2, <2>3
  <1>3. Path(Append(mem[m].lines, line), i) = Append(path, i)
    BY <1>1, <1>2, PathAppend
  <1>4. line \in Lines /\ line.id = i
    BY <1>1, <1>2 DEF Line, Lines
  <1>5. LeafOf(lines) = i
    <2>1. Last(Append(mem[m].lines, line)) = line /\ Append(mem[m].lines, line) # <<>>
      BY <1>2, <1>4, LastAppended
    <2> QED BY <1>1, <1>4, <2>1 DEF LeafOf
  <1>6. /\ path \in Seq(Ids) /\ \A j \in DOMAIN path : path[j] <= next
    BY OwnPath
  <1> HIDE DEF path, lines, line
  <1>7. Reads(lines) = Append(path, i)
    BY <1>1, <1>3, <1>5 DEF Reads
  <1>8. Asks(path, entry') <=> Asks(path, entry)
    BY <1>1, <1>6, AsksKept
  <1> HIDE DEF i
  <1>9. /\ k = "user" => Asks(Append(path, i), entry')
        /\ k = "finished" => ~Asks(Append(path, i), entry')
        /\ k \notin {"user", "finished"} =>
             (Asks(Append(path, i), entry') <=> Asks(path, entry'))
    BY <1>1, <1>6, AsksAppend
  <1> QED BY <1>1, <1>5, <1>6, <1>7, <1>8, <1>9 DEF lines, path, i

(* As long as no write has failed, what is written is the memory.          *)
LEMMA WrittenWhole ==
    ASSUME TypeInv, NEW m \in Managers, ManagerTells(m), ~mem[m].failed,
           NEW k \in Kinds, NEW kept \in Ids \cup {0}, NEW covers \in SUBSET Ids,
           NewEntry(m, k, kept, covers), NEW prune \in BOOLEAN
    PROVE  Parsed(Compacted(m, Extended(m, next + 1), prune)) = Extended(m, next + 1).lines
  <1> DEFINE log == Compacted(m, Extended(m, next + 1), prune)
             line == Line(next + 1, mem[m].leaf)
  <1>1. /\ mem[m].flushed /\ ~prune /\ ~disk[mem[m].log].torn =>
             Parsed(log) = Append(Parsed(disk[mem[m].log]), line)
        /\ ~mem[m].flushed \/ prune => Parsed(log) = Extended(m, next + 1).lines
    BY EntryWritten
  <1>2. Extended(m, next + 1).lines = Append(mem[m].lines, line)
    BY EntryMade
  <1> HIDE DEF log, line
  <1>3. mem[m].flushed => Parsed(disk[mem[m].log]) = mem[m].lines /\ ~disk[mem[m].log].torn
    BY DEF ManagerTells
  <1> QED BY <1>1, <1>2, <1>3 DEF log

(* A step that changes no log, no entry and no turn, and opens no session. *)
LEMMA QuietTells ==
    ASSUME TypeInv, SteadyInv, steady' => steady,
           UNCHANGED <<disk, newest, entry, waits, turn>>,
           \A m \in Managers : mem'[m].up => mem[m].up /\ mem'[m] = mem[m]
    PROVE  SteadyInv'
  <1> SUFFICES ASSUME steady'
               PROVE  (/\ Alone /\ NothingRuns /\ FoundTells
                       /\ \A m \in Managers : mem[m].up => ManagerTells(m))'
    BY DEF SteadyInv
  <1>1. /\ Alone /\ NothingRuns /\ FoundTells
        /\ \A m \in Managers : mem[m].up => ManagerTells(m)
    BY DEF SteadyInv
  <1>2. Alone'
    BY <1>1 DEF Alone
  <1>3. NothingRuns'
    BY <1>1 DEF NothingRuns
  <1>4. FoundTells'
    <2>1. Resolve(newest)' = Resolve(newest)
      BY DEF Resolve
    <2> QED BY <1>1, <2>1 DEF FoundTells, Tells
  <1>5. ASSUME NEW m \in Managers, mem'[m].up
        PROVE  ManagerTells(m)'
    <2>1. ManagerTells(m) /\ mem'[m] = mem[m]
      BY <1>1, <1>5
    <2> QED BY <2>1 DEF ManagerTells, Tells, Kind
  <1> QED BY <1>2, <1>3, <1>4, <1>5

(* A step of the only manager that is up. *)
LEMMA OwnTells ==
    ASSUME TypeInv, NEW m \in Managers, NEW memory, mem' = [mem EXCEPT ![m] = memory],
           \A o \in Managers : o # m => ~mem[o].up,
           NothingRuns', FoundTells', ManagerTells(m)'
    PROVE  SteadyInv'
  <1>1. \A o \in Managers : o # m => mem'[o] = mem[o]
    BY DEF TypeInv, TypeOK
  <1>2. Alone'
    BY <1>1 DEF Alone
  <1>3. (\A o \in Managers : mem[o].up => ManagerTells(o))'
    <2> SUFFICES ASSUME NEW o \in Managers, mem'[o].up PROVE ManagerTells(o)'
      OBVIOUS
    <2>1. o = m
      BY <1>1
    <2> QED BY <2>1
  <1> QED BY <1>2, <1>3 DEF SteadyInv

(* What is read is the path of log n, if n is open and the newest.         *)
LEMMA FoundIn ==
    ASSUME TypeInv', newest' \in Logs, ~Closed(disk'[newest']), newest' # 0
    PROVE  FoundTells' <=> Tells(Reads(Parsed(disk[newest])))'
  <1>1. Resolve(newest)' = newest'
    BY ResolveNext
  <1> QED BY <1>1 DEF FoundTells, Tells

LEMMA NoLogZero == 0 \notin Logs
  BY BoundsAssumption DEF Logs

LEMMA CreateTells ==
    ASSUME TypeInv, SteadyInv, NEW m \in Managers, Create(m)
    PROVE  SteadyInv'
  <1>1. /\ newest = 0 /\ \A o \in Managers : ~mem[o].up
        /\ mem' = [mem EXCEPT ![m] = NewSession]
        /\ UNCHANGED <<disk, newest, entry, waits, turn, steady>>
    BY DEF Create
  <1> SUFFICES ASSUME steady' PROVE SteadyInv'
    BY DEF SteadyInv
  <1>2. NothingRuns
    BY <1>1 DEF SteadyInv
  <1>3. NothingRuns' /\ FoundTells'
    BY <1>1, <1>2 DEF NothingRuns, FoundTells
  <1>4. mem'[m] = NewSession
    BY <1>1 DEF TypeInv, TypeOK
  <1>5. /\ ~NewSession.flushed /\ NewSession.lines = <<>> /\ NewSession.leaf = 0
        /\ LeafOf(<<>>) = 0 /\ DOMAIN <<>> = {}
    BY DEF NewSession, LeafOf
  <1>6. ManagerTells(m)'
    BY <1>1, <1>4, <1>5 DEF ManagerTells
  <1> QED BY <1>1, <1>3, <1>6, OwnTells

LEMMA OpenTells ==
    ASSUME TypeInv, TypeInv', SteadyInv, NEW m \in Managers, Open(m)
    PROVE  SteadyInv'
  <1> SUFFICES ASSUME steady' PROVE SteadyInv'
    BY DEF SteadyInv
  <1> DEFINE log == Resolve(newest)
             lines == Parsed(disk[log])
             unclosed == Unclosed(Path(lines, LeafOf(lines)))
             memory == Opened(log, lines, LeafOf(lines), unclosed)
  <1>1. steady /\ Others(m) = {}
    BY Zenon DEF Open, Upset
  <1>2. /\ newest # 0 /\ disk[newest].exists
        /\ disk' = [disk EXCEPT ![log] = Terminated(@)]
        /\ newest' = IF disk[log].torn THEN log ELSE newest
        /\ mem' = [mem EXCEPT ![m] = memory]
        /\ entry' = entry /\ turn' = turn
    BY <1>1, Zenon DEF Open, Opened
  <1>3. newest \in Logs
    BY <1>2 DEF TypeInv, TypeOK
  <1>4. /\ log \in Logs /\ ~Closed(disk[log])
        /\ (~Closed(disk[newest]) => log = newest)
    BY <1>3, ResolveFacts
  <1>5. Tells(Reads(lines)) /\ NothingRuns
    BY <1>1, <1>2 DEF SteadyInv, FoundTells
  <1>6. \A o \in Managers : o # m => ~mem[o].up
    BY <1>1 DEF Others
  <1>7. lines \in Seq(Lines) /\ Proper(lines)
    BY <1>4, LogReads
  <1>8. LeafOf(lines) \in Ids \cup {0}
    <2>1. next \in Nat /\ \A k \in DOMAIN lines : lines[k].id <= next
      BY <1>4, LogReads DEF TypeInv, TypeOK
    <2> QED BY <1>7, <2>1, LeafFacts
  <1>9. disk' = [disk EXCEPT ![log] = Terminated(disk[log])] /\ disk \in [Logs -> Log]
    BY <1>2 DEF TypeInv, TypeOK
  <1> HIDE DEF log
  <1>10. /\ Terminated(disk[log]).torn = FALSE
         /\ Parsed(Terminated(disk[log])) = lines
         /\ ~Closed(Terminated(disk[log]))
    <2>1. LogInv(log, disk[log], next) /\ next \in Nat
      BY <1>4 DEF TypeInv, TypeOK, LinesInv
    <2> QED BY <1>4, <2>1, TornEnded
  <1>11. disk'[log] = Terminated(disk[log])
    BY <1>4, <1>9
  <1> HIDE DEF lines
  <1>12. unclosed \in BOOLEAN
    BY DEF Unclosed
  <1> HIDE DEF unclosed
  <1>13. /\ memory.lines = lines /\ memory.leaf = LeafOf(lines) /\ memory.log = log
         /\ memory.flushed
    BY <1>4, <1>7, <1>8, <1>12, OpenedMemory
  <1> HIDE DEF memory
  <1>14. mem'[m] = memory
    BY <1>2 DEF TypeInv, TypeOK
  <1>15. newest' # 0 /\ newest' \in Logs
    BY <1>2, <1>3, <1>4, NoLogZero
  <1>16. NothingRuns'
    BY <1>15 DEF NothingRuns
  <1>17. /\ turn' # "unknown" => (Asks(Reads(lines), entry') <=> turn' = "running")
         /\ Parsed(disk'[log]) = lines
    BY <1>2, <1>5, <1>10, <1>11 DEF Tells
  <1>18. FoundTells'
    <2>1. CASE disk[log].torn
      <3>1. newest' = log
        BY <1>2, <2>1
      <3>2. ~Closed(disk'[newest'])
        BY <1>10, <1>11, <3>1
      <3>3. Tells(Reads(Parsed(disk[newest])))'
        BY <1>2, <1>5, <1>10, <1>11, <3>1 DEF Tells
      <3> QED BY <1>15, <3>2, <3>3, FoundIn
    <2>2. CASE ~disk[log].torn
      <3>1. newest' = newest
        BY <1>2, <2>2
      <3>2. Terminated(disk[log]) = disk[log]
        <4>1. disk[log] \in Log
          BY <1>4, <1>9
        <4> QED BY <2>2, <4>1 DEF Terminated, Log
      <3>3. disk' = disk
        BY <1>4, <1>9, <3>2
      <3>4. Resolve(newest)' = Resolve(newest)
        BY <3>1, <3>3 DEF Resolve
      <3> QED BY <1>2, <1>5, <3>1, <3>3, <3>4 DEF FoundTells, Tells, lines, log
    <2> QED BY <2>1, <2>2
  <1>19. ManagerTells(m)'
    <2>1. mem'[m].flushed /\ mem'[m].log = log /\ mem'[m].lines = lines
          /\ mem'[m].leaf = LeafOf(lines)
      BY <1>13, <1>14
    <2>2. Parsed(disk'[mem'[m].log]) = lines /\ disk'[mem'[m].log].torn = FALSE
      BY <1>10, <1>11, <1>17, <2>1
    <2>3. Tells(Reads(Parsed(disk[mem[m].log])))'
      BY <1>17, <2>2 DEF Tells
    <2> QED BY <1>15, <2>1, <2>2, <2>3 DEF ManagerTells
  <1> QED BY <1>2, <1>6, <1>16, <1>18, <1>19, OwnTells

LEMMA BranchTells ==
    ASSUME TypeInv, SteadyInv, NEW m \in Managers, Branch(m)
    PROVE  SteadyInv'
  <1> SUFFICES ASSUME steady' PROVE SteadyInv'
    BY DEF SteadyInv
  <1>1. PICK i : mem' = [mem EXCEPT ![m].leaf = i]
    BY Zenon DEF Branch
  <1>2. /\ steady /\ mem[m].up /\ turn' = "unknown"
        /\ UNCHANGED <<disk, newest, entry, waits>>
    BY DEF Branch
  <1>3. NothingRuns' /\ FoundTells'
    BY <1>2 DEF NothingRuns, FoundTells, Tells
  <1>4. \A o \in Managers : o # m => ~mem[o].up
    BY <1>2 DEF SteadyInv, Alone
  <1>5. ManagerTells(m)
    BY <1>2 DEF SteadyInv
  <1> DEFINE memory == [mem[m] EXCEPT !.leaf = i]
  <1>6. /\ memory.lines = mem[m].lines /\ memory.log = mem[m].log
        /\ memory.flushed = mem[m].flushed /\ memory.failed = mem[m].failed
    BY DEF TypeInv, TypeOK, Memory
  <1>7. mem' = [mem EXCEPT ![m] = memory] /\ mem'[m] = memory
    BY <1>1 DEF TypeInv, TypeOK
  <1> HIDE DEF memory
  <1>8. /\ mem'[m].lines = mem[m].lines /\ mem'[m].log = mem[m].log
        /\ mem'[m].flushed = mem[m].flushed /\ mem'[m].failed = mem[m].failed
    BY <1>6, <1>7
  <1>9. ManagerTells(m)'
    BY <1>2, <1>5, <1>8 DEF ManagerTells, Tells, Kind
  <1> QED BY <1>3, <1>4, <1>7, <1>9, OwnTells

(* After a successful write of all that is in memory, what is read says    *)
(* what the memory says.                                                   *)
LEMMA WrittenTells ==
    ASSUME TypeInv, TypeInv', NEW m \in Managers, NEW memory, NEW log,
           mem[m].log \in Logs, mem' = [mem EXCEPT ![m] = memory],
           disk' = [disk EXCEPT ![mem[m].log] = log], newest' = mem[m].log,
           \A o \in Managers : o # m => ~mem[o].up,
           Parsed(log) = memory.lines, log.torn = FALSE, ~Closed(log),
           memory.log = mem[m].log, memory.flushed, memory.leaf = LeafOf(memory.lines),
           turn' # "unknown" => (Asks(Reads(memory.lines), entry') <=> turn' = "running")
    PROVE  SteadyInv'
  <1>1. mem'[m] = memory /\ disk'[mem[m].log] = log
    BY DEF TypeInv, TypeOK
  <1>2. newest' # 0 /\ newest' \in Logs /\ ~Closed(disk'[newest'])
    BY <1>1, NoLogZero
  <1>3. Tells(Reads(Parsed(disk[newest])))'
    BY <1>1 DEF Tells
  <1>4. NothingRuns' /\ FoundTells'
    BY <1>2, <1>3, FoundIn DEF NothingRuns
  <1>5. mem'[m].log = mem[m].log /\ mem'[m].flushed /\ mem'[m].lines = memory.lines
        /\ mem'[m].leaf = LeafOf(mem'[m].lines)
    BY <1>1
  <1>6. Tells(Reads(Parsed(disk[mem[m].log])))'
    BY <1>3, <1>5 DEF Tells
  <1>7. disk'[mem'[m].log] = log /\ Parsed(log) = mem'[m].lines
    BY <1>1, <1>5
  <1>8. ManagerTells(m)'
    BY <1>2, <1>5, <1>6, <1>7 DEF ManagerTells
  <1> QED BY <1>4, <1>8, OwnTells

LEMMA AppendTells ==
    ASSUME TypeInv, TypeInv', SteadyInv, NEW m \in Managers,
           NEW k \in Kinds \ {"compaction"}, AppendEntry(m, k)
    PROVE  SteadyInv'
  <1> SUFFICES ASSUME steady' PROVE SteadyInv'
    BY DEF SteadyInv
  <1> DEFINE after == Extended(m, next + 1)
             log == Persisted(m, after)
             unclosed == after.unclosed /\ k # "finished"
             path == Path(mem[m].lines, mem[m].leaf)
  <1>1. /\ NewEntry(m, k, 0, {}) /\ Fits(m, k) /\ mem[m].up
        /\ waits' = waits
    BY DEF AppendEntry, MayWrite
  <1>2. /\ 0 \in Ids \cup {0} /\ {} \in SUBSET Ids /\ k \in Kinds /\ FALSE \in BOOLEAN
        /\ steady
    BY Zenon DEF AppendEntry, Upset
  <1>3. /\ MemoryInv(after, next + 1) /\ after.leaf = next + 1 /\ after.log = mem[m].log
        /\ after.failed = mem[m].failed /\ after.flushed = mem[m].flushed
        /\ after.lines = Append(mem[m].lines, Line(next + 1, mem[m].leaf))
    BY <1>1, <1>2, EntryMade
  <1>4. /\ LeafOf(after.lines) = next + 1 /\ path \in Seq(Ids)
        /\ \A j \in Ids : j # next + 1 => entry'[j] = entry[j]
        /\ k = "user" => Asks(Reads(after.lines), entry')
        /\ k = "finished" => ~Asks(Reads(after.lines), entry')
        /\ k \notin {"user", "finished"} =>
             (Asks(Reads(after.lines), entry') <=> Asks(path, entry))
    BY <1>1, <1>2, AppendedReads
  <1>5. ManagerTells(m) /\ \A o \in Managers : o # m => ~mem[o].up
    BY <1>1, <1>2 DEF SteadyInv, Alone
  <1>6. after \in Memory /\ mem[m].log \in Logs
    BY <1>3 DEF MemoryInv, TypeInv, TypeOK, Memory
  <1>7. CASE /\ disk' = [disk EXCEPT ![after.log] = log]
             /\ newest' = after.log /\ turn' = TurnAfter(k)
             /\ mem' = [mem EXCEPT ![m] =
                  [after EXCEPT !.flushed = TRUE, !.checked = log,
                                !.unclosed = unclosed]]
             /\ Upset(mem[m].failed) /\ resized' = resized \ {m}
    <2> DEFINE memory == [after EXCEPT !.flushed = TRUE, !.checked = log,
                                       !.unclosed = unclosed]
    <2>1. ~mem[m].failed
      BY <1>7, Zenon DEF Upset
    <2>2. Compacted(m, after, FALSE) = log
      BY DEF Compacted
    <2>3. Parsed(log) = after.lines
      <3>1. Parsed(Compacted(m, after, FALSE)) = after.lines
        BY <1>1, <1>2, <1>5, <2>1, WrittenWhole
      <3> QED BY <2>2, <3>1
    <2> HIDE DEF after
    <2>4. log.torn = FALSE /\ ~Closed(log)
      <3> HIDE DEF log
      <3>1. /\ Compacted(m, after, FALSE).torn = FALSE
            /\ ~Closed(Compacted(m, after, FALSE))
        BY <1>1, <1>2, EntryWritten DEF after
      <3> QED BY <2>2, <3>1
    <2> HIDE DEF log, unclosed
    <2>5. /\ memory.lines = after.lines /\ memory.leaf = after.leaf
          /\ memory.log = after.log /\ memory.flushed
      BY <1>6 DEF Memory
    <2>6. mem' = [mem EXCEPT ![m] = memory] /\ disk' = [disk EXCEPT ![mem[m].log] = log]
          /\ newest' = mem[m].log
      BY <1>3, <1>7
    <2> HIDE DEF memory
    <2>7. k = "reply" => Asks(path, entry)
      <3>1. k = "reply" => Unclosed(path)
        BY <1>1 DEF Fits
      <3> QED BY <1>4, <3>1, UnclosedAsks
    <2>8. turn' # "unknown" => (Asks(Reads(after.lines), entry') <=> turn' = "running")
      BY <1>4, <1>7, <2>7 DEF TurnAfter, Kinds
    <2>9. turn' # "unknown" => (Asks(Reads(memory.lines), entry') <=> turn' = "running")
      BY <2>5, <2>8
    <2>10. /\ memory.leaf = LeafOf(memory.lines) /\ Parsed(log) = memory.lines
           /\ memory.log = mem[m].log /\ memory.flushed
      BY <1>3, <1>4, <2>3, <2>5
    <2> QED BY <1>5, <1>6, <2>4, <2>6, <2>9, <2>10, WrittenTells
  <1>8. CASE /\ ~WritesNow(m, k)
             /\ mem' = [mem EXCEPT ![m] = [after EXCEPT !.unclosed = unclosed]]
             /\ UNCHANGED <<disk, newest, last, turn, steady, resized>>
    <2> DEFINE memory == [after EXCEPT !.unclosed = unclosed]
    <2>1. /\ waits /\ k # "reply" /\ ~mem[m].flushed
      BY <1>8 DEF WritesNow
    <2> HIDE DEF after, unclosed
    <2>2. /\ memory.lines = after.lines /\ memory.leaf = after.leaf
          /\ memory.log = after.log /\ memory.flushed = after.flushed
          /\ memory.failed = after.failed
      BY <1>6 DEF Memory
    <2>3. mem' = [mem EXCEPT ![m] = memory] /\ mem'[m] = memory
      BY <1>8 DEF TypeInv, TypeOK
    <2> HIDE DEF memory
    <2>4. /\ mem'[m].lines = after.lines /\ mem'[m].leaf = next + 1
          /\ mem'[m].log = mem[m].log /\ mem'[m].flushed = mem[m].flushed
          /\ mem'[m].failed = mem[m].failed
      BY <1>3, <2>2, <2>3
    <2>5. NothingRuns'
      BY <1>2, <1>8 DEF NothingRuns, SteadyInv
    <2>6. FoundTells'
      <3>1. Resolve(newest)' = Resolve(newest)
        BY <1>8 DEF Resolve
      <3> SUFFICES ASSUME newest # 0
                   PROVE  (turn' # "unknown" =>
                             (Asks(Reads(Parsed(disk[Resolve(newest)])), entry') <=>
                                turn' = "running"))
        BY <1>8, <3>1 DEF FoundTells, Tells
      <3>2. newest \in Logs
        BY DEF TypeInv, TypeOK
      <3>3. Resolve(newest) \in Logs
        BY <3>2, ResolveFacts
      <3> DEFINE found == Reads(Parsed(disk[Resolve(newest)]))
      <3>4. found \in Seq(Ids) /\ \A j \in DOMAIN found : found[j] <= next
        BY <3>3, LogReads
      <3>5. Tells(found)
        BY <1>2 DEF SteadyInv, FoundTells
      <3> HIDE DEF found
      <3>6. Asks(found, entry') <=> Asks(found, entry)
        BY <1>4, <3>4, AsksKept
      <3> QED BY <1>8, <3>5, <3>6 DEF Tells, found
    <2>7. ASSUME ~mem[m].failed
          PROVE  /\ newest' = 0 /\ waits'
                 /\ \A j \in DOMAIN after.lines :
                      entry'[after.lines[j].id].kind \in {"user", "finished"}
      <3> DEFINE line == Line(next + 1, mem[m].leaf)
                 old == mem[m].lines
      <3>1. /\ newest = 0
            /\ \A j \in DOMAIN old : entry[old[j].id].kind \in {"user", "finished"}
        BY <1>5, <2>1, <2>7 DEF ManagerTells, Kind
      <3>2. old \in Seq(Lines) /\ Proper(old) /\ \A j \in DOMAIN old : old[j].id <= next
        BY DEF TypeInv, TypeOK, LinesInv, MemoryInv, Memory
      <3>3. next \in Nat /\ next + 1 \in Ids /\ entry'[next + 1].kind = k
        <4>1. next \in Nat /\ next + 1 \in Ids
          BY <1>1, <1>2, EntryMade
        <4>2. entry'[next + 1] = [kind |-> k, parent |-> mem[m].leaf, kept |-> 0, covers |-> {}]
          <5> DEFINE none == {}
          <5>1. none \in SUBSET Ids /\ NewEntry(m, k, 0, none)
            BY <1>1
          <5> HIDE DEF none
          <5>2. entry'[next + 1] = [kind |-> k, parent |-> mem[m].leaf, kept |-> 0, covers |-> none]
            BY <1>1, <1>2, <5>1, EntryMade
          <5> QED BY <5>2 DEF none
        <4> QED BY <4>1, <4>2
      <3>4. line.id = next + 1
        BY DEF Line
      <3>5. \A j \in DOMAIN old : entry'[old[j].id].kind = entry[old[j].id].kind
        <4>1. \A j \in DOMAIN old : old[j].id \in Ids /\ old[j].id # next + 1
          <5>1. \A j \in DOMAIN old : old[j].id \in Ids /\ old[j].id \in Nat
            BY <3>2, IdsPositive DEF Proper
          <5> QED BY <3>2, <3>3, <5>1
        <4> QED BY <1>4, <4>1
      <3>6. /\ DOMAIN old = 1..Len(old) /\ Len(old) \in Nat
            /\ DOMAIN Append(old, line) = 1..(Len(old) + 1)
            /\ \A j \in DOMAIN old : Append(old, line)[j] = old[j]
            /\ Append(old, line)[Len(old) + 1] = line
        <4>1. line \in Lines
          BY <3>3 DEF Line, Lines, TypeInv, TypeOK, Memory
        <4> HIDE DEF line
        <4> QED BY <3>2, <4>1, AppendProperties, LenProperties
      <3> HIDE DEF line, old
      <3>7. ASSUME NEW j \in DOMAIN Append(old, line)
            PROVE  entry'[Append(old, line)[j].id].kind \in {"user", "finished"}
        <4>1. j \in DOMAIN old \/ j = Len(old) + 1
          BY <3>6
        <4>2. CASE j \in DOMAIN old
          BY <3>1, <3>5, <3>6, <4>2
        <4>3. CASE j = Len(old) + 1
          <5>1. Append(old, line)[j].id = next + 1
            BY <3>4, <3>6, <4>3
          <5>2. entry'[next + 1].kind = k
            BY <3>3
          <5> QED BY <2>1, <5>1, <5>2 DEF Kinds
        <4> QED BY <4>1, <4>2, <4>3
      <3>8. after.lines = Append(old, line)
        BY <1>3 DEF old, line
      <3> QED BY <1>1, <1>8, <2>1, <3>1, <3>7, <3>8
    <2>8. ManagerTells(m)'
      <3>1. ~mem'[m].flushed /\ mem'[m].leaf = LeafOf(mem'[m].lines)
        BY <1>4, <2>1, <2>4 DEF after
      <3>2. ~mem'[m].failed =>
              /\ newest' = 0 /\ waits'
              /\ \A j \in DOMAIN mem'[m].lines :
                   entry'[mem'[m].lines[j].id].kind \in {"user", "finished"}
        BY <2>4, <2>7
      <3> QED BY <3>1, <3>2 DEF ManagerTells, Kind
    <2> QED BY <1>5, <2>3, <2>5, <2>6, <2>8, OwnTells
  <1> QED BY <1>7, <1>8, Zenon DEF AppendEntry, log, unclosed

(* A failed write leaves on record what the path on disk says.             *)
LEMMA FailedTells ==
    ASSUME TypeInv, SteadyInv, steady, NEW m \in Managers, mem[m].up,
           NEW memory, mem' = [mem EXCEPT ![m] = memory],
           memory.failed, memory.log = mem[m].log, memory.flushed = mem[m].flushed,
           entry' = entry \/ \A j \in Ids : j # next + 1 => entry'[j] = entry[j],
           mem[m].flushed => newest' # 0 /\ turn' = turn
                             /\ Parsed(disk'[mem[m].log]) = Parsed(disk[mem[m].log]),
           NothingRuns', FoundTells'
    PROVE  SteadyInv'
  <1>1. mem'[m] = memory
    BY DEF TypeInv, TypeOK
  <1>2. ManagerTells(m) /\ \A o \in Managers : o # m => ~mem[o].up
    BY DEF SteadyInv, Alone
  <1>3. mem[m].log \in Logs
    BY DEF TypeInv, TypeOK, Memory
  <1> DEFINE path == Reads(Parsed(disk[mem[m].log]))
  <1>4. path \in Seq(Ids) /\ \A j \in DOMAIN path : path[j] <= next
    BY <1>3, LogReads
  <1>5. mem[m].flushed => Tells(path)
    BY <1>2 DEF ManagerTells
  <1>6. mem[m].flushed => Reads(Parsed(disk'[mem'[m].log])) = path
    BY <1>1
  <1> HIDE DEF path
  <1>7. Asks(path, entry') <=> Asks(path, entry)
    BY <1>4, AsksKept
  <1>8. ASSUME mem[m].flushed
        PROVE  Tells(Reads(Parsed(disk[mem[m].log])))'
    BY <1>5, <1>6, <1>7, <1>8 DEF Tells
  <1>9. mem'[m].failed /\ (mem'[m].flushed <=> mem[m].flushed)
    BY <1>1
  <1>10. ManagerTells(m)'
    BY <1>8, <1>9 DEF ManagerTells
  <1> QED BY <1>2, <1>10, OwnTells

LEMMA WriteFailsTells ==
    ASSUME TypeInv, TypeInv', SteadyInv, NEW m \in Managers, NEW k \in Kinds,
           NEW kept \in Ids \cup {0}, NEW covers \in SUBSET Ids,
           WriteFails(m, k, kept, covers)
    PROVE  SteadyInv'
  <1> DEFINE after == Extended(m, next + 1)
             unclosed == after.unclosed /\ k # "finished"
             memory == [after EXCEPT !.failed = TRUE, !.unclosed = unclosed]
  <1>1. /\ NewEntry(m, k, kept, covers) /\ Torn(m, after)
        /\ waits' = waits /\ steady' = steady /\ steady /\ mem[m].up
        /\ mem' = [mem EXCEPT ![m] = memory]
    BY DEF WriteFails, MayWrite
  <1>2. /\ next \in Nat /\ next + 1 \in Ids /\ MemoryInv(after, next + 1)
        /\ \A j \in Ids : j # next + 1 => entry'[j] = entry[j]
        /\ after.log = mem[m].log /\ after.flushed = mem[m].flushed
        /\ after.lines = Append(mem[m].lines, Line(next + 1, mem[m].leaf))
    BY <1>1, EntryMade
  <1>3. after \in Memory /\ mem[m].log \in Logs /\ disk \in [Logs -> Log]
    BY <1>2 DEF MemoryInv, TypeInv, TypeOK, Memory
  <1> HIDE DEF after, unclosed
  <1>4. /\ memory.failed /\ memory.log = mem[m].log /\ memory.flushed = mem[m].flushed
    BY <1>2, <1>3 DEF Memory
  <1> HIDE DEF memory
  <1>5. /\ ManagerTells(m) /\ NothingRuns /\ FoundTells
        /\ \A o \in Managers : o # m => ~mem[o].up
    BY <1>1 DEF SteadyInv, Alone
  <1>6. mem[m].log # 0
    BY <1>3, NoLogZero
  <1>7. CASE UNCHANGED <<disk, newest, last, turn>>
    <2>1. Resolve(newest)' = Resolve(newest)
      BY <1>7 DEF Resolve
    <2>2. NothingRuns'
      BY <1>5, <1>7 DEF NothingRuns
    <2>3. FoundTells'
      <3> SUFFICES ASSUME newest # 0
                   PROVE  (turn' # "unknown" =>
                             (Asks(Reads(Parsed(disk[Resolve(newest)])), entry') <=>
                                turn' = "running"))
        BY <1>7, <2>1 DEF FoundTells, Tells
      <3>1. newest \in Logs
        BY DEF TypeInv, TypeOK
      <3>2. Resolve(newest) \in Logs
        BY <3>1, ResolveFacts
      <3> DEFINE found == Reads(Parsed(disk[Resolve(newest)]))
      <3>3. found \in Seq(Ids) /\ \A j \in DOMAIN found : found[j] <= next
        BY <3>2, LogReads
      <3>4. Tells(found)
        BY <1>5 DEF FoundTells
      <3> HIDE DEF found
      <3>5. Asks(found, entry') <=> Asks(found, entry)
        BY <1>2, <3>3, AsksKept
      <3> QED BY <1>7, <3>4, <3>5 DEF Tells, found
    <2>4. mem[m].flushed => newest' # 0
      BY <1>5, <1>7 DEF ManagerTells
    <2> QED BY <1>1, <1>2, <1>4, <1>7, <2>2, <2>3, <2>4, FailedTells
  <1>8. CASE /\ mem[m].flushed /\ newest' = after.log
             /\ disk' = [disk EXCEPT ![after.log] = Tear(@)]
             /\ UNCHANGED <<last, turn>>
    <2> DEFINE log == Tear(disk[mem[m].log])
               path == Reads(Parsed(disk[mem[m].log]))
    <2>1. ~Closed(log) /\ Parsed(log) = Parsed(disk[mem[m].log])
      <3>1. LogInv(mem[m].log, disk[mem[m].log], next)
        BY <1>3 DEF TypeInv, LinesInv
      <3> QED BY <1>2, <1>3, <3>1, TornAdded
    <2>2. newest' = mem[m].log /\ disk'[mem[m].log] = log
      BY <1>2, <1>3, <1>8
    <2>3. path \in Seq(Ids) /\ \A j \in DOMAIN path : path[j] <= next
      BY <1>3, LogReads
    <2>4. Tells(path)
      BY <1>5, <1>8 DEF ManagerTells
    <2>5. Reads(Parsed(disk'[newest'])) = path
      BY <2>1, <2>2
    <2> HIDE DEF path
    <2>6. Asks(path, entry') <=> Asks(path, entry)
      BY <1>2, <2>3, AsksKept
    <2>7. Tells(Reads(Parsed(disk[newest])))'
      BY <1>8, <2>4, <2>5, <2>6 DEF Tells
    <2> HIDE DEF log
    <2>8. newest' # 0 /\ newest' \in Logs /\ ~Closed(disk'[newest'])
      BY <1>3, <1>6, <2>1, <2>2
    <2>9. NothingRuns' /\ FoundTells'
      BY <2>7, <2>8, FoundIn DEF NothingRuns
    <2>10. Parsed(disk'[mem[m].log]) = Parsed(disk[mem[m].log])
      BY <2>1, <2>2
    <2> QED BY <1>1, <1>2, <1>4, <1>8, <2>8, <2>9, <2>10, FailedTells
  <1>9. ASSUME ~mem[m].flushed, newest' = after.log, NEW c \in 0..(Len(after.lines) - 1),
               LET lines == SubSeq(after.lines, 1, c)
               IN  /\ disk' = [disk EXCEPT ![after.log] =
                        [exists |-> TRUE, lines |-> Append(lines, Garbage),
                         torn |-> TRUE]]
                   /\ turn' = IF Unclosed(Path(lines, LeafOf(lines)))
                              THEN "running" ELSE "ended"
        PROVE  SteadyInv'
    <2> DEFINE part == SubSeq(after.lines, 1, c)
               log == Cut(after.lines, c)
    <2>1. /\ after.lines \in Seq(Lines) /\ Proper(after.lines) /\ next + 1 \in Nat
          /\ \A j \in DOMAIN after.lines : after.lines[j].id <= next + 1
      <3>1. next + 1 \in Nat
        BY <1>2
      <3> QED BY <1>2, <3>1 DEF MemoryInv, Memory
    <2>2. /\ part \in Seq(Lines) /\ Proper(part) /\ Len(part) = c
          /\ ~Closed(log) /\ Parsed(log) = part
          /\ \A j \in DOMAIN part : part[j] = after.lines[j] /\ j \in DOMAIN after.lines
      <3> DEFINE b == next + 1
                 lines == after.lines
      <3>1. /\ lines \in Seq(Lines) /\ Proper(lines) /\ b \in Nat
            /\ \A j \in DOMAIN lines : lines[j].id <= b
        BY <2>1
      <3>2. c \in 0..(Len(lines) - 1) /\ mem[m].log \in Logs
        BY <1>3
      <3> HIDE DEF b, lines
      <3> DEFINE p == SubSeq(lines, 1, c)
                 l == Cut(lines, c)
      <3>3. p \in Seq(Lines) /\ Proper(p) /\ Len(p) = c
        <4>1. p \in Seq(Lines)
          BY <3>1, <3>2, PartWritten
        <4>2. Proper(p)
          BY <3>1, <3>2, PartWritten
        <4>3. Len(p) = c
          BY <3>1, <3>2, PartWritten
        <4> QED BY <4>1, <4>2, <4>3
      <3>4. ~Closed(l) /\ Parsed(l) = p
        <4>1. ~Closed(l)
          BY <3>1, <3>2, PartWritten
        <4>2. Parsed(l) = p
          BY <3>1, <3>2, PartWritten
        <4> QED BY <4>1, <4>2
      <3>5. \A j \in DOMAIN p : p[j] = lines[j] /\ j \in DOMAIN lines
        BY <3>1, <3>2, PartWritten
      <3> QED BY <3>3, <3>4, <3>5 DEF lines
    <2>3. disk' = [disk EXCEPT ![mem[m].log] = log] /\ newest' = mem[m].log
          /\ turn' = IF Unclosed(Reads(part)) THEN "running" ELSE "ended"
      BY <1>2, <1>9 DEF Reads, Cut
    <2> HIDE DEF part, log
    <2>4. disk'[mem[m].log] = log
      BY <1>3, <2>3
    <2>5. \A j \in DOMAIN part : part[j].id <= next
      <3> DEFINE old == mem[m].lines
                 line == Line(next + 1, mem[m].leaf)
      <3>1. old \in Seq(Lines) /\ \A j \in DOMAIN old : old[j].id <= next
        BY DEF TypeInv, TypeOK, LinesInv, MemoryInv, Memory
      <3>2. line \in Lines
        BY <1>2 DEF Line, Lines, TypeInv, TypeOK, Memory
      <3> HIDE DEF line, old
      <3>3. /\ DOMAIN old = 1..Len(old) /\ Len(old) \in Nat
            /\ Len(Append(old, line)) = Len(old) + 1
            /\ \A j \in DOMAIN old : Append(old, line)[j] = old[j]
        BY <3>1, <3>2, AppendProperties, LenProperties
      <3>4. after.lines = Append(old, line)
        BY <1>2 DEF old, line
      <3>5. DOMAIN part = 1..c /\ c <= Len(old) /\ c \in Nat
        BY <1>9, <2>2, <3>3, <3>4, LenProperties
      <3>6. \A j \in DOMAIN part : j \in DOMAIN old
        BY <3>3, <3>5
      <3> QED BY <2>2, <3>1, <3>3, <3>4, <3>6
    <2> DEFINE path == Reads(part)
    <2>6. path \in Seq(Ids) /\ \A j \in DOMAIN path : path[j] <= next
      BY <1>2, <2>2, <2>5, ReadsFacts
    <2> HIDE DEF path
    <2>7. Asks(path, entry') <=> Asks(path, entry)
      BY <1>2, <2>6, AsksKept
    <2>8. Unclosed(path) <=> Asks(path, entry)
      BY <2>6, UnclosedAsks
    <2>9. turn' # "unknown" => (Asks(path, entry') <=> turn' = "running")
      BY <2>3, <2>7, <2>8 DEF path
    <2>10. Reads(Parsed(disk'[newest'])) = path
      BY <2>2, <2>3, <2>4 DEF path
    <2>11. Tells(Reads(Parsed(disk[newest])))'
      BY <2>9, <2>10 DEF Tells
    <2>12. newest' # 0 /\ newest' \in Logs /\ ~Closed(disk'[newest'])
      BY <1>3, <1>6, <2>2, <2>3, <2>4
    <2>13. NothingRuns' /\ FoundTells'
      BY <2>11, <2>12, FoundIn DEF NothingRuns
    <2> QED BY <1>1, <1>2, <1>4, <1>9, <2>13, FailedTells
  <1> QED BY <1>1, <1>7, <1>8, <1>9, Zenon DEF Torn

LEMMA AppendFailsTells ==
    ASSUME TypeInv, TypeInv', SteadyInv, NEW m \in Managers, NEW k \in Kinds,
           AppendFails(m, k)
    PROVE  SteadyInv'
  <1>1. WriteFails(m, k, 0, {})
    BY DEF AppendFails
  <1>2. 0 \in Ids \cup {0} /\ {} \in SUBSET Ids
    OBVIOUS
  <1> QED BY <1>1, <1>2, WriteFailsTells

LEMMA RunFailsTells ==
    ASSUME TypeInv, TypeInv', SteadyInv, NEW m \in Managers, RunFails(m)
    PROVE  SteadyInv'
  <1>1. PICK run \in runs[m] :
           \/ UNCHANGED <<disk, newest, mem, entry, next, waits, last, turn,
                          steady, resized>>
           \/ WriteFails(m, "compaction", run.kept, run.covers)
    BY DEF RunFails
  <1>2. run.kept \in Ids \cup {0} /\ run.covers \in SUBSET Ids /\ "compaction" \in Kinds
    BY <1>1 DEF TypeInv, TypeOK, Kinds
  <1>3. CASE UNCHANGED <<disk, newest, mem, entry, next, waits, last, turn, steady,
                       resized>>
    BY <1>3, QuietTells
  <1>4. CASE WriteFails(m, "compaction", run.kept, run.covers)
    BY <1>2, <1>4, WriteFailsTells
  <1> QED BY <1>1, <1>3, <1>4

(* The path that a compaction extends says what the log says: where there  *)
(* is no log yet, a compaction writes only if nothing came before.         *)
LEMMA PathTells ==
    ASSUME TypeInv, SteadyInv, steady, NEW m \in Managers, mem[m].up, ~mem[m].failed,
           WritesNow(m, "compaction")
    PROVE  Tells(Path(mem[m].lines, mem[m].leaf))
  <1> DEFINE lines == mem[m].lines
  <1>1. ManagerTells(m) /\ NothingRuns
    BY DEF SteadyInv
  <1>2. mem[m].leaf = LeafOf(lines) \/ turn = "unknown"
    BY <1>1 DEF ManagerTells
  <1>3. CASE turn = "unknown"
    BY <1>3 DEF Tells
  <1>4. CASE turn # "unknown"
    <2>1. Path(mem[m].lines, mem[m].leaf) = Reads(lines)
      BY <1>2, <1>4 DEF Reads
    <2>2. CASE mem[m].flushed
      BY <1>1, <2>1, <2>2 DEF ManagerTells
    <2>3. CASE ~mem[m].flushed
      <3>1. /\ newest = 0 /\ (waits \/ lines = <<>>)
            /\ \A k \in DOMAIN lines : Kind(lines[k].id) \in {"user", "finished"}
        BY <1>1, <2>3 DEF ManagerTells
      <3>2. lines = <<>>
        BY <2>3, <3>1 DEF WritesNow
      <3>3. lines \in Seq(Lines) /\ Proper(lines)
        BY DEF TypeInv, TypeOK, LinesInv, MemoryInv, Memory
      <3>4. Reads(lines) = <<>>
        <4>1. LeafOf(lines) = 0
          BY <3>2 DEF LeafOf
        <4>2. Path(lines, 0) = <<>>
          BY <3>3, PathFacts
        <4> QED BY <4>1, <4>2 DEF Reads
      <3>5. ~Asks(<<>>, entry)
        <4>1. DOMAIN <<>> = {}
          OBVIOUS
        <4> QED BY <4>1 DEF Asks
      <3>6. turn # "running"
        BY <1>1, <3>1 DEF NothingRuns
      <3> QED BY <2>1, <3>4, <3>5, <3>6 DEF Tells
    <2> QED BY <2>2, <2>3
  <1> QED BY <1>3, <1>4

(* A log that was closed by its marker, and not torn, ends with it.        *)
LEMMA MarkerCloses ==
    ASSUME NEW n \in Logs, n + 1 \in Logs, NEW b, NEW log, LogInv(n, log, b), log.torn = FALSE
    PROVE  Closed(Glued(log, Marker(n + 1)))
  <1> DEFINE marker == Marker(n + 1)
             new == Append(log.lines, marker)
  <1>1. log \in Log /\ log.lines \in Seq(Lines)
    BY DEF LogInv, Log
  <1>2. marker \in Lines /\ marker.to = n + 1 /\ n + 1 # 0
    <2>1. n + 1 # 0
      BY NoLogZero
    <2> QED BY <2>1 DEF Marker, Garbage, Line, Lines
  <1> HIDE DEF marker
  <1>3. Last(new) = marker /\ new # <<>>
    BY <1>1, <1>2, LastAppended
  <1> HIDE DEF new
  <1>4. Glued(log, marker).lines = new /\ Glued(log, marker).torn = FALSE
    BY <1>1, GluedFields DEF new
  <1>5. Closed(Glued(log, marker))
    BY <1>2, <1>3, <1>4 DEF Closed
  <1> QED BY <1>5 DEF marker

(* What is read after a rotation, whichever log is the newer.              *)
LEMMA RotatedTells ==
    ASSUME TypeInv, TypeInv', NEW m \in Managers, NEW memory, NEW n \in Logs, n + 1 \in Logs,
           mem' = [mem EXCEPT ![m] = memory],
           \A o \in Managers : o # m => ~mem[o].up,
           NEW old, NEW new, disk'[n] = old, disk'[n + 1] = new, ~Closed(new),
           newest' = n + 1 \/ newest' = n,
           newest' = n /\ ~Closed(old) /\ turn' # "unknown" =>
               (Asks(Reads(Parsed(old)), entry') <=> turn' = "running"),
           Parsed(new) = memory.lines, new.torn = FALSE,
           memory.log = n + 1, memory.flushed, memory.leaf = LeafOf(memory.lines),
           turn' # "unknown" => (Asks(Reads(memory.lines), entry') <=> turn' = "running")
    PROVE  SteadyInv'
  <1>1. mem'[m] = memory
    BY DEF TypeInv, TypeOK
  <1>2. newest' # 0 /\ newest' \in Logs
    BY NoLogZero
  <1>3. turn' # "unknown" => (Asks(Reads(Parsed(new)), entry') <=> turn' = "running")
    OBVIOUS
  <1>4. FoundTells'
    <2>1. CASE newest' = n + 1
      <3>1. Tells(Reads(Parsed(disk[newest])))'
        BY <1>3, <2>1 DEF Tells
      <3> QED BY <1>2, <2>1, <3>1, FoundIn
    <2>2. CASE newest' = n /\ Closed(old)
      <3>1. Resolve(newest)' = n + 1
        <4>1. Resolve(n)' = Resolve(n + 1)'
          BY <2>2, ResolveNext
        <4>2. Resolve(n + 1)' = n + 1
          BY ResolveNext
        <4>3. Resolve(newest)' = Resolve(n)'
          BY <2>2 DEF Resolve
        <4> QED BY <4>1, <4>2, <4>3
      <3>2. disk'[Resolve(newest)'] = new
        BY <3>1
      <3> QED BY <1>3, <3>2 DEF FoundTells, Tells
    <2>3. CASE newest' = n /\ ~Closed(old)
      <3>1. turn' # "unknown" => (Asks(Reads(Parsed(old)), entry') <=> turn' = "running")
        BY <2>3
      <3>2. Tells(Reads(Parsed(disk[newest])))'
        BY <2>3, <3>1 DEF Tells
      <3> QED BY <1>2, <2>3, <3>2, FoundIn
    <2> QED BY <2>1, <2>2, <2>3
  <1>5. NothingRuns'
    BY <1>2 DEF NothingRuns
  <1>6. disk'[mem'[m].log] = new /\ mem'[m].lines = memory.lines /\ mem'[m].flushed
        /\ mem'[m].leaf = LeafOf(mem'[m].lines)
    BY <1>1
  <1>7. Tells(Reads(Parsed(disk[mem[m].log])))'
    BY <1>3, <1>6 DEF Tells
  <1>8. ManagerTells(m)'
    BY <1>2, <1>6, <1>7 DEF ManagerTells
  <1> QED BY <1>4, <1>5, <1>8, OwnTells

LEMMA RunEndsTells ==
    ASSUME TypeInv, TypeInv', SteadyInv, NEW m \in Managers, RunEnds(m)
    PROVE  SteadyInv'
  <1> SUFFICES ASSUME steady' PROVE SteadyInv'
    BY DEF SteadyInv
  <1>1. PICK run \in runs[m], prune \in BOOLEAN :
           /\ NewEntry(m, "compaction", run.kept, run.covers)
           /\ LET after == Extended(m, next + 1)
                  log == Compacted(m, after, prune)
              IN  \/ /\ disk' = [disk EXCEPT ![after.log] = log]
                     /\ newest' = after.log
                     /\ mem' = [mem EXCEPT ![m] =
                          [after EXCEPT !.flushed = TRUE, !.checked = log]]
                     /\ Upset(mem[m].failed)
                  \/ /\ Rotate(m, after, log, run.kept)
                     /\ Upset(mem[m].failed \/ runs'[m] # {})
    BY DEF RunEnds
  <1> DEFINE after == Extended(m, next + 1)
             log == Compacted(m, after, prune)
             path == Path(mem[m].lines, mem[m].leaf)
             i == next + 1
  <1>2. /\ mem[m].up /\ WritesNow(m, "compaction") /\ "compaction" \in Kinds
        /\ turn' = turn
    BY DEF RunEnds, MayWrite, Kinds
  <1>3. run.kept \in Ids \cup {0} /\ run.covers \in SUBSET Ids
    BY <1>1 DEF TypeInv, TypeOK
  <1>4. steady /\ ~mem[m].failed
    BY <1>1, Zenon DEF Upset
  <1>5. /\ ManagerTells(m) /\ \A o \in Managers : o # m => ~mem[o].up
    BY <1>2, <1>4 DEF SteadyInv, Alone
  <1>6. NewEntry(m, "compaction", run.kept, run.covers)
    BY <1>1
  <1>7. /\ i \in Ids /\ i \in Nat /\ next \in Nat /\ next < i /\ MemoryInv(after, i)
        /\ after.leaf = i /\ after.log = mem[m].log
    <2>1. /\ i \in Ids /\ i \in Nat /\ next \in Nat /\ MemoryInv(after, i)
          /\ after.leaf = i /\ after.log = mem[m].log
      BY <1>2, <1>3, <1>6, EntryMade
    <2> QED BY <2>1
  <1>8. /\ LeafOf(after.lines) = i /\ path \in Seq(Ids)
        /\ \A j \in Ids : j # next + 1 => entry'[j] = entry[j]
        /\ Reads(after.lines) = Append(path, i)
    BY <1>2, <1>3, <1>6, AppendedReads
  <1>9. Asks(Reads(after.lines), entry') <=> Asks(path, entry)
    BY <1>2, <1>3, <1>6, AppendedReads
  <1>10. entry'[i].kind = "compaction"
    <2>1. entry'[i] = [kind |-> "compaction", parent |-> mem[m].leaf,
                       kept |-> run.kept, covers |-> run.covers]
      BY <1>2, <1>3, <1>6, EntryMade
    <2> QED BY <2>1
  <1>11. Parsed(log) = after.lines
    BY <1>2, <1>3, <1>4, <1>5, <1>6, WrittenWhole
  <1>12. LogInv(mem[m].log, log, i) /\ log.exists /\ log.torn = FALSE /\ ~Closed(log)
    <2>1. /\ LogInv(after.log, log, i) /\ log.exists /\ log.torn = FALSE
          /\ ~Closed(log)
      <3> HIDE DEF after
      <3> QED BY <1>2, <1>3, <1>6, EntryWritten DEF after
    <2> QED BY <1>7, <2>1
  <1>13. turn' # "unknown" => (Asks(path, entry) <=> turn' = "running")
    <2>1. Tells(path)
      BY <1>2, <1>4, PathTells
    <2> QED BY <1>2, <2>1 DEF Tells
  <1>14. after \in Memory /\ mem[m].log \in Logs
    BY <1>7 DEF MemoryInv, TypeInv, TypeOK, Memory
  <1>15. CASE /\ disk' = [disk EXCEPT ![after.log] = log] /\ newest' = after.log
              /\ mem' = [mem EXCEPT ![m] =
                   [after EXCEPT !.flushed = TRUE, !.checked = log]]
    <2> DEFINE memory == [after EXCEPT !.flushed = TRUE, !.checked = log]
    <2> HIDE DEF after, log
    <2>1. /\ memory.lines = after.lines /\ memory.leaf = after.leaf
          /\ memory.log = after.log /\ memory.flushed
      BY <1>14 DEF Memory
    <2>2. mem' = [mem EXCEPT ![m] = memory] /\ disk' = [disk EXCEPT ![mem[m].log] = log]
          /\ newest' = mem[m].log
      BY <1>7, <1>15
    <2> HIDE DEF memory
    <2>3. turn' # "unknown" => (Asks(Reads(memory.lines), entry') <=> turn' = "running")
      BY <1>9, <1>13, <2>1
    <2>4. /\ memory.leaf = LeafOf(memory.lines) /\ Parsed(log) = memory.lines
          /\ memory.log = mem[m].log /\ memory.flushed
      BY <1>7, <1>8, <1>11, <2>1
    <2> QED BY <1>5, <1>12, <1>14, <2>2, <2>3, <2>4, WrittenTells
  <1>16. CASE Rotate(m, after, log, run.kept)
    <2> DEFINE n == mem[m].log
               ids(start) == Append(Carried(path, start), i)
               lines(start) == Chained(ids(start))
               new(start) == [exists |-> TRUE, lines |-> lines(start), torn |-> FALSE]
               rotated(start) == [after EXCEPT !.log = n + 1, !.lines = lines(start),
                                               !.leaf = LeafOf(lines(start)),
                                               !.flushed = TRUE, !.checked = new(start)]
    <2>1. PICK start \in TailStarts(path, run.kept) :
             /\ mem' = [mem EXCEPT ![m] = rotated(start)]
             /\ \E old \in {log, Tear(log), Glued(log, Marker(n + 1))} :
                  /\ disk' = [disk EXCEPT ![n] = old, ![n + 1] = new(start)]
                  /\ newest' \in IF old = log THEN {n + 1}
                                 ELSE IF Closed(old) THEN {n, n + 1} ELSE {n}
      <3> HIDE DEF after, log
      <3> QED BY <1>7, <1>16 DEF Rotate
    <2>2. PICK old \in {log, Tear(log), Glued(log, Marker(n + 1))} :
             /\ disk' = [disk EXCEPT ![n] = old, ![n + 1] = new(start)]
             /\ newest' \in IF old = log THEN {n + 1}
                            ELSE IF Closed(old) THEN {n, n + 1} ELSE {n}
      BY <2>1
    <2>3. n < MaxLogs
      BY <1>7, <1>16 DEF Rotate
    <2>4. n \in Logs /\ n + 1 \in Logs /\ n # n + 1
      BY <1>14, <2>3, BoundsAssumption DEF Logs
    <2> DEFINE made == lines(start)
               carried == Carried(path, start)
               all == ids(start)
    <2>5. /\ made \in Seq(Lines) /\ Proper(made) /\ LeafOf(made) = i
          /\ \A k \in DOMAIN made : made[k].id <= i
          /\ start \in DOMAIN path /\ carried \in Seq(Ids) /\ all \in Seq(Ids) /\ Rising(all)
      <3> HIDE DEF i, after, log
      <3>1. i \in Ids /\ next < i /\ start \in TailStarts(path, run.kept)
        BY <1>7
      <3>2. all = RotatedIds(m, start, i) /\ made = Chained(RotatedIds(m, start, i))
        BY DEF RotatedIds
      <3> HIDE DEF all, made
      <3>3. /\ made \in Seq(Lines) /\ Proper(made) /\ LeafOf(made) = i
            /\ \A k \in DOMAIN made : made[k].id <= i
            /\ all \in Seq(Ids) /\ Rising(all)
        BY <3>1, <3>2, RotatedLines
      <3>4. start \in DOMAIN path /\ carried \in Seq(Ids)
        BY <3>1, RotatedLines
      <3> QED BY <3>3, <3>4
    <2>6. start = 1 \/ Kind(path[start]) = "user"
      BY DEF TailStarts
    <2>7. Asks(carried, entry) <=> Asks(path, entry)
      BY <1>8, <2>5, <2>6, AsksCarried
    <2>8. Asks(carried, entry') <=> Asks(carried, entry)
      <3>1. /\ Rising(path) /\ \A k \in DOMAIN path : path[k] <= next
        BY OwnPath
      <3>2. \A k \in DOMAIN carried : \E j \in DOMAIN path : carried[k] = path[j]
        BY <1>8, <2>5, <3>1, CarriedFacts
      <3>3. \A k \in DOMAIN carried : carried[k] <= next
        BY <3>1, <3>2
      <3> QED BY <1>8, <2>5, <3>3, AsksKept
    <2>9. all = Append(carried, i)
      OBVIOUS
    <2> HIDE DEF carried, all, ids
    <2>10. Asks(all, entry') <=> Asks(carried, entry')
      BY <1>7, <1>10, <2>5, <2>9, AsksAppend
    <2>11. Reads(made) = all
      <3>1. all # <<>> /\ Last(all) = i
        BY <1>7, <2>5, <2>9, LastAppended
      <3>2. Path(Chained(all), Last(all)) = all
        BY <2>5, <3>1, ChainedPath
      <3>3. made = Chained(all)
        BY DEF all
      <3> QED BY <2>5, <3>1, <3>2, <3>3 DEF Reads
    <2>12. turn' # "unknown" => (Asks(Reads(made), entry') <=> turn' = "running")
      BY <1>13, <2>7, <2>8, <2>10, <2>11
    <2> DEFINE memory == rotated(start)
               fresh == new(start)
    <2>13. Parsed(fresh) = made /\ fresh.torn = FALSE /\ ~Closed(fresh) /\ fresh \in Log
      <3>1. LogInv(n + 1, fresh, i) /\ Parsed(fresh) = made /\ ~Closed(fresh)
        <4> HIDE DEF lines
        <4> QED BY <1>7, <2>4, <2>5, AllWritten
      <3> QED BY <3>1 DEF LogInv
    <2> HIDE DEF after, log
    <2>14. /\ memory.lines = made /\ memory.leaf = i /\ memory.log = n + 1 /\ memory.flushed
      <3>1. /\ memory.lines = lines(start) /\ memory.leaf = LeafOf(lines(start))
            /\ memory.log = n + 1 /\ memory.flushed
        <4> HIDE DEF lines, new
        <4> QED BY <1>14 DEF Memory
      <3> QED BY <2>5, <3>1
    <2>15. mem' = [mem EXCEPT ![m] = memory]
      BY <2>1
    <2>16. disk' = [disk EXCEPT ![n] = old, ![n + 1] = fresh]
      BY <2>2
    <2> HIDE DEF memory, rotated, fresh, new, made, lines, n
    <2>17. disk'[n] = old /\ disk'[n + 1] = fresh
      BY <2>4, <2>16 DEF TypeInv, TypeOK
    <2>18. newest' = n + 1 \/ newest' = n
      BY <2>2
    <2>19. ASSUME newest' = n, ~Closed(old)
           PROVE  Parsed(old) = after.lines
      <3>1. old # log
        BY <2>2, <2>4, <2>19
      <3>2. Closed(Glued(log, Marker(n + 1)))
        BY <1>12, <2>4, MarkerCloses DEF n
      <3>3. old = Tear(log)
        BY <2>19, <3>1, <3>2
      <3>4. Parsed(Tear(log)) = Parsed(log)
        BY <1>7, <1>12, <1>14, TornAdded
      <3> QED BY <1>11, <3>3, <3>4
    <2>20. newest' = n /\ ~Closed(old) /\ turn' # "unknown" =>
             (Asks(Reads(Parsed(old)), entry') <=> turn' = "running")
      BY <1>9, <1>13, <2>19
    <2>21. turn' # "unknown" => (Asks(Reads(memory.lines), entry') <=> turn' = "running")
      BY <2>12, <2>14
    <2>22. /\ memory.leaf = LeafOf(memory.lines) /\ Parsed(fresh) = memory.lines
      BY <2>5, <2>13, <2>14
    <2> QED BY <1>5, <2>4, <2>13, <2>14, <2>15, <2>17, <2>18, <2>20, <2>21, <2>22,
               RotatedTells
  <1> QED BY <1>1, <1>15, <1>16

LEMMA SteadyInit == Init => SteadyInv
  <1> SUFFICES ASSUME Init PROVE SteadyInv
    OBVIOUS
  <1>1. newest = 0 /\ turn = "ended" /\ \A m \in Managers : mem[m] = Down
    BY DEF Init
  <1>2. ~Down.up
    BY DEF Down, NewSession
  <1> QED BY <1>1, <1>2 DEF SteadyInv, Alone, NothingRuns, FoundTells

LEMMA SteadyNext == TypeInv /\ TypeInv' /\ SteadyInv /\ [Next]_vars => SteadyInv'
  <1> SUFFICES ASSUME TypeInv, TypeInv', SteadyInv, [Next]_vars PROVE SteadyInv'
    OBVIOUS
  <1>1. CASE UNCHANGED vars
    BY <1>1, QuietTells DEF vars
  <1>2. ASSUME NEW m \in Managers, NEW k \in Kinds \ {"compaction"},
               AppendEntry(m, k) \/ AppendFails(m, k)
        PROVE  SteadyInv'
    BY <1>2, AppendTells, AppendFailsTells
  <1>3. ASSUME NEW m \in Managers, Die(m)
        PROVE  SteadyInv'
    <2>1. UNCHANGED <<disk, newest, entry, waits, turn, steady>>
          /\ mem' = [mem EXCEPT ![m] = Down]
      BY <1>3 DEF Die
    <2>2. ~Down.up
      BY DEF Down, NewSession
    <2>3. \A o \in Managers : mem'[o].up => mem[o].up /\ mem'[o] = mem[o]
      BY <2>1, <2>2 DEF TypeInv, TypeOK
    <2> QED BY <2>1, <2>3, QuietTells
  <1>4. ASSUME NEW m \in Managers, Prepare(m)
        PROVE  SteadyInv'
    BY <1>4, QuietTells DEF Prepare
  <1>5. ASSUME NEW m \in Managers,
               Open(m) \/ Create(m) \/ Branch(m) \/ RunFails(m) \/ RunEnds(m)
        PROVE  SteadyInv'
    BY <1>5, OpenTells, CreateTells, BranchTells, RunFailsTells, RunEndsTells
  <1>6. ASSUME NEW m \in Managers, Check(m)
        PROVE  SteadyInv'
    <2>1. ~steady'
      BY <1>6, CheckUpset
    <2> QED BY <2>1 DEF SteadyInv
  <1> QED BY <1>1, <1>2, <1>3, <1>4, <1>5, <1>6 DEF Next

(* A restart reports an interrupted operation exactly when one had reached *)
(* the log and not its end: also after failed and torn writes, branches,   *)
(* rewritten logs, and a Log Rotation that stopped halfway.                *)
THEOREM InterruptionsReported == Spec => []InterruptionFound
  <1>1. TypeInv /\ SteadyInv => InterruptionFound
    <2> SUFFICES ASSUME TypeInv, SteadyInv, steady, newest # 0, turn # "unknown"
                 PROVE  Unclosed(Found) <=> turn = "running"
      BY DEF InterruptionFound
    <2>1. newest \in Logs
      BY DEF TypeInv, TypeOK
    <2>2. Resolve(newest) \in Logs
      BY <2>1, ResolveFacts
    <2>3. Found = Reads(Parsed(disk[Resolve(newest)])) /\ Found \in Seq(Ids)
      BY <2>2, LogReads DEF Found, Reads
    <2>4. Tells(Found)
      BY <2>3 DEF SteadyInv, FoundTells
    <2>5. Unclosed(Found) <=> Asks(Found, entry)
      BY <2>3, UnclosedAsks
    <2> QED BY <2>4, <2>5 DEF Tells
  <1>2. Init => TypeInv /\ SteadyInv
    BY TypeInit, SteadyInit
  <1>3. TypeInv /\ SteadyInv /\ [Next]_vars => TypeInv' /\ SteadyInv'
    BY TypeNext, SteadyNext
  <1> QED BY <1>1, <1>2, <1>3, PTL DEF Spec

-----------------------------------------------------------------------------
(***************************************************************************)
(* What a restart reads of the context.  Paths rise, so what matters of    *)
(* one is which entries are on it: a log and the history are compared as   *)
(* sets of entries, in the order of their numbers.                         *)
(***************************************************************************)

(* The entries of the path to a leaf. *)
On(lines, i) == Range(Path(lines, i))

(* All entries as they were made, as if one log had them all, and those    *)
(* from the root to one of them.                                           *)
All(e) == [k \in Ids |-> Line(k, e[k].parent)]
Made(e, i) == On(All(e), i)

Entries == [Ids -> [kind : Kinds, parent : Ids \cup {0},
                    kept : Ids \cup {0}, covers : SUBSET Ids]]

(* Every entry was made after its parent.                                  *)
Parented(e) == \A i \in Ids : e[i].parent < i

From(S, k) == {x \in S : x >= k}

(* The last compaction among the entries of a path.                        *)
Newest(S, e, c) ==
    /\ c \in S /\ e[c].kind = "compaction"
    /\ \A x \in S : x > c => e[x].kind # "compaction"

(* What a path gives the model is what was written, but for what its last  *)
(* compaction covers.                                                      *)
Remembers(S, W, e) ==
    \/ S = W /\ \A x \in W : e[x].kind # "compaction"
    \/ \E c \in S : /\ Newest(S, e, c) /\ Newest(W, e, c)
                    /\ e[c].kept \in S /\ e[c].kept < c
                    /\ From(S, e[c].kept) = W \ e[c].covers

(* An entry of a log at or behind the compaction the log began with; there *)
(* is none in the first log.                                               *)
Behind(lines, c, i) ==
    /\ i = 0 \/ Has(lines, i)
    /\ c = 0 \/ c \in On(lines, i)

(* Log n remembers whatever leaf behind that compaction it is read from.   *)
Rooted(n, lines, leaf, e, c) ==
    /\ c # 0 => n > 1 /\ e[c].kind = "compaction"
    /\ n > 1 => c # 0
    /\ Behind(lines, c, leaf)
    /\ \A i \in Ids \cup {0} :
          Behind(lines, c, i) => Remembers(On(lines, i), Made(e, i), e)
Good(n, lines, leaf, e) == \E c \in Ids \cup {0} : Rooted(n, lines, leaf, e, c)

(* A Compaction Run whose entry would be such a last compaction.           *)
RunGood(run, S, W) == run.kept \in S /\ From(S, run.kept) = W \ run.covers

LEMMA RangeAppended ==
    ASSUME NEW S, NEW s \in Seq(S), NEW x \in S
    PROVE  Range(Append(s, x)) = Range(s) \cup {x}
  <1> DEFINE t == Append(s, x)
  <1>1. Len(s) \in Nat /\ DOMAIN s = 1..Len(s) /\ DOMAIN t = 1..(Len(s) + 1)
    BY AppendProperties
  <1>2. t[Len(s) + 1] = x /\ \A k \in DOMAIN s : t[k] = s[k]
    BY AppendProperties
  <1>3. \A k \in DOMAIN t : k \in DOMAIN s \/ k = Len(s) + 1
    BY <1>1
  <1>4. Len(s) + 1 \in DOMAIN t /\ \A k \in DOMAIN s : k \in DOMAIN t
    BY <1>1
  <1> HIDE DEF t
  <1>5. Range(t) = Range(s) \cup {x}
    BY <1>2, <1>3, <1>4 DEF Range
  <1> QED BY <1>5 DEF t

LEMMA OnFacts ==
    ASSUME NEW lines \in Seq(Lines), Proper(lines), NEW i \in Ids \cup {0}
    PROVE  /\ On(lines, i) \subseteq Ids
           /\ \A x \in On(lines, i) : x <= i /\ Has(lines, x)
           /\ On(lines, i) = IF Has(lines, i) /\ i # 0
                             THEN On(lines, Parent(lines, i)) \cup {i} ELSE {}
  <1>1. /\ Path(lines, i) = IF Has(lines, i) /\ i # 0
                            THEN Append(Path(lines, Parent(lines, i)), i) ELSE <<>>
        /\ Path(lines, i) \in Seq(Ids)
    BY PathFacts
  <1>2. On(lines, i) \subseteq Ids
    BY <1>1, ElementOfSeq DEF On, Range
  <1>3. \A x \in On(lines, i) : x <= i /\ Has(lines, x)
    BY PathRises DEF On, Range
  <1>4. CASE Has(lines, i) /\ i # 0
    <2> DEFINE up == Path(lines, Parent(lines, i))
    <2>1. Parent(lines, i) \in Ids \cup {0} /\ i \in Ids
      BY <1>4, ParentBefore
    <2>2. up \in Seq(Ids) /\ Path(lines, i) = Append(up, i)
      BY <1>1, <1>4, <2>1, PathFacts
    <2> HIDE DEF up
    <2>3. Range(Append(up, i)) = Range(up) \cup {i}
      BY <2>1, <2>2, RangeAppended
    <2> QED BY <1>2, <1>3, <1>4, <2>2, <2>3 DEF On, up
  <1>5. CASE ~(Has(lines, i) /\ i # 0)
    <2>1. Path(lines, i) = <<>>
      BY <1>1, <1>5
    <2> QED BY <1>2, <1>3, <1>5, <2>1 DEF On, Range
  <1> QED BY <1>4, <1>5

(* The path to an entry on the way is the way as far as that.              *)
LEMMA OnThrough ==
    ASSUME NEW lines \in Seq(Lines), Proper(lines)
    PROVE  \A i \in Ids \cup {0} : \A x \in On(lines, i) :
              On(lines, x) = {y \in On(lines, i) : y <= x}
  <1> DEFINE Through(i) == \A x \in On(lines, i) :
                              On(lines, x) = {y \in On(lines, i) : y <= x}
             S == {i \in Ids \cup {0} : Through(i)}
  <1>1. Ids \cup {0} = 0..MaxEntries /\ MaxEntries \in Nat
    BY BoundsAssumption DEF Ids
  <1>2. ASSUME NEW n \in 0..MaxEntries, \A k \in 0..MaxEntries : k < n => k \in S
        PROVE  n \in S
    <2>1. /\ On(lines, n) \subseteq Ids
          /\ \A x \in On(lines, n) : x <= n
          /\ On(lines, n) = IF Has(lines, n) /\ n # 0
                            THEN On(lines, Parent(lines, n)) \cup {n} ELSE {}
      BY <1>1, OnFacts
    <2>2. CASE Has(lines, n) /\ n # 0
      <3> DEFINE p == Parent(lines, n)
                 above == On(lines, p)
      <3>1. p \in 0..MaxEntries /\ p < n
        BY <1>1, <2>2, ParentBefore
      <3>2. Through(p)
        BY <1>2, <3>1
      <3>3. above \subseteq Ids /\ \A x \in above : x <= p
        BY <1>1, <3>1, OnFacts
      <3>4. On(lines, n) = above \cup {n}
        BY <2>1, <2>2
      <3> HIDE DEF p
      <3>5. ASSUME NEW x \in On(lines, n)
            PROVE  On(lines, x) = {y \in On(lines, n) : y <= x}
        <4>1. CASE x = n
          BY <2>1, <4>1
        <4>2. CASE x # n
          <5>1. x \in above
            BY <3>4, <3>5, <4>2
          <5>2. On(lines, x) = {y \in above : y <= x}
            BY <3>2, <5>1
          <5>3. x < n /\ ~(n <= x)
            BY <1>1, <3>1, <3>3, <5>1, IdsPositive
          <5>4. {y \in above : y <= x} = {y \in On(lines, n) : y <= x}
            BY <3>4, <5>3
          <5> QED BY <5>2, <5>4
        <4> QED BY <4>1, <4>2
      <3> QED BY <1>1, <3>5
    <2>3. CASE ~(Has(lines, n) /\ n # 0)
      BY <1>1, <2>1, <2>3
    <2> QED BY <2>2, <2>3
  <1>3. \A n \in 0..MaxEntries : n \in S
    <2> HIDE DEF S
    <2> QED BY <1>1, <1>2, UpTo
  <1> QED BY <1>1, <1>3

LEMMA OnAppend ==
    ASSUME NEW lines \in Seq(Lines), Proper(lines),
           NEW i \in Ids, NEW p \in Ids \cup {0}, p < i,
           \A k \in DOMAIN lines : lines[k].id < i
    PROVE  LET more == Append(lines, Line(i, p)) IN
           /\ more \in Seq(Lines) /\ Proper(more)
           /\ \A j \in 0..(i - 1) : On(more, j) = On(lines, j)
           /\ On(more, i) = On(lines, p) \cup {i}
           /\ \A j : Has(more, j) <=> Has(lines, j) \/ j = i
  <1> DEFINE more == Append(lines, Line(i, p))
  <1>1. /\ more \in Seq(Lines) /\ Proper(more)
        /\ \A j \in 0..(i - 1) : Path(more, j) = Path(lines, j)
        /\ Path(more, i) = Append(Path(lines, p), i)
    BY PathAppend
  <1>2. Path(lines, p) \in Seq(Ids)
    BY PathFacts
  <1>3. On(more, i) = On(lines, p) \cup {i}
    BY <1>1, <1>2, RangeAppended DEF On
  <1>4. \A j : Has(more, j) <=> Has(lines, j) \/ j = i
    <2>1. Line(i, p).id = i /\ Line(i, p) \in Lines
      BY DEF Line, Lines
    <2>2. /\ Len(lines) \in Nat /\ DOMAIN lines = 1..Len(lines)
          /\ DOMAIN more = 1..(Len(lines) + 1) /\ more[Len(lines) + 1] = Line(i, p)
          /\ \A k \in DOMAIN lines : more[k] = lines[k]
      BY <2>1, AppendProperties
    <2>3. /\ \A k \in DOMAIN more : k \in DOMAIN lines \/ k = Len(lines) + 1
          /\ Len(lines) + 1 \in DOMAIN more
          /\ \A k \in DOMAIN lines : k \in DOMAIN more
      BY <2>2
    <2> HIDE DEF more
    <2> QED BY <2>1, <2>2, <2>3 DEF Has
  <1> QED BY <1>1, <1>3, <1>4 DEF On

(* The entries as they were made, as lines.                                *)
LEMMA AllFacts ==
    ASSUME NEW e \in Entries, Parented(e)
    PROVE  /\ All(e) \in Seq(Lines) /\ Proper(All(e))
           /\ \A i \in Ids : Has(All(e), i) /\ Parent(All(e), i) = e[i].parent
  <1>1. /\ MaxEntries \in Nat /\ Ids = 1..MaxEntries /\ DOMAIN All(e) = Ids
        /\ \A i \in Ids : All(e)[i] = Line(i, e[i].parent)
    BY BoundsAssumption DEF All, Ids
  <1>2. \A i \in Ids : e[i].parent \in Ids \cup {0}
    BY DEF Entries
  <1>3. \A i \in Ids : /\ All(e)[i] \in Lines /\ All(e)[i].id = i /\ All(e)[i].to = 0
                       /\ All(e)[i].parent = e[i].parent
    BY <1>1, <1>2 DEF Line, Lines
  <1>4. All(e) \in Seq(Lines)
    BY <1>1, <1>3 DEF All
  <1>5. Proper(All(e))
    BY <1>1, <1>3 DEF Proper, Parented
  <1>6. ASSUME NEW i \in Ids
        PROVE  Has(All(e), i) /\ Parent(All(e), i) = e[i].parent
    <2>1. i \in DOMAIN All(e) /\ All(e)[i].id = i
      BY <1>1, <1>3
    <2> QED BY <1>3, <1>4, <1>5, <2>1, ParentOf
  <1> QED BY <1>4, <1>5, <1>6

LEMMA MadeFacts ==
    ASSUME NEW e \in Entries, Parented(e), NEW i \in Ids \cup {0}
    PROVE  /\ Made(e, i) \subseteq Ids
           /\ \A x \in Made(e, i) : x <= i
           /\ i = 0 => Made(e, i) = {}
           /\ i # 0 => Made(e, i) = Made(e, e[i].parent) \cup {i}
  <1>1. All(e) \in Seq(Lines) /\ Proper(All(e))
    BY AllFacts
  <1>2. i # 0 => Has(All(e), i) /\ Parent(All(e), i) = e[i].parent
    BY AllFacts
  <1> QED BY <1>1, <1>2, OnFacts DEF Made

(* One more entry: what was made before is as it was.                      *)
LEMMA MadeNext ==
    ASSUME NEW e \in Entries, Parented(e), NEW f \in Entries, Parented(f),
           NEW i \in Ids, \A j \in Ids : j # i => f[j] = e[j]
    PROVE  /\ \A j \in 0..(i - 1) : Made(f, j) = Made(e, j)
           /\ Made(f, i) = Made(e, f[i].parent) \cup {i}
  <1>1. /\ All(e) \in Seq(Lines) /\ Proper(All(e))
        /\ All(f) \in Seq(Lines) /\ Proper(All(f))
    BY AllFacts
  <1>2. i - 1 \in Ids \cup {0} /\ i \in Nat
    BY BoundsAssumption DEF Ids
  <1>3. \A j \in 1..(i - 1) : j \in Ids /\ j # i
    BY BoundsAssumption DEF Ids
  <1>4. ASSUME NEW j \in 1..(i - 1)
        PROVE  /\ Has(All(f), j) <=> Has(All(e), j)
               /\ Has(All(e), j) => Parent(All(f), j) = Parent(All(e), j)
    BY <1>3, AllFacts
  <1>5. \A j \in 0..(i - 1) : Path(All(f), j) = Path(All(e), j)
    BY <1>1, <1>2, <1>4, PathSame
  <1>6. f[i].parent \in 0..(i - 1)
    BY <1>2, IdsPositive DEF Parented, Entries
  <1>7. Made(f, i) = Made(f, f[i].parent) \cup {i}
    BY MadeFacts, IdsPositive
  <1> QED BY <1>5, <1>6, <1>7 DEF Made, On

-----------------------------------------------------------------------------
(* One more entry, in the log and in what was written. *)

(* Entry i is made, which no earlier summary covers.                       *)
Grown(e, f, i) ==
    /\ e \in Entries /\ Parented(e) /\ f \in Entries /\ Parented(f) /\ i \in Ids
    /\ \A j \in Ids : j # i => f[j] = e[j] /\ i \notin e[j].covers

LEMMA RemembersSame ==
    ASSUME NEW S, NEW W, NEW e, NEW f, \A x \in S \cup W : f[x] = e[x], Remembers(S, W, e)
    PROVE  Remembers(S, W, f)
  <1>1. CASE S = W /\ \A x \in W : e[x].kind # "compaction"
    BY <1>1 DEF Remembers
  <1>2. ASSUME NEW c \in S, Newest(S, e, c), Newest(W, e, c),
               e[c].kept \in S, e[c].kept < c, From(S, e[c].kept) = W \ e[c].covers
        PROVE  Remembers(S, W, f)
    <2>1. Newest(S, f, c) /\ Newest(W, f, c) /\ f[c] = e[c]
      BY <1>2 DEF Newest
    <2> QED BY <1>2, <2>1 DEF Remembers
  <1> QED BY <1>1, <1>2 DEF Remembers

LEMMA RemembersNext ==
    ASSUME NEW e, NEW f, NEW i, Grown(e, f, i), f[i].kind # "compaction",
           NEW S \in SUBSET Ids, NEW W \in SUBSET Ids, \A x \in S \cup W : x < i,
           Remembers(S, W, e)
    PROVE  Remembers(S \cup {i}, W \cup {i}, f)
  <1>1. /\ i \in Ids /\ Ids \subseteq Nat
        /\ \A j \in Ids : j # i => f[j] = e[j] /\ i \notin e[j].covers
    BY IdsPositive DEF Grown
  <1>2. \A x \in S \cup W : x \in Ids /\ x # i /\ f[x] = e[x]
    BY <1>1
  <1>3. CASE S = W /\ \A x \in W : e[x].kind # "compaction"
    BY <1>2, <1>3 DEF Remembers
  <1>4. ASSUME NEW c \in S, Newest(S, e, c), Newest(W, e, c),
               e[c].kept \in S, e[c].kept < c, From(S, e[c].kept) = W \ e[c].covers
        PROVE  Remembers(S \cup {i}, W \cup {i}, f)
    <2>1. Newest(S \cup {i}, f, c) /\ Newest(W \cup {i}, f, c) /\ f[c] = e[c]
      BY <1>2, <1>4 DEF Newest
    <2>2. i >= e[c].kept /\ i \notin e[c].covers
      <3>1. e[c].kept \in Ids /\ e[c].kept < i /\ c \in Ids /\ c # i
        BY <1>2, <1>4
      <3>2. e[c].kept \in Nat /\ i \in Nat
        BY <1>1, <3>1
      <3> QED BY <1>1, <3>1, <3>2
    <2>3. From(S \cup {i}, e[c].kept) = From(S, e[c].kept) \cup {i}
      BY <2>2 DEF From
    <2>4. From(S \cup {i}, f[c].kept) = (W \cup {i}) \ f[c].covers
      BY <1>4, <2>1, <2>2, <2>3
    <2> QED BY <1>4, <2>1, <2>4 DEF Remembers
  <1> QED BY <1>3, <1>4 DEF Remembers

LEMMA RunGoodNext ==
    ASSUME NEW run, NEW i \in Ids, i \notin run.covers,
           NEW S \in SUBSET Ids, NEW W \in SUBSET Ids, \A x \in S \cup W : x < i,
           RunGood(run, S, W)
    PROVE  RunGood(run, S \cup {i}, W \cup {i})
  <1>1. run.kept \in S /\ i >= run.kept
    <2>1. run.kept \in S /\ run.kept \in Ids
      BY DEF RunGood
    <2>2. run.kept \in Nat /\ i \in Nat /\ run.kept < i
      BY <2>1, IdsPositive
    <2> QED BY <2>1, <2>2
  <1>2. From(S \cup {i}, run.kept) = From(S, run.kept) \cup {i}
    BY <1>1 DEF From
  <1> QED BY <1>1, <1>2 DEF RunGood

(* A Compaction Run's entry is the last compaction that makes the context. *)
LEMMA RemembersRun ==
    ASSUME NEW e, NEW f, NEW i, Grown(e, f, i), NEW run,
           f[i].kind = "compaction", f[i].kept = run.kept, f[i].covers = run.covers,
           i \notin run.covers,
           NEW S \in SUBSET Ids, NEW W \in SUBSET Ids, \A x \in S \cup W : x < i,
           RunGood(run, S, W)
    PROVE  Remembers(S \cup {i}, W \cup {i}, f)
  <1>1. i \in Ids /\ Ids \subseteq Nat
    BY IdsPositive DEF Grown
  <1>2. RunGood(run, S \cup {i}, W \cup {i})
    BY <1>1, RunGoodNext
  <1>3. run.kept \in S /\ run.kept < i
    BY DEF RunGood
  <1>4. Newest(S \cup {i}, f, i) /\ Newest(W \cup {i}, f, i)
    BY <1>1 DEF Newest
  <1> QED BY <1>2, <1>3, <1>4 DEF Remembers, RunGood

(* Lines that all come before entry i. *)
Before(lines, i) ==
    lines \in Seq(Lines) /\ Proper(lines) /\ \A k \in DOMAIN lines : lines[k].id < i

LEMMA BeforeFacts ==
    ASSUME NEW lines, NEW i \in Ids, Before(lines, i), NEW j \in Ids \cup {0},
           j = 0 \/ Has(lines, j)
    PROVE  /\ j < i /\ j \in 0..(i - 1)
           /\ On(lines, j) \in SUBSET Ids /\ \A x \in On(lines, j) : x < i
  <1>1. i \in Nat /\ j \in Nat /\ 0 < i /\ Ids \subseteq Nat
    BY IdsPositive DEF Ids
  <1>2. j < i
    BY <1>1 DEF Before, Has
  <1>3. On(lines, j) \in SUBSET Ids /\ \A x \in On(lines, j) : x <= j
    BY OnFacts DEF Before
  <1>4. ASSUME NEW x \in On(lines, j)
        PROVE  x < i
    <2>1. x \in Nat /\ x <= j
      BY <1>1, <1>3
    <2> QED BY <1>1, <1>2, <2>1
  <1>5. j \in 0..(i - 1)
    BY <1>1, <1>2
  <1> QED BY <1>2, <1>3, <1>4, <1>5

LEMMA RootedSame ==
    ASSUME NEW e, NEW f, NEW i, Grown(e, f, i), NEW lines, Before(lines, i),
           NEW n, NEW leaf \in Ids \cup {0}, NEW c, Rooted(n, lines, leaf, e, c)
    PROVE  Rooted(n, lines, leaf, f, c)
  <1>1. /\ i \in Ids /\ Ids \subseteq Nat /\ e \in Entries /\ Parented(e)
        /\ f \in Entries /\ Parented(f) /\ \A j \in Ids : j # i => f[j] = e[j]
    BY IdsPositive DEF Grown
  <1>2. c # 0 => c \in Ids /\ c # i
    <2> SUFFICES ASSUME c # 0 PROVE c \in Ids /\ c # i
      OBVIOUS
    <2>1. c \in On(lines, leaf) /\ (leaf = 0 \/ Has(lines, leaf))
      BY DEF Rooted, Behind
    <2>2. On(lines, leaf) \in SUBSET Ids /\ \A x \in On(lines, leaf) : x < i
      BY <1>1, <2>1, BeforeFacts
    <2> QED BY <1>1, <2>1, <2>2
  <1>3. c # 0 => n > 1 /\ f[c].kind = "compaction"
    BY <1>1, <1>2 DEF Rooted
  <1>4. ASSUME NEW j \in Ids \cup {0}, Behind(lines, c, j)
        PROVE  Remembers(On(lines, j), Made(f, j), f)
    <2>1. Remembers(On(lines, j), Made(e, j), e)
      BY <1>4 DEF Rooted
    <2>2. /\ j \in 0..(i - 1) /\ On(lines, j) \in SUBSET Ids
          /\ \A x \in On(lines, j) : x < i
      BY <1>1, <1>4, BeforeFacts DEF Behind
    <2>3. Made(f, j) = Made(e, j)
      BY <1>1, <2>2, MadeNext
    <2>4. Made(e, j) \in SUBSET Ids /\ \A x \in Made(e, j) : x <= j
      BY <1>1, MadeFacts
    <2>5. \A x \in On(lines, j) \cup Made(e, j) : x \in Ids /\ x # i
      BY <1>1, <2>2, <2>4
    <2> QED BY <1>1, <2>1, <2>3, <2>5, RemembersSame
  <1> QED BY <1>3, <1>4 DEF Rooted

LEMMA GoodSame ==
    ASSUME NEW e, NEW f, NEW i, Grown(e, f, i), NEW lines, Before(lines, i),
           NEW n, NEW leaf \in Ids \cup {0}, Good(n, lines, leaf, e)
    PROVE  Good(n, lines, leaf, f)
  BY RootedSame DEF Good

LEMMA GoodNext ==
    ASSUME NEW e, NEW f, NEW i, Grown(e, f, i), NEW lines, Before(lines, i),
           NEW n, NEW leaf \in Ids \cup {0}, Good(n, lines, leaf, e), f[i].parent = leaf,
           Remembers(On(lines, leaf) \cup {i}, Made(e, leaf) \cup {i}, f)
    PROVE  Good(n, Append(lines, Line(i, leaf)), i, f)
  <1> DEFINE more == Append(lines, Line(i, leaf))
  <1>1. /\ i \in Ids /\ Ids \subseteq Nat /\ e \in Entries /\ Parented(e)
        /\ f \in Entries /\ Parented(f) /\ \A j \in Ids : j # i => f[j] = e[j]
    BY IdsPositive DEF Grown
  <1>2. PICK c \in Ids \cup {0} : Rooted(n, lines, leaf, e, c)
    BY DEF Good
  <1>3. Rooted(n, lines, leaf, f, c)
    BY <1>2, RootedSame
  <1>4. leaf < i
    BY <1>1, <1>2, BeforeFacts DEF Rooted, Behind
  <1>5. /\ more \in Seq(Lines) /\ Proper(more)
        /\ \A j \in 0..(i - 1) : On(more, j) = On(lines, j)
        /\ On(more, i) = On(lines, leaf) \cup {i}
        /\ \A j : Has(more, j) <=> Has(lines, j) \/ j = i
    BY <1>1, <1>4, OnAppend DEF Before
  <1>6. Made(f, i) = Made(e, leaf) \cup {i}
    <2>1. Made(f, i) = Made(e, f[i].parent) \cup {i}
      <3> HIDE DEF more
      <3> QED BY <1>1, MadeNext
    <2> QED BY <2>1
  <1> HIDE DEF more
  <1>7. Behind(more, c, i)
    BY <1>3, <1>5 DEF Rooted, Behind
  <1>8. ASSUME NEW j \in Ids \cup {0}, Behind(more, c, j)
        PROVE  Remembers(On(more, j), Made(f, j), f)
    <2>1. CASE j = i
      BY <1>5, <1>6, <2>1
    <2>2. CASE j # i
      <3>1. j = 0 \/ Has(lines, j)
        BY <1>5, <1>8, <2>2 DEF Behind
      <3>2. j \in 0..(i - 1)
        BY <1>1, <3>1, BeforeFacts
      <3>3. On(more, j) = On(lines, j)
        BY <1>5, <3>2
      <3>4. Behind(lines, c, j)
        BY <1>8, <3>1, <3>3 DEF Behind
      <3> QED BY <1>3, <3>3, <3>4 DEF Rooted
    <2> QED BY <2>1, <2>2
  <1>9. Rooted(n, more, i, f, c)
    BY <1>3, <1>7, <1>8 DEF Rooted
  <1> QED BY <1>9 DEF Good, more

(* A first write that stops leaves the first of the lines.                 *)
LEMMA OnPart ==
    ASSUME NEW lines \in Seq(Lines), Proper(lines), NEW d \in 0..Len(lines)
    PROVE  LET part == SubSeq(lines, 1, d) IN
           /\ part \in Seq(Lines) /\ Proper(part)
           /\ \A j : Has(part, j) => Has(lines, j) /\ On(part, j) = On(lines, j)
           /\ part # <<>> => Has(part, LeafOf(part)) /\ LeafOf(part) \in Ids
           /\ part = <<>> => LeafOf(part) = 0
  <1> DEFINE part == SubSeq(lines, 1, d)
  <1>1. /\ part \in Seq(Lines) /\ Len(part) = d /\ d \in Nat /\ Len(lines) \in Nat
        /\ \A k \in 1..d : part[k] = lines[k]
    BY SubSeqProperties
  <1>2. DOMAIN part = 1..d /\ DOMAIN lines = 1..Len(lines)
    BY <1>1
  <1>3. \A k \in DOMAIN part : k \in DOMAIN lines /\ part[k] = lines[k]
    BY <1>1, <1>2
  <1> HIDE DEF part
  <1>4. Proper(part)
    BY <1>3 DEF Proper
  <1>5. \A j : Has(part, j) => Has(lines, j)
    BY <1>3 DEF Has
  <1>6. ASSUME part # <<>>
        PROVE  /\ d \in DOMAIN part /\ LeafOf(part) = lines[d].id
               /\ Has(part, LeafOf(part)) /\ LeafOf(part) \in Ids
    <2>1. d \in DOMAIN part
      BY <1>1, <1>2, <1>6, EmptySeq
    <2>2. LeafOf(part) = part[d].id
      BY <1>1, <1>6 DEF LeafOf, Last
    <2> QED BY <1>3, <2>1, <2>2 DEF Has, Proper
  <1>7. ASSUME NEW j, Has(part, j)
        PROVE  On(part, j) = On(lines, j)
    <2>1. PICK k \in DOMAIN part : part[k].id = j
      BY <1>7 DEF Has
    <2>2. part # <<>>
      BY <2>1
    <2> DEFINE b == lines[d].id
    <2>3. /\ d \in DOMAIN lines /\ b \in Ids /\ k \in DOMAIN lines /\ lines[k].id = j /\ j \in Ids
      BY <1>3, <1>6, <2>1, <2>2 DEF Proper
    <2>4. j <= b
      <3>1. k = d \/ k < d
        BY <1>1, <1>2, <2>1
      <3> QED BY <2>3, <3>1, IdsPositive DEF Proper
    <2>5. ASSUME NEW x \in 1..b
          PROVE  /\ Has(part, x) <=> Has(lines, x)
                 /\ Has(lines, x) => Parent(part, x) = Parent(lines, x)
      <3> SUFFICES ASSUME Has(lines, x)
                   PROVE  Has(part, x) /\ Parent(part, x) = Parent(lines, x)
        BY <1>5
      <3>1. PICK y \in DOMAIN lines : lines[y].id = x
        BY DEF Has
      <3>2. ~(d < y)
        <4>1. d < y => lines[d].id < lines[y].id
          BY <2>3, <3>1 DEF Proper
        <4>2. ~(b < x)
          BY <2>3, <2>5, IdsPositive
        <4> QED BY <3>1, <4>1, <4>2
      <3>3. y \in DOMAIN part /\ part[y] = lines[y]
        BY <1>1, <1>2, <3>1, <3>2
      <3>4. Parent(lines, x) = lines[y].parent
        BY <3>1, ParentOf
      <3>5. Has(part, x) /\ Parent(part, x) = part[y].parent
        BY <1>1, <1>4, <3>1, <3>3, ParentOf
      <3> QED BY <3>3, <3>4, <3>5
    <2>6. \A leaf \in 0..b : Path(part, leaf) = Path(lines, leaf)
      <3>1. b \in Ids \cup {0}
        BY <2>3
      <3> HIDE DEF b
      <3> QED BY <1>1, <1>4, <2>5, <3>1, PathSame
    <2>7. j \in 0..b
      BY <2>3, <2>4, IdsPositive
    <2> QED BY <2>6, <2>7 DEF On
  <1>8. part = <<>> => LeafOf(part) = 0
    BY DEF LeafOf
  <1> QED BY <1>1, <1>4, <1>5, <1>6, <1>7, <1>8 DEF part

LEMMA GoodPart ==
    ASSUME NEW lines \in Seq(Lines), Proper(lines), NEW leaf, NEW e,
           Good(1, lines, leaf, e), NEW d \in 0..Len(lines)
    PROVE  Good(1, SubSeq(lines, 1, d), LeafOf(SubSeq(lines, 1, d)), e)
  <1> DEFINE part == SubSeq(lines, 1, d)
  <1>1. Rooted(1, lines, leaf, e, 0)
    <2>1. PICK c \in Ids \cup {0} : Rooted(1, lines, leaf, e, c)
      BY DEF Good
    <2>2. c = 0
      BY <2>1 DEF Rooted
    <2> QED BY <2>1, <2>2
  <1>2. /\ part \in Seq(Lines) /\ Proper(part)
        /\ \A j : Has(part, j) => Has(lines, j) /\ On(part, j) = On(lines, j)
        /\ part # <<>> => Has(part, LeafOf(part))
        /\ part = <<>> => LeafOf(part) = 0
    BY OnPart
  <1> HIDE DEF part
  <1>3. Behind(part, 0, LeafOf(part))
    BY <1>2 DEF Behind
  <1>4. ASSUME NEW j \in Ids \cup {0}, Behind(part, 0, j)
        PROVE  Remembers(On(part, j), Made(e, j), e)
    <2>1. CASE j = 0
      <3>1. On(part, 0) = {} /\ On(lines, 0) = {}
        BY <1>2, OnFacts
      <3>2. Behind(lines, 0, 0)
        BY DEF Behind
      <3>3. Remembers(On(lines, 0), Made(e, 0), e)
        BY <1>1, <3>2 DEF Rooted
      <3> QED BY <2>1, <3>1, <3>3
    <2>2. CASE j # 0
      <3>1. Has(lines, j) /\ On(part, j) = On(lines, j)
        BY <1>2, <1>4, <2>2 DEF Behind
      <3>2. Behind(lines, 0, j)
        BY <3>1 DEF Behind
      <3>3. Remembers(On(lines, j), Made(e, j), e)
        BY <1>1, <3>2 DEF Rooted
      <3> QED BY <3>1, <3>3
    <2> QED BY <2>1, <2>2
  <1>5. Rooted(1, part, LeafOf(part), e, 0)
    BY <1>3, <1>4 DEF Rooted
  <1> QED BY <1>5 DEF Good, part

(* A rotated log begins at its compaction, the only leaf behind which is   *)
(* the compaction itself.                                                  *)
LEMMA GoodRotated ==
    ASSUME NEW f, NEW i \in Ids, f[i].kind = "compaction",
           NEW ids \in Seq(Ids), Rising(ids), ids # <<>>, Last(ids) = i,
           NEW n, n > 1, Remembers(Range(ids), Made(f, i), f)
    PROVE  Good(n, Chained(ids), i, f)
  <1> DEFINE lines == Chained(ids)
  <1>1. /\ lines \in Seq(Lines) /\ Proper(lines) /\ Len(lines) = Len(ids)
        /\ \A k \in DOMAIN ids : lines[k].id = ids[k]
    BY ChainedProper
  <1>2. On(lines, i) = Range(ids)
    BY ChainedPath DEF On
  <1>3. /\ Len(ids) \in DOMAIN ids /\ ids[Len(ids)] = i /\ DOMAIN lines = DOMAIN ids
        /\ Len(ids) \in Nat /\ DOMAIN ids = 1..Len(ids)
    BY <1>1, EmptySeq, LenProperties DEF Last
  <1> HIDE DEF lines
  <1>4. Has(lines, i) /\ i \in On(lines, i)
    BY <1>1, <1>2, <1>3 DEF Has, Range
  <1>5. ASSUME NEW j \in Ids \cup {0}, Behind(lines, i, j)
        PROVE  j = i
    <2>1. i <= j /\ i \in Nat /\ j \in Nat /\ i # 0
      BY <1>1, <1>5, OnFacts, IdsPositive DEF Behind
    <2>2. PICK k \in DOMAIN lines : lines[k].id = j
      BY <1>5, <2>1 DEF Behind, Has
    <2>3. j <= i
      <3>1. ids[k] = j /\ k \in DOMAIN ids
        BY <1>1, <1>3, <2>2
      <3>2. k = Len(ids) \/ k < Len(ids)
        BY <1>3, <3>1
      <3> QED BY <1>3, <2>1, <3>1, <3>2 DEF Rising
    <2> QED BY <2>1, <2>3
  <1>6. Rooted(n, lines, i, f, i)
    BY <1>2, <1>4, <1>5, IdsPositive DEF Rooted, Behind
  <1> QED BY <1>6 DEF Good, lines

(* The leaf may move while it stays behind the last compaction.            *)
LEMMA GoodBranch ==
    ASSUME NEW lines \in Seq(Lines), Proper(lines), NEW e, NEW n \in Logs,
           NEW leaf \in Ids \cup {0}, Good(n, lines, leaf, e),
           NEW i \in Ids \cup {0}, i = 0 \/ Has(lines, i),
           n = 1 \/ \E t \in On(lines, i) : Newest(On(lines, leaf), e, t)
    PROVE  Good(n, lines, i, e)
  <1>1. PICK c \in Ids \cup {0} : Rooted(n, lines, leaf, e, c)
    BY DEF Good
  <1>2. n \in Nat /\ n >= 1
    BY BoundsAssumption DEF Logs
  <1>3. Behind(lines, c, i)
    <2>1. CASE n = 1
      BY <1>1, <2>1 DEF Rooted, Behind
    <2>2. ASSUME NEW t \in On(lines, i), Newest(On(lines, leaf), e, t), n # 1
          PROVE  Behind(lines, c, i)
      <3>1. c \in On(lines, leaf) /\ e[c].kind = "compaction"
        BY <1>1, <1>2, <2>2 DEF Rooted, Behind
      <3>2. t \in On(lines, leaf) /\ c <= t
        <4>1. t \in On(lines, leaf) /\ ~(c > t)
          BY <2>2, <3>1 DEF Newest
        <4>2. c \in Nat /\ t \in Nat
          BY <3>1, <4>1, OnFacts, IdsPositive
        <4> QED BY <4>1, <4>2
      <3>3. c \in On(lines, t)
        BY <3>1, <3>2, OnThrough
      <3>4. c \in On(lines, i)
        BY <3>3, OnThrough
      <3> QED BY <3>4 DEF Behind
    <2> QED BY <2>1, <2>2
  <1> QED BY <1>1, <1>3 DEF Good, Rooted

-----------------------------------------------------------------------------
(* Places on a path, as entries. *)

LEMMA RisingOrder ==
    ASSUME NEW path \in Seq(Ids), Rising(path)
    PROVE  \A j, k \in DOMAIN path : /\ j \in Nat /\ k \in Nat
                                     /\ path[j] \in Ids /\ path[j] \in Nat
                                     /\ path[j] >= path[k] <=> j >= k
  <1>1. /\ \A k \in DOMAIN path : k \in Nat /\ path[k] \in Ids
        /\ Ids \subseteq Nat
    BY LenProperties, ElementOfSeq, IdsPositive
  <1> SUFFICES ASSUME NEW j \in DOMAIN path, NEW k \in DOMAIN path
               PROVE  path[j] >= path[k] <=> j >= k
    BY <1>1
  <1>2. j \in Nat /\ k \in Nat /\ path[j] \in Nat /\ path[k] \in Nat
    BY <1>1
  <1>3. j < k => path[j] < path[k]
    BY DEF Rising
  <1>4. k < j => path[k] < path[j]
    BY DEF Rising
  <1> QED BY <1>2, <1>3, <1>4

LEMMA FromPlaces ==
    ASSUME NEW path \in Seq(Ids), Rising(path),
           NEW a \in DOMAIN path, NEW b \in DOMAIN path, a <= b
    PROVE  From(Range(path), path[b]) =
             From(Range(path), path[a]) \ {path[k] : k \in a..(b - 1)}
  <1>1. \A j, k \in DOMAIN path : /\ j \in Nat /\ k \in Nat
                                  /\ path[j] >= path[k] <=> j >= k
    BY RisingOrder
  <1>2. DOMAIN path = 1..Len(path) /\ Len(path) \in Nat
    BY LenProperties
  <1>3. \A k \in a..(b - 1) : k \in DOMAIN path
    BY <1>2
  <1>4. ASSUME NEW x \in From(Range(path), path[b])
        PROVE  x \in From(Range(path), path[a]) /\ x \notin {path[k] : k \in a..(b - 1)}
    <2>1. PICK j \in DOMAIN path : x = path[j]
      BY DEF From, Range
    <2>2. path[j] >= path[b]
      BY <2>1 DEF From
    <2>3. j >= b
      BY <1>1, <2>2
    <2>4. j >= a /\ j \notin a..(b - 1)
      BY <1>1, <2>3
    <2>5. x \in From(Range(path), path[a])
      BY <1>1, <2>1, <2>4 DEF From, Range
    <2>6. \A k \in a..(b - 1) : path[k] # path[j]
      <3> TAKE k \in a..(b - 1)
      <3>1. ~(k >= j)
        BY <1>1, <1>3, <2>3
      <3>2. ~(path[k] >= path[j])
        BY <1>1, <1>3, <3>1
      <3>3. path[j] >= path[j]
        BY <1>1
      <3> QED BY <3>2, <3>3
    <2> QED BY <2>1, <2>5, <2>6
  <1>5. ASSUME NEW x \in From(Range(path), path[a]), x \notin {path[k] : k \in a..(b - 1)}
        PROVE  x \in From(Range(path), path[b])
    <2>1. PICK j \in DOMAIN path : x = path[j]
      BY DEF From, Range
    <2>2. path[j] >= path[a]
      BY <2>1 DEF From
    <2>3. j >= a
      BY <1>1, <2>2
    <2>4. j \notin a..(b - 1)
      BY <1>5, <2>1
    <2>5. j >= b
      BY <1>1, <2>3, <2>4
    <2>6. path[j] >= path[b]
      BY <1>1, <2>5
    <2> QED BY <2>1, <2>6 DEF From, Range
  <1> QED BY <1>4, <1>5

(* The last compaction of a path, by its place and by its number.          *)
LEMMA NewestAt ==
    ASSUME NEW path \in Seq(Ids), Rising(path)
    PROVE  LET at == LastAt(path, OfKind({"compaction"})) IN
           /\ at = 0 => \A x \in Range(path) : entry[x].kind # "compaction"
           /\ at # 0 => at \in DOMAIN path /\ Newest(Range(path), entry, path[at])
  <1> DEFINE at == LastAt(path, OfKind({"compaction"}))
  <1>1. \/ at = 0 /\ \A k \in DOMAIN path : path[k] \notin OfKind({"compaction"})
        \/ /\ at \in DOMAIN path /\ path[at] \in OfKind({"compaction"})
           /\ \A k \in DOMAIN path : k > at => path[k] \notin OfKind({"compaction"})
    BY SelectedPlaces
  <1> HIDE DEF at
  <1>2. \A k \in DOMAIN path : path[k] \in Ids /\ k \in Nat
    BY RisingOrder
  <1>3. \A x \in Ids : x \in OfKind({"compaction"}) <=> entry[x].kind = "compaction"
    BY DEF OfKind, Kind
  <1>4. at = 0 => \A x \in Range(path) : entry[x].kind # "compaction"
    <2> SUFFICES ASSUME at = 0, NEW k \in DOMAIN path
                 PROVE  entry[path[k]].kind # "compaction"
      BY DEF Range
    <2>1. at \notin DOMAIN path
      BY LenProperties
    <2> QED BY <1>1, <1>2, <1>3, <2>1
  <1>5. ASSUME at # 0
        PROVE  at \in DOMAIN path /\ Newest(Range(path), entry, path[at])
    <2>1. /\ at \in DOMAIN path /\ entry[path[at]].kind = "compaction"
          /\ \A k \in DOMAIN path : k > at => entry[path[k]].kind # "compaction"
      BY <1>1, <1>2, <1>3, <1>5
    <2>2. path[at] \in Range(path)
      BY <2>1 DEF Range
    <2>3. ASSUME NEW x \in Range(path), x > path[at]
          PROVE  entry[x].kind # "compaction"
      <3>1. PICK k \in DOMAIN path : x = path[k]
        BY DEF Range
      <3>2. at >= k <=> path[at] >= path[k]
        BY <2>1, RisingOrder
      <3>3. at \in Nat /\ k \in Nat /\ path[at] \in Nat /\ path[k] \in Nat
        BY <2>1, RisingOrder
      <3>4. k > at
        BY <2>3, <3>1, <3>2, <3>3
      <3> QED BY <2>1, <3>1, <3>4
    <2> QED BY <2>1, <2>2, <2>3 DEF Newest
  <1> QED BY <1>4, <1>5 DEF at

LEMMA NewestOnce ==
    ASSUME NEW S \in SUBSET Ids, NEW e, NEW b, NEW c, Newest(S, e, b), Newest(S, e, c)
    PROVE  b = c
  <1>1. b \in Nat /\ c \in Nat /\ ~(b > c) /\ ~(c > b)
    BY IdsPositive DEF Newest
  <1> QED BY <1>1

(* What prepareCompaction makes of a path that remembers.                  *)
LEMMA RunFound ==
    ASSUME NEW path \in Seq(Ids), Rising(path), NEW W \in SUBSET Ids,
           Remembers(Range(path), W, entry),
           NEW prev, prev = LastAt(path, OfKind({"compaction"})),
           NEW keptAt, keptAt = FirstAt(path, {entry[path[prev]].kept}),
           NEW start, start = IF prev = 0 THEN 1 ELSE IF keptAt # 0 THEN keptAt ELSE prev + 1,
           NEW cut \in (start + 1)..Len(path),
           NEW run, run.kept = path[cut],
           run.covers = {path[k] : k \in start..(cut - 1)} \cup
                        (IF prev = 0 THEN {} ELSE entry[path[prev]].covers)
    PROVE  RunGood(run, Range(path), W)
  <1> DEFINE S == Range(path)
             covered == {path[k] : k \in start..(cut - 1)}
  <1>1. S \in SUBSET Ids /\ DOMAIN path = 1..Len(path) /\ Len(path) \in Nat
    BY LenProperties, ElementOfSeq DEF Range
  <1>2. \/ S = W /\ \A x \in W : entry[x].kind # "compaction"
        \/ \E c \in S : /\ Newest(S, entry, c) /\ Newest(W, entry, c)
                        /\ entry[c].kept \in S /\ entry[c].kept < c
                        /\ From(S, entry[c].kept) = W \ entry[c].covers
    BY DEF Remembers
  <1>3. /\ prev = 0 => \A x \in S : entry[x].kind # "compaction"
        /\ prev # 0 => prev \in DOMAIN path /\ Newest(S, entry, path[prev])
    BY NewestAt
  <1>4. CASE prev = 0
    <2>1. S = W
      <3>1. ~ \E c \in S : Newest(S, entry, c)
        BY <1>3, <1>4 DEF Newest
      <3> QED BY <1>2, <3>1
    <2>2. start = 1 /\ 1 \in DOMAIN path /\ cut \in DOMAIN path /\ 1 <= cut
      BY <1>1, <1>4
    <2>3. From(S, path[cut]) = From(S, path[1]) \ covered
      BY <2>2, FromPlaces
    <2>4. From(S, path[1]) = S
      <3>1. \A k \in DOMAIN path : path[k] >= path[1]
        BY <1>1, <2>2, RisingOrder
      <3> QED BY <3>1 DEF From, Range
    <2>5. run.covers = covered
      BY <1>4
    <2>6. path[cut] \in S
      BY <2>2 DEF Range
    <2> HIDE DEF covered, S
    <2> QED BY <2>1, <2>3, <2>4, <2>5, <2>6 DEF RunGood, S
  <1>5. CASE prev # 0
    <2> DEFINE c == path[prev]
    <2>1. Newest(S, entry, c) /\ c \in S /\ entry[c].kind = "compaction"
      BY <1>3, <1>5 DEF Newest
    <2> HIDE DEF c
    <2>2. entry[c].kept \in S /\ From(S, entry[c].kept) = W \ entry[c].covers
      <3>1. ~(S = W /\ \A x \in W : entry[x].kind # "compaction")
        BY <2>1
      <3>2. PICK d \in S : /\ Newest(S, entry, d) /\ entry[d].kept \in S
                           /\ From(S, entry[d].kept) = W \ entry[d].covers
        BY <1>2, <3>1
      <3>3. d = c
        BY <1>1, <2>1, <3>2, NewestOnce
      <3> QED BY <3>2, <3>3
    <2> DEFINE kept == entry[c].kept
    <2>3. keptAt \in DOMAIN path /\ path[keptAt] = kept
      <3>1. keptAt = FirstAt(path, {kept})
        BY DEF c
      <3>2. \E k \in DOMAIN path : path[k] \in {kept}
        BY <2>2 DEF Range
      <3> HIDE DEF kept
      <3>3. \/ FirstAt(path, {kept}) = 0 /\ \A k \in DOMAIN path : path[k] \notin {kept}
            \/ FirstAt(path, {kept}) \in DOMAIN path /\ path[FirstAt(path, {kept})] \in {kept}
        BY SelectedPlaces
      <3> QED BY <3>1, <3>2, <3>3
    <2>4. start = keptAt /\ keptAt <= cut /\ cut \in DOMAIN path
      BY <1>1, <1>5, <2>3
    <2>5. From(S, path[cut]) = From(S, path[keptAt]) \ covered
      BY <2>3, <2>4, FromPlaces
    <2>6. run.covers = covered \cup entry[c].covers
      BY <1>5 DEF c
    <2>7. path[cut] \in S
      BY <2>4 DEF Range
    <2> HIDE DEF covered, S
    <2> QED BY <2>2, <2>3, <2>5, <2>6, <2>7 DEF RunGood, S
  <1> QED BY <1>4, <1>5

(* A log carries all of the path from the tail's start on. *)
LEMMA CarriedTail ==
    \A path \in Seq(Ids) : \A start \in DOMAIN path :
        \A j \in DOMAIN path : start <= j =>
            \E k \in DOMAIN Carried(path, start) : Carried(path, start)[k] = path[j]
  <1> SUFFICES ASSUME NEW path \in Seq(Ids), NEW start \in DOMAIN path,
                      NEW j \in DOMAIN path, start <= j
               PROVE  \E k \in DOMAIN Carried(path, start) : Carried(path, start)[k] = path[j]
    OBVIOUS
  <1> DEFINE finished == LastAt(path, OfKind({"finished"}))
             tail == SubSeq(path, start, Len(path))
             has == finished < start /\ finished # 0
             lead == IF has THEN <<path[finished]>> ELSE <<>>
  <1>1. Carried(path, start) = lead \o tail
    BY Selections DEF Carried
  <1>2. Len(path) \in Nat /\ DOMAIN path = 1..Len(path) /\ start \in 1..Len(path)
    BY LenProperties
  <1>3. finished # 0 => finished \in DOMAIN path
    BY SelectedPlaces
  <1>4. /\ tail \in Seq(Ids) /\ Len(tail) = Len(path) - start + 1
        /\ \A k \in 1..Len(tail) : tail[k] = path[start + k - 1]
    BY <1>2, SubSeqProperties
  <1> HIDE DEF finished, tail
  <1> DEFINE at == j - start + 1
  <1>5. at \in 1..Len(tail) /\ start + at - 1 = j
    BY <1>2, <1>4
  <1>6. tail[at] = path[j]
    BY <1>4, <1>5
  <1> HIDE DEF at
  <1>7. CASE has
    <2>1. path[finished] \in Ids
      BY <1>3, <1>7, ElementOfSeq, <1>2
    <2>2. lead \in Seq(Ids) /\ Len(lead) = 1
      BY <1>7, <2>1
    <2> DEFINE all == lead \o tail
    <2>3. /\ all \in Seq(Ids) /\ Len(all) = 1 + Len(tail)
          /\ \A k \in 1..(1 + Len(tail)) : all[k] = IF k <= 1 THEN lead[k] ELSE tail[k - 1]
      BY <1>4, <2>2, ConcatProperties
    <2> HIDE DEF lead, all
    <2>4. at + 1 \in 1..(1 + Len(tail)) /\ ~(at + 1 <= 1) /\ (at + 1) - 1 = at
      BY <1>5
    <2>5. all[at + 1] = tail[at]
      BY <2>3, <2>4
    <2>6. DOMAIN all = 1..(1 + Len(tail))
      BY <2>3, LenProperties
    <2> QED BY <1>1, <1>6, <2>4, <2>5, <2>6 DEF all
  <1>8. CASE ~has
    <2>1. lead \o tail = tail
      BY <1>4, <1>8, ConcatEmptySeq
    <2>2. at \in DOMAIN tail
      BY <1>4, <1>5, LenProperties
    <2> QED BY <1>1, <1>6, <2>1, <2>2
  <1> QED BY <1>7, <1>8

LEMMA CarriedFrom ==
    ASSUME NEW path \in Seq(Ids), Rising(path), NEW start \in DOMAIN path,
           NEW at \in DOMAIN path, start <= at
    PROVE  /\ path[at] \in Range(Carried(path, start))
           /\ From(Range(Carried(path, start)), path[at]) = From(Range(path), path[at])
  <1> DEFINE carried == Carried(path, start)
  <1>1. \A k \in DOMAIN carried : \E j \in DOMAIN path : carried[k] = path[j]
    BY CarriedFacts
  <1>2. \A j \in DOMAIN path : start <= j => \E k \in DOMAIN carried : carried[k] = path[j]
    BY CarriedTail
  <1> HIDE DEF carried
  <1>3. \A j, k \in DOMAIN path : /\ j \in Nat /\ k \in Nat
                                  /\ path[j] >= path[k] <=> j >= k
    BY RisingOrder
  <1>4. path[at] \in Range(carried)
    BY <1>2 DEF Range
  <1>5. ASSUME NEW x \in From(Range(path), path[at])
        PROVE  x \in From(Range(carried), path[at])
    <2>1. PICK j \in DOMAIN path : x = path[j]
      BY DEF From, Range
    <2>2. path[j] >= path[at]
      BY <2>1 DEF From
    <2>3. j >= at
      BY <1>3, <2>2
    <2>4. start <= j
      BY <1>3, <2>3
    <2> QED BY <1>2, <2>1, <2>2, <2>4 DEF From, Range
  <1>6. From(Range(carried), path[at]) \subseteq From(Range(path), path[at])
    BY <1>1 DEF From, Range
  <1> QED BY <1>4, <1>5, <1>6 DEF carried

(* The place before which a rotated log's tail begins. *)
LEMMA TailBefore ==
    \A path \in Seq(Ids) : \A kept \in Range(path) : \A start \in TailStarts(path, kept) :
        /\ start \in DOMAIN path
        /\ \E at \in DOMAIN path : path[at] = kept /\ start <= at
  <1> SUFFICES ASSUME NEW path \in Seq(Ids), NEW kept \in Range(path),
                      NEW start \in TailStarts(path, kept)
               PROVE  /\ start \in DOMAIN path
                      /\ \E at \in DOMAIN path : path[at] = kept /\ start <= at
    OBVIOUS
  <1>1. \E k \in DOMAIN path : path[k] = kept
    BY DEF Range
  <1>2. Contains(path, kept)
    BY <1>1, LenProperties DEF Contains
  <1>3. start \in DOMAIN path /\ start <= SelectInSeq(path, LAMBDA i : i = kept)
    BY <1>2 DEF TailStarts
  <1>4. SelectInSeq(path, LAMBDA i : i = kept) = FirstAt(path, {kept})
    BY Selections
  <1>5. \/ FirstAt(path, {kept}) = 0 /\ \A k \in DOMAIN path : path[k] \notin {kept}
        \/ FirstAt(path, {kept}) \in DOMAIN path /\ path[FirstAt(path, {kept})] \in {kept}
    BY SelectedPlaces
  <1> QED BY <1>1, <1>3, <1>4, <1>5

-----------------------------------------------------------------------------
(* The property in terms of entries. *)

LEMMA WrittenFacts ==
    ASSUME entry \in Entries, Parented(entry), last \in Ids \cup {0}
    PROVE  Written \in Seq(Ids) /\ Rising(Written) /\ Range(Written) = Made(entry, last)
  <1> DEFINE D == Ids \cup {0}
             Up(g, i) == IF i = 0 THEN <<>> ELSE Append(g[entry[i].parent], i)
             path == CHOOSE g : g = [i \in D |-> Up(g, i)]
             made == [i \in D |-> Path(All(entry), i)]
  <1>1. D = 0..MaxEntries /\ MaxEntries \in Nat
    BY BoundsAssumption DEF Ids
  <1>2. /\ All(entry) \in Seq(Lines) /\ Proper(All(entry))
        /\ \A i \in Ids : Has(All(entry), i) /\ Parent(All(entry), i) = entry[i].parent
    BY AllFacts
  <1>3. \A i \in Ids : entry[i].parent \in D /\ entry[i].parent < i
    BY DEF Entries, Parented
  <1>4. \A i \in D : made[i] = Up(made, i)
    <2> TAKE i \in D
    <2>1. CASE i = 0
      <3>1. Path(All(entry), 0) = <<>>
        BY <1>2, PathFacts
      <3> QED BY <2>1, <3>1
    <2>2. CASE i # 0
      <3>1. Path(All(entry), i) = Append(Path(All(entry), entry[i].parent), i)
        BY <1>2, <2>2, PathFacts
      <3>2. made[entry[i].parent] = Path(All(entry), entry[i].parent)
        BY <1>3, <2>2
      <3> QED BY <2>2, <3>1, <3>2
    <2> QED BY <2>1, <2>2
  <1>5. made = [i \in D |-> Up(made, i)]
    BY <1>4
  <1> HIDE DEF made
  <1>6. path = [i \in D |-> Up(path, i)]
    BY <1>5
  <1>7. Written = path[last]
    BY DEF Written
  <1> HIDE DEF path
  <1>8. \A i \in D : path[i] = Up(path, i)
    BY <1>6
  <1> DEFINE S == {i \in D : path[i] = made[i]}
  <1>9. ASSUME NEW n \in 0..MaxEntries, \A k \in 0..MaxEntries : k < n => k \in S
        PROVE  n \in S
    <2>1. CASE n = 0
      BY <1>1, <1>4, <1>8, <2>1
    <2>2. CASE n # 0
      <3>1. n \in Ids /\ entry[n].parent \in 0..MaxEntries /\ entry[n].parent < n
        BY <1>1, <1>3, <2>2
      <3>2. path[entry[n].parent] = made[entry[n].parent]
        BY <1>9, <3>1
      <3>3. Up(path, n) = Up(made, n)
        BY <3>2
      <3> QED BY <1>1, <1>4, <1>8, <3>3
    <2> QED BY <2>1, <2>2
  <1>10. \A n \in 0..MaxEntries : n \in S
    <2> HIDE DEF S
    <2> QED BY <1>1, <1>9, UpTo
  <1>11. Written = Path(All(entry), last)
    BY <1>1, <1>7, <1>10 DEF made
  <1>12. Path(All(entry), last) \in Seq(Ids)
    BY <1>2, PathFacts
  <1>13. Rising(Path(All(entry), last))
    BY <1>2, PathRises DEF Rising
  <1> QED BY <1>11, <1>12, <1>13 DEF Made, On

LEMMA ContextMeans ==
    ASSUME NEW path \in Seq(Ids), Rising(path), NEW w \in Seq(Ids), Rising(w),
           Remembers(Range(path), Range(w), entry),
           NEW at, at = SelectLastInSeq(w, IsCompaction)
    PROVE  Context(path) = Range(w) \ (IF at = 0 THEN {} ELSE entry[w[at]].covers)
  <1> DEFINE S == Range(path)
             W == Range(w)
             from == SelectLastInSeq(path, IsCompaction)
             kept == entry[path[from]].kept
             keptAt == SelectInSeq(path, LAMBDA i : i = entry[path[from]].kept)
  <1>1. /\ Context(path) =
             IF from = 0 THEN S
             ELSE {path[k] : k \in {k \in DOMAIN path :
                                 k >= from \/ (keptAt # 0 /\ k >= keptAt)}}
    BY DEF Context
  <1>2. /\ from = LastAt(path, OfKind({"compaction"}))
        /\ at = LastAt(w, OfKind({"compaction"}))
    BY Selections
  <1>3. keptAt = FirstAt(path, {kept})
    <2> HIDE DEF kept
    <2>1. SelectInSeq(path, LAMBDA i : i = kept) = FirstAt(path, {kept})
      BY Selections
    <2> QED BY <2>1 DEF kept
  <1> HIDE DEF from, keptAt
  <1>4. /\ from = 0 => \A x \in S : entry[x].kind # "compaction"
        /\ from # 0 => from \in DOMAIN path /\ Newest(S, entry, path[from])
    BY <1>2, NewestAt
  <1>5. /\ at = 0 => \A x \in W : entry[x].kind # "compaction"
        /\ at # 0 => at \in DOMAIN w /\ Newest(W, entry, w[at])
    BY <1>2, NewestAt
  <1>6. S \in SUBSET Ids /\ W \in SUBSET Ids
    BY LenProperties, ElementOfSeq DEF Range
  <1>7. \/ S = W /\ \A x \in W : entry[x].kind # "compaction"
        \/ \E c \in S : /\ Newest(S, entry, c) /\ Newest(W, entry, c)
                        /\ entry[c].kept \in S /\ entry[c].kept < c
                        /\ From(S, entry[c].kept) = W \ entry[c].covers
    BY DEF Remembers
  <1>8. ASSUME S = W, \A x \in W : entry[x].kind # "compaction"
        PROVE  Context(path) = W \ (IF at = 0 THEN {} ELSE entry[w[at]].covers)
    <2>1. from = 0 /\ at = 0
      BY <1>4, <1>5, <1>8 DEF Newest
    <2> QED BY <1>1, <1>8, <2>1
  <1>9. ASSUME NEW c \in S, Newest(S, entry, c), Newest(W, entry, c),
               entry[c].kept \in S, entry[c].kept < c,
               From(S, entry[c].kept) = W \ entry[c].covers
        PROVE  Context(path) = W \ (IF at = 0 THEN {} ELSE entry[w[at]].covers)
    <2>1. from # 0 /\ at # 0
      BY <1>4, <1>5, <1>9 DEF Newest
    <2>2. path[from] = c /\ w[at] = c
      <3>1. path[from] = c
        BY <1>4, <1>6, <1>9, <2>1, NewestOnce
      <3>2. w[at] = c
        BY <1>5, <1>6, <1>9, <2>1, NewestOnce
      <3> QED BY <3>1, <3>2
    <2>3. keptAt \in DOMAIN path /\ path[keptAt] = kept
      <3>1. \E k \in DOMAIN path : path[k] \in {kept}
        BY <1>9, <2>2 DEF Range
      <3> HIDE DEF kept
      <3>2. \/ FirstAt(path, {kept}) = 0 /\ \A k \in DOMAIN path : path[k] \notin {kept}
            \/ FirstAt(path, {kept}) \in DOMAIN path /\ path[FirstAt(path, {kept})] \in {kept}
        BY SelectedPlaces
      <3> QED BY <1>3, <3>1, <3>2
    <2>4. kept = entry[c].kept /\ from \in DOMAIN path
      BY <1>4, <2>1, <2>2
    <2> HIDE DEF kept
    <2>5. \A j, k \in DOMAIN path : /\ j \in Nat /\ k \in Nat
                                    /\ path[j] >= path[k] <=> j >= k
      BY RisingOrder
    <2>6. keptAt # 0 /\ keptAt <= from
      <3>1. keptAt # 0
        BY <2>3, LenProperties
      <3>2. path[from] >= path[keptAt]
        <4>1. kept \in Nat /\ c \in Nat /\ kept < c
          BY <1>6, <1>9, <2>4, IdsPositive
        <4>2. c >= kept
          BY <4>1
        <4> QED BY <2>2, <2>3, <4>2
      <3>3. from >= keptAt
        BY <2>3, <2>4, <2>5, <3>2
      <3>4. from \in Nat /\ keptAt \in Nat
        BY <2>3, <2>4, <2>5
      <3> QED BY <3>1, <3>3, <3>4
    <2>7. \A k \in DOMAIN path :
             (k >= from \/ (keptAt # 0 /\ k >= keptAt)) <=> path[k] >= kept
      <3> TAKE k \in DOMAIN path
      <3>1. k \in Nat /\ from \in Nat /\ keptAt \in Nat
        BY <2>3, <2>4, <2>5
      <3>2. path[k] >= kept <=> k >= keptAt
        BY <2>3, <2>5
      <3> QED BY <2>6, <3>1, <3>2
    <2>8. {path[k] : k \in {k \in DOMAIN path :
                              k >= from \/ (keptAt # 0 /\ k >= keptAt)}} = From(S, kept)
      BY <2>7 DEF From, Range
    <2>9. Context(path) = From(S, kept)
      BY <1>1, <2>1, <2>8
    <2> HIDE DEF S, W
    <2> QED BY <1>9, <2>1, <2>2, <2>4, <2>9
  <1>10. Context(path) = W \ (IF at = 0 THEN {} ELSE entry[w[at]].covers)
    <2> HIDE DEF S, W
    <2> QED BY <1>7, <1>8, <1>9
  <1> QED BY <1>10

-----------------------------------------------------------------------------
(* Entries and runs name what was made before. *)

EntryInv ==
    /\ Parented(entry)
    /\ \A i \in Ids : \A x \in entry[i].covers : x <= next
    /\ \A m \in Managers : /\ ~mem[m].up => runs[m] = {}
                           /\ \A run \in runs[m] : \A x \in run.covers : x <= next

LEMMA GrownNext ==
    ASSUME TypeInv, EntryInv, NEW m \in Managers,
           NEW k \in Kinds, NEW kept \in Ids \cup {0}, NEW covers \in SUBSET Ids,
           \A x \in covers : x <= next, NewEntry(m, k, kept, covers)
    PROVE  /\ Grown(entry, entry', next + 1) /\ next' = next + 1 /\ next \in Nat
           /\ \A x \in covers : x # next + 1
           /\ \A i \in Ids : \A x \in entry'[i].covers : x <= next'
           /\ entry'[next + 1].kind = k /\ entry'[next + 1].parent = mem[m].leaf
           /\ entry'[next + 1].kept = kept /\ entry'[next + 1].covers = covers
  <1> DEFINE i == next + 1
  <1>1. /\ i \in Ids /\ next \in Nat /\ next' = i
        /\ entry' \in Entries
        /\ \A j \in Ids : j # i => entry'[j] = entry[j]
    BY EntryMade DEF Entries
  <1>2. entry'[i] = [kind |-> k, parent |-> mem[m].leaf, kept |-> kept, covers |-> covers]
    BY EntryMade
  <1>3. /\ entry'[i].kind = k /\ entry'[i].parent = mem[m].leaf
        /\ entry'[i].kept = kept /\ entry'[i].covers = covers
    BY <1>2
  <1>4. mem[m].leaf <= next /\ mem[m].leaf \in Nat
    BY IdsPositive DEF TypeInv, TypeOK, LinesInv, MemoryInv, Memory
  <1>5. mem[m].leaf < i /\ next < i
    BY <1>1, <1>4
  <1>6. entry \in Entries
    BY DEF TypeInv, TypeOK, Entries
  <1>7. Parented(entry')
    BY <1>1, <1>3, <1>5 DEF Parented, EntryInv
  <1>8. ASSUME NEW j \in Ids, NEW x \in entry[j].covers
        PROVE  x <= i /\ x # i
    <2>1. x \in Nat /\ x <= next
      BY <1>6, IdsPositive DEF Entries, EntryInv
    <2> QED BY <1>1, <2>1
  <1>9. \A x \in covers : x # i /\ x <= i
    <2>1. \A x \in covers : x \in Nat /\ x <= next
      BY IdsPositive
    <2> QED BY <1>1, <2>1
  <1> HIDE DEF i
  <1>10. \A j \in Ids : \A x \in entry'[j].covers : x <= next'
    <2> TAKE j \in Ids
    <2>1. CASE j = i
      BY <1>1, <1>3, <1>9, <2>1
    <2>2. CASE j # i
      BY <1>1, <1>8, <2>2
    <2> QED BY <2>1, <2>2
  <1>11. Grown(entry, entry', i)
    BY <1>1, <1>6, <1>7, <1>8 DEF Grown, EntryInv
  <1> QED BY <1>1, <1>3, <1>9, <1>10, <1>11 DEF i

LEMMA EntryStep ==
    ASSUME TypeInv, EntryInv, next' \in Nat, next <= next', Parented(entry'),
           \A i \in Ids : \A x \in entry'[i].covers : x <= next',
           runs' \in [Managers -> SUBSET [kept : Ids, covers : SUBSET Ids]],
           \A m \in Managers :
               /\ mem'[m].up \/ runs'[m] = {} \/ (~mem[m].up /\ runs'[m] = runs[m])
               /\ \A run \in runs'[m] : run \in runs[m] \/ \A x \in run.covers : x <= next
    PROVE  EntryInv'
  <1>1. ASSUME NEW m \in Managers, NEW run \in runs'[m], NEW x \in run.covers
        PROVE  x <= next'
    <2>1. run \in [kept : Ids, covers : SUBSET Ids]
      BY <1>1
    <2>2. x \in Nat /\ next \in Nat
      BY <1>1, <2>1, IdsPositive DEF TypeInv, TypeOK
    <2>3. x <= next
      BY <1>1 DEF EntryInv
    <2> QED BY <2>2, <2>3
  <1>2. \A m \in Managers : ~mem'[m].up => runs'[m] = {}
    BY DEF EntryInv
  <1> QED BY <1>1, <1>2 DEF EntryInv

LEMMA AppendEntryInv ==
    ASSUME TypeInv, TypeInv', EntryInv, NEW m \in Managers,
           NEW k \in Kinds, NEW kept \in Ids \cup {0}, NEW covers \in SUBSET Ids,
           \A x \in covers : x <= next, NewEntry(m, k, kept, covers),
           NEW memory, mem' = [mem EXCEPT ![m] = memory], memory.up,
           \A o \in Managers : runs'[o] \subseteq runs[o]
    PROVE  EntryInv'
  <1>1. /\ Parented(entry') /\ next \in Nat /\ next' = next + 1
        /\ \A i \in Ids : \A x \in entry'[i].covers : x <= next'
    BY GrownNext DEF Grown
  <1>2. next' \in Nat /\ next <= next'
    BY <1>1
  <1>3. runs' \in [Managers -> SUBSET [kept : Ids, covers : SUBSET Ids]]
    BY DEF TypeInv, TypeOK
  <1>4. ASSUME NEW o \in Managers
        PROVE  /\ mem'[o].up \/ runs'[o] = {} \/ (~mem[o].up /\ runs'[o] = runs[o])
               /\ \A run \in runs'[o] : run \in runs[o]
    <2>1. mem'[o] = IF o = m THEN memory ELSE mem[o]
      BY DEF TypeInv, TypeOK
    <2>2. ~mem[o].up => runs[o] = {}
      BY DEF EntryInv
    <2> QED BY <2>1, <2>2
  <1> QED BY <1>1, <1>2, <1>3, <1>4, EntryStep

(* A step that makes no entry. *)
LEMMA QuietEntries ==
    ASSUME TypeInv, TypeInv', EntryInv, UNCHANGED <<entry, next>>,
           \A m \in Managers :
               /\ mem'[m].up \/ runs'[m] = {} \/ (~mem[m].up /\ runs'[m] = runs[m])
               /\ \A run \in runs'[m] : run \in runs[m] \/ \A x \in run.covers : x <= next
    PROVE  EntryInv'
  <1>1. next \in Nat /\ next' \in Nat /\ next <= next'
    BY DEF TypeInv, TypeOK
  <1>2. runs' \in [Managers -> SUBSET [kept : Ids, covers : SUBSET Ids]]
    BY DEF TypeInv, TypeOK
  <1>3. Parented(entry') /\ \A i \in Ids : \A x \in entry'[i].covers : x <= next'
    BY DEF EntryInv
  <1> QED BY <1>1, <1>2, <1>3, EntryStep

LEMMA OpenEntries ==
    ASSUME TypeInv, TypeInv', EntryInv, NEW m \in Managers, NEW memory,
           mem' = [mem EXCEPT ![m] = memory], memory.up,
           UNCHANGED <<entry, next, runs>>
    PROVE  EntryInv'
  <1>1. ASSUME NEW o \in Managers
        PROVE  mem'[o].up \/ (~mem[o].up /\ runs'[o] = runs[o]) \/ runs'[o] = {}
    <2>1. mem'[o] = IF o = m THEN memory ELSE mem[o]
      BY DEF TypeInv, TypeOK
    <2>2. ~mem[o].up => runs[o] = {}
      BY DEF EntryInv
    <2> QED BY <2>1, <2>2
  <1> QED BY <1>1, QuietEntries

LEMMA AppendEntries ==
    ASSUME TypeInv, TypeInv', EntryInv, NEW m \in Managers,
           NEW k \in Kinds \ {"compaction"}, AppendEntry(m, k)
    PROVE  EntryInv'
  <1> DEFINE after == Extended(m, next + 1)
             log == Persisted(m, after)
             unclosed == after.unclosed /\ k # "finished"
             written == [after EXCEPT !.flushed = TRUE, !.checked = log,
                                      !.unclosed = unclosed]
             held == [after EXCEPT !.unclosed = unclosed]
  <1>1. /\ NewEntry(m, k, 0, {}) /\ runs' = runs /\ mem[m].up
        /\ mem' = [mem EXCEPT ![m] = written] \/ mem' = [mem EXCEPT ![m] = held]
    BY Zenon DEF AppendEntry, MayWrite
  <1>2. 0 \in Ids \cup {0} /\ {} \in SUBSET Ids /\ k \in Kinds /\ \A x \in {} : x <= next
    OBVIOUS
  <1>3. MemoryInv(after, next + 1) /\ after.up = mem[m].up
    BY <1>1, <1>2, EntryMade
  <1>4. after \in Memory
    BY <1>3 DEF MemoryInv
  <1> HIDE DEF after, log, unclosed
  <1>5. written.up /\ held.up
    BY <1>1, <1>3, <1>4 DEF Memory
  <1> HIDE DEF written, held
  <1>6. PICK memory : mem' = [mem EXCEPT ![m] = memory] /\ memory.up
    BY <1>1, <1>5
  <1>7. \A o \in Managers : runs'[o] \subseteq runs[o]
    BY <1>1
  <1> QED BY <1>1, <1>2, <1>6, <1>7, AppendEntryInv

LEMMA WriteFailsEntries ==
    ASSUME TypeInv, TypeInv', EntryInv, NEW m \in Managers, NEW k \in Kinds,
           NEW kept \in Ids \cup {0}, NEW covers \in SUBSET Ids,
           \A x \in covers : x <= next, WriteFails(m, k, kept, covers),
           \A o \in Managers : runs'[o] \subseteq runs[o]
    PROVE  EntryInv'
  <1> DEFINE after == Extended(m, next + 1)
             memory == [after EXCEPT !.failed = TRUE,
                                     !.unclosed = after.unclosed /\ k # "finished"]
  <1>1. /\ NewEntry(m, k, kept, covers) /\ mem[m].up
        /\ mem' = [mem EXCEPT ![m] = memory]
    BY DEF WriteFails, MayWrite
  <1>2. MemoryInv(after, next + 1) /\ after.up = mem[m].up
    BY <1>1, EntryMade
  <1>3. after \in Memory
    BY <1>2 DEF MemoryInv
  <1> HIDE DEF after
  <1>4. memory.up
    BY <1>1, <1>2, <1>3 DEF Memory
  <1> HIDE DEF memory
  <1> QED BY <1>1, <1>4, AppendEntryInv

LEMMA RunFailsEntries ==
    ASSUME TypeInv, TypeInv', EntryInv, NEW m \in Managers, RunFails(m)
    PROVE  EntryInv'
  <1>1. PICK run \in runs[m] :
           /\ runs' = [runs EXCEPT ![m] = @ \ {run}]
           /\ \/ UNCHANGED <<disk, newest, mem, entry, next, waits, last, turn,
                             steady, resized>>
              \/ WriteFails(m, "compaction", run.kept, run.covers)
    BY DEF RunFails
  <1>2. /\ run.kept \in Ids \cup {0} /\ run.covers \in SUBSET Ids /\ "compaction" \in Kinds
        /\ \A x \in run.covers : x <= next
    BY <1>1 DEF TypeInv, TypeOK, Kinds, EntryInv
  <1>3. \A o \in Managers : runs'[o] \subseteq runs[o]
    BY <1>1 DEF TypeInv, TypeOK
  <1>4. CASE UNCHANGED <<disk, newest, mem, entry, next, waits, last, turn, steady,
                       resized>>
    <2>1. \A o \in Managers : ~mem[o].up => runs'[o] = {}
      BY <1>3 DEF EntryInv
    <2> QED BY <1>3, <1>4, <2>1, QuietEntries
  <1>5. CASE WriteFails(m, "compaction", run.kept, run.covers)
    BY <1>2, <1>3, <1>5, WriteFailsEntries
  <1> QED BY <1>1, <1>4, <1>5

LEMMA RunEndsEntries ==
    ASSUME TypeInv, TypeInv', EntryInv, NEW m \in Managers, RunEnds(m)
    PROVE  EntryInv'
  <1>1. PICK run \in runs[m], prune \in BOOLEAN :
           /\ NewEntry(m, "compaction", run.kept, run.covers)
           /\ runs' = [runs EXCEPT ![m] = @ \ {run}]
           /\ LET after == Extended(m, next + 1)
                  log == Compacted(m, after, prune)
              IN  \/ mem' = [mem EXCEPT ![m] =
                       [after EXCEPT !.flushed = TRUE, !.checked = log]]
                  \/ Rotate(m, after, log, run.kept)
    BY DEF RunEnds
  <1> DEFINE after == Extended(m, next + 1)
             log == Compacted(m, after, prune)
             path == Path(mem[m].lines, mem[m].leaf)
             lines(start) == Chained(Append(Carried(path, start), after.leaf))
             new(start) == [exists |-> TRUE, lines |-> lines(start), torn |-> FALSE]
             rotated(start) == [after EXCEPT !.log = @ + 1, !.lines = lines(start),
                                             !.leaf = LeafOf(lines(start)),
                                             !.flushed = TRUE, !.checked = new(start)]
             written == [after EXCEPT !.flushed = TRUE, !.checked = log]
  <1>2. /\ mem[m].up /\ "compaction" \in Kinds
        /\ run.kept \in Ids \cup {0} /\ run.covers \in SUBSET Ids
        /\ \A x \in run.covers : x <= next
    BY <1>1 DEF RunEnds, Kinds, TypeInv, TypeOK, EntryInv
  <1>3. NewEntry(m, "compaction", run.kept, run.covers)
    BY <1>1
  <1>4. MemoryInv(after, next + 1) /\ after.up = mem[m].up
    BY <1>2, <1>3, EntryMade
  <1>5. after \in Memory
    BY <1>4 DEF MemoryInv
  <1>6. mem' = [mem EXCEPT ![m] = written] \/ \E start : mem' = [mem EXCEPT ![m] = rotated(start)]
    <2>1. CASE Rotate(m, after, log, run.kept)
      <3> HIDE DEF after, log
      <3> QED BY <2>1 DEF Rotate
    <2> QED BY <1>1, <2>1
  <1> HIDE DEF after, log, lines, new
  <1>7. written.up /\ \A start : rotated(start).up
    BY <1>2, <1>4, <1>5 DEF Memory
  <1> HIDE DEF written, rotated
  <1>8. PICK memory : mem' = [mem EXCEPT ![m] = memory] /\ memory.up
    BY <1>6, <1>7
  <1>9. \A o \in Managers : runs'[o] \subseteq runs[o]
    BY <1>1 DEF TypeInv, TypeOK
  <1> QED BY <1>2, <1>3, <1>8, <1>9, AppendEntryInv

(* The run that prepareCompaction starts. *)
LEMMA PreparedRun ==
    ASSUME TypeInv, EntryInv, NEW m \in Managers, Prepare(m)
    PROVE  \E run : /\ runs' = [runs EXCEPT ![m] = @ \cup {run}]
                    /\ \A x \in run.covers : x <= next
                    /\ \A W \in SUBSET Ids :
                          LET S == On(mem[m].lines, mem[m].leaf)
                          IN  Remembers(S, W, entry) => RunGood(run, S, W)
  <1> DEFINE path == Path(mem[m].lines, mem[m].leaf)
             prev == SelectLastInSeq(path, IsCompaction)
             kept == entry[path[prev]].kept
             keptAt == SelectInSeq(path, LAMBDA i : i = entry[path[prev]].kept)
             start == IF prev = 0 THEN 1 ELSE IF keptAt # 0 THEN keptAt ELSE prev + 1
             covered(cut) == {path[k] : k \in start..(cut - 1)} \cup
                             (IF prev = 0 THEN {} ELSE entry[path[prev]].covers)
             made(cut) == [kept |-> path[cut], covers |-> covered(cut)]
  <1>1. PICK cut \in (start + 1)..Len(path) :
           runs' = [runs EXCEPT ![m] = @ \cup {made(cut)}]
    BY Zenon DEF Prepare
  <1>2. /\ path \in Seq(Ids) /\ Rising(path) /\ Len(path) \in Nat
        /\ DOMAIN path = 1..Len(path) /\ \A k \in DOMAIN path : path[k] <= next
    BY OwnPath
  <1>3. On(mem[m].lines, mem[m].leaf) = Range(path)
    BY DEF On
  <1> HIDE DEF path
  <1>4. prev = LastAt(path, OfKind({"compaction"}))
    BY <1>2, Selections
  <1>5. keptAt = FirstAt(path, {kept})
    <2> HIDE DEF kept
    <2>1. SelectInSeq(path, LAMBDA i : i = kept) = FirstAt(path, {kept})
      BY <1>2, Selections
    <2> QED BY <2>1 DEF kept
  <1> HIDE DEF prev, keptAt
  <1>6. prev = 0 \/ prev \in DOMAIN path
    <2>1. LastAt(path, OfKind({"compaction"})) = 0 \/ LastAt(path, OfKind({"compaction"})) \in DOMAIN path
      BY <1>2, SelectedPlaces
    <2> QED BY <1>4, <2>1
  <1>7. keptAt = 0 \/ keptAt \in DOMAIN path
    <2> HIDE DEF kept
    <2>1. FirstAt(path, {kept}) = 0 \/ FirstAt(path, {kept}) \in DOMAIN path
      BY <1>2, SelectedPlaces
    <2> QED BY <1>5, <2>1
  <1>8. start \in Nat /\ start >= 1
    BY <1>2, <1>6, <1>7
  <1>9. start = IF prev = 0 THEN 1 ELSE IF keptAt # 0 THEN keptAt ELSE prev + 1
    OBVIOUS
  <1> HIDE DEF start
  <1> DEFINE run == made(cut)
  <1>10. /\ run.kept = path[cut]
         /\ run.covers = {path[k] : k \in start..(cut - 1)} \cup
                         (IF prev = 0 THEN {} ELSE entry[path[prev]].covers)
    OBVIOUS
  <1>11. \A k \in start..(cut - 1) : k \in DOMAIN path
    BY <1>1, <1>2, <1>8
  <1>12. prev # 0 => \A x \in entry[path[prev]].covers : x <= next
    <2>1. prev # 0 => path[prev] \in Ids
      BY <1>2, <1>6, ElementOfSeq
    <2> QED BY <2>1 DEF EntryInv
  <1>13. runs' = [runs EXCEPT ![m] = @ \cup {run}]
    BY <1>1
  <1> HIDE DEF run, covered, made
  <1>14. \A x \in run.covers : x <= next
    BY <1>2, <1>10, <1>11, <1>12
  <1>15. ASSUME NEW W \in SUBSET Ids, Remembers(Range(path), W, entry)
         PROVE  RunGood(run, Range(path), W)
    <2>1. keptAt = FirstAt(path, {entry[path[prev]].kept})
      BY <1>5
    <2>2. cut \in (start + 1)..Len(path)
      BY <1>1
    <2> HIDE DEF kept
    <2> QED BY <1>2, <1>4, <1>9, <1>10, <1>15, <2>1, <2>2, RunFound
  <1> QED BY <1>3, <1>13, <1>14, <1>15

LEMMA EntryInit == Init => EntryInv
  <1> SUFFICES ASSUME Init PROVE EntryInv
    OBVIOUS
  <1>1. \A i \in Ids : entry[i].parent = 0 /\ entry[i].covers = {} /\ 0 < i
    BY BoundsAssumption DEF Init, Ids
  <1>2. \A m \in Managers : runs[m] = {}
    BY DEF Init
  <1> QED BY <1>1, <1>2 DEF EntryInv, Parented

LEMMA EntryNext == TypeInv /\ TypeInv' /\ EntryInv /\ [Next]_vars => EntryInv'
  <1> SUFFICES ASSUME TypeInv, TypeInv', EntryInv, [Next]_vars PROVE EntryInv'
    OBVIOUS
  <1>1. CASE UNCHANGED vars
    BY <1>1 DEF vars, EntryInv, Parented
  <1>2. ASSUME NEW m \in Managers, NEW k \in Kinds \ {"compaction"},
               AppendEntry(m, k) \/ AppendFails(m, k)
        PROVE  EntryInv'
    <2>1. CASE AppendEntry(m, k)
      BY <2>1, AppendEntries
    <2>2. CASE AppendFails(m, k)
      <3>1. WriteFails(m, k, 0, {}) /\ \A o \in Managers : runs'[o] \subseteq runs[o]
        BY <2>2 DEF AppendFails
      <3>2. 0 \in Ids \cup {0} /\ {} \in SUBSET Ids /\ k \in Kinds /\ \A x \in {} : x <= next
        OBVIOUS
      <3> QED BY <3>1, <3>2, WriteFailsEntries
    <2> QED BY <1>2, <2>1, <2>2
  <1>3. ASSUME NEW m \in Managers, Open(m) \/ Create(m)
        PROVE  EntryInv'
    <2>1. CASE Open(m)
      <3> DEFINE lines(n) == Parsed(disk[Resolve(n)])
                 unclosed(n) == Unclosed(Path(lines(n), LeafOf(lines(n))))
                 memory(n) == Opened(Resolve(n), lines(n), LeafOf(lines(n)), unclosed(n))
      <3>1. PICK n : mem' = [mem EXCEPT ![m] = memory(n)]
        BY <2>1, Zenon DEF Open, Opened
      <3>2. memory(n).up
        BY DEF Opened, NewSession
      <3>3. UNCHANGED <<entry, next, runs>>
        BY <2>1 DEF Open
      <3> HIDE DEF memory
      <3> QED BY <3>1, <3>2, <3>3, OpenEntries
    <2>2. CASE Create(m)
      <3>1. mem' = [mem EXCEPT ![m] = NewSession] /\ UNCHANGED <<entry, next, runs>>
        BY <2>2 DEF Create
      <3>2. NewSession.up
        BY DEF NewSession
      <3> QED BY <3>1, <3>2, OpenEntries
    <2> QED BY <1>3, <2>1, <2>2
  <1>4. ASSUME NEW m \in Managers, Die(m)
        PROVE  EntryInv'
    <2>1. /\ mem' = [mem EXCEPT ![m] = Down] /\ runs' = [runs EXCEPT ![m] = {}]
          /\ UNCHANGED <<entry, next>>
      BY <1>4 DEF Die
    <2>2. \A o \in Managers : /\ o # m => mem'[o] = mem[o] /\ runs'[o] = runs[o]
                              /\ o = m => runs'[o] = {}
      BY <2>1 DEF TypeInv, TypeOK
    <2>3. ASSUME NEW o \in Managers
          PROVE  /\ mem'[o].up \/ runs'[o] = {} \/ (~mem[o].up /\ runs'[o] = runs[o])
                 /\ \A run \in runs'[o] : run \in runs[o]
      BY <2>2
    <2> QED BY <2>1, <2>3, QuietEntries
  <1>5. ASSUME NEW m \in Managers, Branch(m)
        PROVE  EntryInv'
    <2>1. PICK i : mem' = [mem EXCEPT ![m].leaf = i]
      BY <1>5, Zenon DEF Branch
    <2>2. mem[m].up /\ UNCHANGED <<entry, next, runs>>
      BY <1>5 DEF Branch
    <2>3. [mem[m] EXCEPT !.leaf = i].up
      BY <2>2 DEF TypeInv, TypeOK, Memory
    <2> QED BY <2>1, <2>2, <2>3, OpenEntries
  <1>6. ASSUME NEW m \in Managers, Prepare(m)
        PROVE  EntryInv'
    <2>1. PICK run : /\ runs' = [runs EXCEPT ![m] = @ \cup {run}]
                     /\ \A x \in run.covers : x <= next
      BY <1>6, PreparedRun
    <2>2. mem[m].up /\ UNCHANGED <<mem, entry, next>>
      BY <1>6 DEF Prepare
    <2>3. \A o \in Managers : runs'[o] = IF o = m THEN runs[o] \cup {run} ELSE runs[o]
      BY <2>1 DEF TypeInv, TypeOK
    <2>4. ASSUME NEW o \in Managers
          PROVE  /\ mem'[o].up \/ runs'[o] = {} \/ (~mem[o].up /\ runs'[o] = runs[o])
                 /\ \A r \in runs'[o] : r \in runs[o] \/ \A x \in r.covers : x <= next
      BY <2>1, <2>2, <2>3
    <2> QED BY <2>2, <2>4, QuietEntries
  <1>7. ASSUME NEW m \in Managers, RunFails(m) \/ RunEnds(m)
        PROVE  EntryInv'
    BY <1>7, RunFailsEntries, RunEndsEntries
  <1>8. ASSUME NEW m \in Managers, Check(m)
        PROVE  EntryInv'
    <2> DEFINE memory == [mem[m] EXCEPT !.passed = TRUE, !.checked = disk[mem[m].log]]
    <2>1. /\ mem' = [mem EXCEPT ![m] = memory] /\ mem[m].up
          /\ UNCHANGED <<entry, next, runs>>
      BY <1>8 DEF Check, TypeInv, TypeOK
    <2>2. memory.up
      BY <2>1 DEF TypeInv, TypeOK, Memory
    <2> HIDE DEF memory
    <2> QED BY <2>1, <2>2, OpenEntries
  <1> QED BY <1>1, <1>2, <1>3, <1>4, <1>5, <1>6, <1>7, <1>8 DEF Next

-----------------------------------------------------------------------------
(* What a restart reads of the context: the invariant.                     *)

(* A log that remembers, as far as it was written last. *)
DiskGood(n) ==
    LET lines == Parsed(disk[n])
    IN  Good(n, lines, LeafOf(lines), entry) /\ LeafOf(lines) = last

FoundGood == newest # 0 => DiskGood(Resolve(newest))

RunsGood(m) ==
    LET lines == mem[m].lines
        leaf == mem[m].leaf
    IN  \A run \in runs[m] : RunGood(run, On(lines, leaf), Made(entry, leaf))

(* A manager's memory remembers, also what is not written, and the log it  *)
(* appends to as well, also after a failed write.                          *)
ManagerGood(m) ==
    /\ Good(mem[m].log, mem[m].lines, mem[m].leaf, entry)
    /\ mem[m].flushed => DiskGood(mem[m].log)
    /\ ~mem[m].flushed => mem[m].log = 1
    /\ RunsGood(m)

GoodInv ==
    steady => FoundGood /\ \A m \in Managers : mem[m].up => ManagerGood(m)

(* A step of the only manager that is up. *)
LEMMA OwnGood ==
    ASSUME TypeInv, NEW m \in Managers, NEW memory, mem' = [mem EXCEPT ![m] = memory],
           \A o \in Managers : o # m => ~mem[o].up,
           FoundGood', ManagerGood(m)'
    PROVE  GoodInv'
  <1>1. \A o \in Managers : o # m => mem'[o] = mem[o]
    BY DEF TypeInv, TypeOK
  <1>2. (\A o \in Managers : mem[o].up => ManagerGood(o))'
    <2> SUFFICES ASSUME NEW o \in Managers, mem'[o].up PROVE ManagerGood(o)'
      OBVIOUS
    <2>1. o = m
      BY <1>1
    <2> QED BY <2>1
  <1> QED BY <1>2 DEF GoodInv

(* The log n is read, if it is open and the newest. *)
LEMMA FoundGoodIn ==
    ASSUME TypeInv', newest' \in Logs, ~Closed(disk'[newest']), newest' # 0
    PROVE  FoundGood' <=> DiskGood(newest)'
  <1>1. Resolve(newest)' = newest'
    BY ResolveNext
  <1> QED BY <1>1 DEF FoundGood, DiskGood

LEMMA LogBefore ==
    ASSUME TypeInv, next + 1 \in Ids, NEW n \in Logs
    PROVE  /\ Before(Parsed(disk[n]), next + 1)
           /\ LeafOf(Parsed(disk[n])) \in Ids \cup {0}
  <1> DEFINE lines == Parsed(disk[n])
  <1>1. /\ lines \in Seq(Lines) /\ Proper(lines) /\ next \in Nat
        /\ \A k \in DOMAIN lines : lines[k].id <= next
    BY LogReads DEF TypeInv, TypeOK
  <1>2. LeafOf(lines) \in Ids \cup {0}
    BY <1>1, LeafFacts
  <1> HIDE DEF lines
  <1>3. \A k \in DOMAIN lines : lines[k].id < next + 1
    <2>1. \A k \in DOMAIN lines : lines[k].id \in Nat
      BY <1>1, IdsPositive DEF Proper
    <2> QED BY <1>1, <2>1
  <1> QED BY <1>1, <1>2, <1>3 DEF Before, lines

(* The entries as they are, or with one more. *)
Kept == entry' = entry \/ (next + 1 \in Ids /\ Grown(entry, entry', next + 1))

LEMMA DiskKept ==
    ASSUME TypeInv, Kept, NEW n \in Logs, DiskGood(n)
    PROVE  Good(n, Parsed(disk[n]), LeafOf(Parsed(disk[n])), entry')
  <1> DEFINE lines == Parsed(disk[n])
             leaf == LeafOf(lines)
             i == next + 1
  <1>1. Good(n, lines, leaf, entry)
    BY DEF DiskGood
  <1>2. CASE entry' = entry
    BY <1>1, <1>2
  <1>3. CASE i \in Ids /\ Grown(entry, entry', i)
    <2>1. Before(lines, i) /\ leaf \in Ids \cup {0}
      BY <1>3, LogBefore
    <2> HIDE DEF lines, leaf, i
    <2>2. Good(n, lines, leaf, entry')
      BY <1>1, <1>3, <2>1, GoodSame
    <2> QED BY <2>2 DEF lines, leaf
  <1> QED BY <1>2, <1>3 DEF Kept

LEMMA FoundKept ==
    ASSUME TypeInv, Kept, FoundGood, UNCHANGED <<disk, newest, last>>
    PROVE  FoundGood'
  <1> SUFFICES ASSUME newest # 0 PROVE DiskGood(Resolve(newest))'
    BY DEF FoundGood
  <1> DEFINE n == Resolve(newest)
  <1>1. n \in Logs
    <2>1. newest \in Logs
      BY DEF TypeInv, TypeOK
    <2> QED BY <2>1, ResolveFacts
  <1>2. Resolve(newest)' = n
    BY DEF Resolve
  <1>3. DiskGood(n)
    BY DEF FoundGood
  <1> HIDE DEF n
  <1>4. Good(n, Parsed(disk[n]), LeafOf(Parsed(disk[n])), entry')
    BY <1>1, <1>3, DiskKept
  <1> QED BY <1>2, <1>3, <1>4 DEF DiskGood

(* What a manager's memory gives a reader, before and after one more entry. *)
LEMMA MemoryNext ==
    ASSUME TypeInv, EntryInv, NEW m \in Managers,
           NEW k \in Kinds, NEW kept \in Ids \cup {0}, NEW covers \in SUBSET Ids,
           \A x \in covers : x <= next, NewEntry(m, k, kept, covers),
           Good(mem[m].log, mem[m].lines, mem[m].leaf, entry)
    PROVE  LET S == On(mem[m].lines, mem[m].leaf)
               W == Made(entry, mem[m].leaf)
               after == Extended(m, next + 1)
           IN  /\ S \in SUBSET Ids /\ W \in SUBSET Ids /\ \A x \in S \cup W : x < next + 1
               /\ Remembers(S, W, entry)
               /\ Grown(entry, entry', next + 1) /\ next + 1 \in Ids
               /\ Before(mem[m].lines, next + 1) /\ mem[m].leaf \in Ids \cup {0}
               /\ after.lines = Append(mem[m].lines, Line(next + 1, mem[m].leaf))
               /\ On(after.lines, next + 1) = S \cup {next + 1}
               /\ Made(entry', next + 1) = W \cup {next + 1}
  <1> DEFINE i == next + 1
             lines == mem[m].lines
             leaf == mem[m].leaf
             S == On(lines, leaf)
             W == Made(entry, leaf)
             after == Extended(m, i)
  <1>1. /\ i \in Ids /\ next \in Nat /\ after.lines = Append(lines, Line(i, leaf))
        /\ i \in Nat
    BY EntryMade
  <1>2. Grown(entry, entry', i) /\ entry'[i].parent = leaf
    BY GrownNext
  <1>3. /\ lines \in Seq(Lines) /\ Proper(lines) /\ leaf \in Ids \cup {0} /\ leaf <= next
        /\ \A j \in DOMAIN lines : lines[j].id <= next
    BY DEF TypeInv, TypeOK, LinesInv, MemoryInv, Memory
  <1> HIDE DEF lines, leaf, after
  <1>4. /\ leaf < i /\ \A j \in DOMAIN lines : lines[j].id < i
    <2>1. leaf \in Nat /\ \A j \in DOMAIN lines : lines[j].id \in Nat
      BY <1>3, IdsPositive DEF Proper
    <2> QED BY <1>1, <1>3, <2>1
  <1>5. Before(lines, i)
    BY <1>3, <1>4 DEF Before
  <1>6. PICK c : Rooted(mem[m].log, lines, leaf, entry, c)
    BY DEF Good, lines, leaf
  <1>7. (leaf = 0 \/ Has(lines, leaf)) /\ Remembers(S, W, entry)
    BY <1>3, <1>6 DEF Rooted, Behind
  <1> HIDE DEF i
  <1>8. S \in SUBSET Ids /\ \A x \in S : x < i
    BY <1>1, <1>3, <1>5, <1>7, BeforeFacts
  <1>9. W \in SUBSET Ids /\ \A x \in W : x < i
    <2>1. entry \in Entries /\ Parented(entry)
      BY <1>2 DEF Grown
    <2>2. W \subseteq Ids /\ \A x \in W : x <= leaf
      BY <1>3, <2>1, MadeFacts
    <2>3. leaf \in Nat /\ \A x \in W : x \in Nat
      BY <1>3, <2>2, IdsPositive
    <2> HIDE DEF W
    <2> QED BY <1>1, <1>4, <2>2, <2>3
  <1>10. On(Append(lines, Line(i, leaf)), i) = S \cup {i}
    BY <1>1, <1>3, <1>4, OnAppend
  <1>11. Made(entry', i) = W \cup {i}
    <2>1. /\ entry \in Entries /\ Parented(entry) /\ entry' \in Entries /\ Parented(entry')
          /\ \A j \in Ids : j # i => entry'[j] = entry[j]
      BY <1>2 DEF Grown
    <2>2. Made(entry', i) = Made(entry, entry'[i].parent) \cup {i}
      BY <1>1, <2>1, MadeNext
    <2> QED BY <1>2, <2>2
  <1> HIDE DEF S, W
  <1> QED BY <1>1, <1>2, <1>3, <1>5, <1>7, <1>8, <1>9, <1>10, <1>11
      DEF i, lines, leaf, S, W, after

(* A run that was there, after one more entry. *)
LEMMA RunsNext ==
    ASSUME TypeInv, EntryInv, NEW m \in Managers,
           NEW k \in Kinds, NEW kept \in Ids \cup {0}, NEW covers \in SUBSET Ids,
           \A x \in covers : x <= next, NewEntry(m, k, kept, covers),
           Good(mem[m].log, mem[m].lines, mem[m].leaf, entry), RunsGood(m)
    PROVE  \A run \in runs[m] :
              RunGood(run, On(Extended(m, next + 1).lines, next + 1), Made(entry', next + 1))
  <1> SUFFICES ASSUME NEW run \in runs[m]
               PROVE  RunGood(run, On(Extended(m, next + 1).lines, next + 1),
                                   Made(entry', next + 1))
    OBVIOUS
  <1> DEFINE S == On(mem[m].lines, mem[m].leaf)
             W == Made(entry, mem[m].leaf)
             i == next + 1
  <1>1. /\ S \in SUBSET Ids /\ W \in SUBSET Ids /\ \A x \in S \cup W : x < i /\ i \in Ids
        /\ On(Extended(m, i).lines, i) = S \cup {i} /\ Made(entry', i) = W \cup {i}
    BY MemoryNext
  <1>2. RunGood(run, S, W)
    BY DEF RunsGood
  <1>3. i \notin run.covers /\ i \in Ids
    <2>1. next \in Nat /\ i \in Ids
      BY EntryMade
    <2>2. \A x \in run.covers : x <= next
      BY DEF EntryInv
    <2> QED BY <2>1, <2>2
  <1> HIDE DEF S, W, i
  <1>4. RunGood(run, S \cup {i}, W \cup {i})
    BY <1>1, <1>2, <1>3, RunGoodNext
  <1> QED BY <1>1, <1>4 DEF i

(* The entry of a Compaction Run of the manager's, or of another kind.     *)
Sound(m, k, kept, covers) ==
    \/ k # "compaction"
    \/ \E run : /\ run.kept = kept /\ run.covers = covers
                /\ RunGood(run, On(mem[m].lines, mem[m].leaf), Made(entry, mem[m].leaf))

LEMMA EntryGood ==
    ASSUME TypeInv, EntryInv, NEW m \in Managers,
           NEW k \in Kinds, NEW kept \in Ids \cup {0}, NEW covers \in SUBSET Ids,
           \A x \in covers : x <= next, NewEntry(m, k, kept, covers),
           Good(mem[m].log, mem[m].lines, mem[m].leaf, entry), Sound(m, k, kept, covers)
    PROVE  Good(mem[m].log, Extended(m, next + 1).lines, next + 1, entry')
  <1> DEFINE S == On(mem[m].lines, mem[m].leaf)
             W == Made(entry, mem[m].leaf)
             i == next + 1
  <1>1. /\ S \in SUBSET Ids /\ W \in SUBSET Ids /\ \A x \in S \cup W : x < i
        /\ Remembers(S, W, entry) /\ Grown(entry, entry', i) /\ i \in Ids
        /\ Before(mem[m].lines, i) /\ mem[m].leaf \in Ids \cup {0}
        /\ Extended(m, i).lines = Append(mem[m].lines, Line(i, mem[m].leaf))
    BY MemoryNext
  <1>2. /\ \A x \in covers : x # i
        /\ entry'[i].kind = k /\ entry'[i].parent = mem[m].leaf
        /\ entry'[i].kept = kept /\ entry'[i].covers = covers
    BY GrownNext
  <1> HIDE DEF S, W, i
  <1>3. Remembers(S \cup {i}, W \cup {i}, entry')
    <2>1. CASE k # "compaction"
      BY <1>1, <1>2, <2>1, RemembersNext
    <2>2. ASSUME k = "compaction", NEW run, run.kept = kept, run.covers = covers, RunGood(run, S, W)
          PROVE  Remembers(S \cup {i}, W \cup {i}, entry')
      BY <1>1, <1>2, <2>2, RemembersRun
    <2> QED BY <2>1, <2>2 DEF Sound, S, W
  <1>4. Good(mem[m].log, Append(mem[m].lines, Line(i, mem[m].leaf)), i, entry')
    BY <1>1, <1>2, <1>3, GoodNext DEF S, W
  <1> QED BY <1>1, <1>4 DEF i

-----------------------------------------------------------------------------
(* Each action keeps it. *)

(* A step that changes no log and no entry, and opens no session. *)
LEMMA QuietGood ==
    ASSUME TypeInv, GoodInv, steady' => steady, UNCHANGED <<disk, newest, entry, last>>,
           \A m \in Managers : mem'[m].up =>
               /\ mem[m].up /\ mem'[m] = mem[m]
               /\ ManagerGood(m) => \A run \in runs'[m] : \/ run \in runs[m]
                          \/ RunGood(run, On(mem[m].lines, mem[m].leaf), Made(entry, mem[m].leaf))
    PROVE  GoodInv'
  <1> SUFFICES ASSUME steady'
               PROVE  (FoundGood /\ \A m \in Managers : mem[m].up => ManagerGood(m))'
    BY DEF GoodInv
  <1>1. FoundGood /\ \A m \in Managers : mem[m].up => ManagerGood(m)
    BY DEF GoodInv
  <1>2. FoundGood'
    BY <1>1, FoundKept DEF Kept
  <1>3. ASSUME NEW m \in Managers, mem'[m].up
        PROVE  ManagerGood(m)'
    <2>1. ManagerGood(m) /\ mem'[m] = mem[m]
      BY <1>1, <1>3
    <2>2. RunsGood(m)'
      BY <1>3, <2>1 DEF RunsGood, ManagerGood
    <2>3. DiskGood(mem[m].log) => DiskGood(mem[m].log)'
      BY <2>1 DEF DiskGood
    <2> QED BY <2>1, <2>2, <2>3 DEF ManagerGood
  <1> QED BY <1>2, <1>3

LEMMA CreateGood ==
    ASSUME TypeInv, EntryInv, GoodInv, NEW m \in Managers, Create(m)
    PROVE  GoodInv'
  <1>1. /\ newest = 0 /\ \A o \in Managers : ~mem[o].up
        /\ mem' = [mem EXCEPT ![m] = NewSession]
        /\ UNCHANGED <<disk, newest, entry, runs, steady>>
    BY DEF Create
  <1>2. FoundGood'
    BY <1>1 DEF FoundGood
  <1>3. mem'[m] = NewSession
    BY <1>1 DEF TypeInv, TypeOK
  <1>4. /\ ~NewSession.flushed /\ NewSession.lines = <<>> /\ NewSession.leaf = 0
        /\ NewSession.log = 1
    BY DEF NewSession
  <1>5. runs'[m] = {}
    BY <1>1 DEF EntryInv
  <1>6. Good(1, <<>>, 0, entry)
    <2>1. <<>> \in Seq(Lines) /\ Proper(<<>>) /\ \A i : ~Has(<<>>, i)
      BY EmptySeq DEF Proper, Has
    <2>2. entry \in Entries /\ Parented(entry)
      BY DEF TypeInv, TypeOK, Entries, EntryInv
    <2>3. On(<<>>, 0) = {} /\ Made(entry, 0) = {}
      BY <2>1, <2>2, OnFacts, MadeFacts
    <2>4. Remembers(On(<<>>, 0), Made(entry, 0), entry)
      BY <2>3 DEF Remembers
    <2>5. Rooted(1, <<>>, 0, entry, 0)
      BY <2>1, <2>4 DEF Rooted, Behind
    <2> QED BY <2>5 DEF Good
  <1>7. ManagerGood(m)'
    BY <1>1, <1>3, <1>4, <1>5, <1>6 DEF ManagerGood, RunsGood
  <1> QED BY <1>1, <1>2, <1>7, OwnGood

LEMMA OpenGood ==
    ASSUME TypeInv, TypeInv', EntryInv, GoodInv, NEW m \in Managers, Open(m)
    PROVE  GoodInv'
  <1> SUFFICES ASSUME steady' PROVE GoodInv'
    BY DEF GoodInv
  <1>0. PICK log : log = Resolve(newest)
    OBVIOUS
  <1> DEFINE lines == Parsed(disk[log])
             unclosed == Unclosed(Path(lines, LeafOf(lines)))
             memory == Opened(log, lines, LeafOf(lines), unclosed)
  <1>1. steady /\ Others(m) = {}
    BY Zenon DEF Open, Upset
  <1>2. /\ newest # 0 /\ disk[newest].exists
        /\ disk' = [disk EXCEPT ![log] = Terminated(@)]
        /\ newest' = IF disk[log].torn THEN log ELSE newest
        /\ mem' = [mem EXCEPT ![m] = memory]
        /\ entry' = entry /\ last' = last /\ runs' = runs /\ ~mem[m].up
    BY <1>0, <1>1, Zenon DEF Open, Opened
  <1>3. newest \in Logs
    BY <1>2 DEF TypeInv, TypeOK
  <1>4. /\ log \in Logs /\ ~Closed(disk[log])
        /\ (~Closed(disk[newest]) => log = newest)
    BY <1>0, <1>3, ResolveFacts
  <1>5. FoundGood /\ DiskGood(log)
    BY <1>0, <1>1, <1>2 DEF GoodInv, FoundGood
  <1>6. \A o \in Managers : o # m => ~mem[o].up
    BY <1>1 DEF Others
  <1>7. lines \in Seq(Lines) /\ Proper(lines)
    BY <1>4, LogReads
  <1>8. LeafOf(lines) \in Ids \cup {0}
    <2>1. next \in Nat /\ \A k \in DOMAIN lines : lines[k].id <= next
      BY <1>4, LogReads DEF TypeInv, TypeOK
    <2> QED BY <1>7, <2>1, LeafFacts
  <1>9. disk' = [disk EXCEPT ![log] = Terminated(disk[log])] /\ disk \in [Logs -> Log]
    BY <1>2 DEF TypeInv, TypeOK
  <1>10. /\ Parsed(Terminated(disk[log])) = lines
         /\ ~Closed(Terminated(disk[log]))
    <2>1. LogInv(log, disk[log], next) /\ next \in Nat
      BY <1>4 DEF TypeInv, TypeOK, LinesInv
    <2> QED BY <1>4, <2>1, TornEnded
  <1>11. disk'[log] = Terminated(disk[log])
    BY <1>4, <1>9
  <1>12. Good(log, lines, LeafOf(lines), entry) /\ LeafOf(lines) = last
    BY <1>5 DEF DiskGood
  <1>13. unclosed \in BOOLEAN
    BY DEF Unclosed
  <1>14. Parsed(disk'[log]) = lines
    BY <1>10, <1>11
  <1> HIDE DEF lines, unclosed
  <1>15. /\ memory.lines = lines /\ memory.leaf = LeafOf(lines) /\ memory.log = log
         /\ memory.flushed
    <2> DEFINE leaf == LeafOf(lines)
    <2>1. log \in Logs /\ lines \in Seq(Lines) /\ leaf \in Ids \cup {0} /\ unclosed \in BOOLEAN
      BY <1>4, <1>7, <1>8, <1>13
    <2> HIDE DEF leaf
    <2>2. /\ Opened(log, lines, leaf, unclosed).lines = lines
          /\ Opened(log, lines, leaf, unclosed).leaf = leaf
          /\ Opened(log, lines, leaf, unclosed).log = log
          /\ Opened(log, lines, leaf, unclosed).flushed
      BY <2>1, OpenedMemory
    <2> QED BY <2>2 DEF leaf
  <1> HIDE DEF memory
  <1>16. mem'[m] = memory
    BY <1>2 DEF TypeInv, TypeOK
  <1>17. DiskGood(log)'
    BY <1>2, <1>12, <1>14 DEF DiskGood
  <1>18. FoundGood'
    <2>1. CASE disk[log].torn
      <3>1. newest' = log
        BY <1>2, <2>1
      <3>2. ~Closed(disk'[newest']) /\ newest' \in Logs /\ newest' # 0
        BY <1>4, <1>10, <1>11, <3>1, NoLogZero
      <3>3. DiskGood(newest)'
        BY <1>17, <3>1 DEF DiskGood
      <3> QED BY <3>2, <3>3, FoundGoodIn
    <2>2. CASE ~disk[log].torn
      <3>1. newest' = newest
        BY <1>2, <2>2
      <3>2. Terminated(disk[log]) = disk[log]
        <4>1. disk[log] \in Log
          BY <1>4, <1>9
        <4> QED BY <2>2, <4>1 DEF Terminated, Log
      <3>3. disk' = disk
        BY <1>4, <1>9, <3>2
      <3> QED BY <1>2, <1>5, <3>1, <3>3, FoundKept DEF Kept
    <2> QED BY <2>1, <2>2
  <1>19. ManagerGood(m)'
    <2>1. mem'[m].flushed /\ mem'[m].log = log /\ mem'[m].lines = lines
          /\ mem'[m].leaf = LeafOf(lines)
      BY <1>15, <1>16
    <2>2. Good(mem'[m].log, mem'[m].lines, mem'[m].leaf, entry')
      BY <1>2, <1>12, <2>1
    <2>3. runs'[m] = {}
      BY <1>2 DEF EntryInv
    <2>4. DiskGood(mem[m].log)'
      BY <1>17, <2>1 DEF DiskGood
    <2> QED BY <2>1, <2>2, <2>3, <2>4 DEF ManagerGood, RunsGood
  <1> QED BY <1>2, <1>6, <1>18, <1>19, OwnGood

LEMMA BranchGood ==
    ASSUME TypeInv, TypeInv', SteadyInv, GoodInv, NEW m \in Managers, Branch(m)
    PROVE  GoodInv'
  <1> SUFFICES ASSUME steady' PROVE GoodInv'
    BY DEF GoodInv
  <1> DEFINE lines == mem[m].lines
             path == Path(lines, mem[m].leaf)
             at == SelectLastInSeq(path, IsCompaction)
  <1>1. PICK i \in {lines[k].id : k \in DOMAIN lines} \cup {0} :
           /\ mem' = [mem EXCEPT ![m].leaf = i]
           /\ Upset(\/ runs[m] # {}
                    \/ mem[m].log > 1 /\ (at = 0 \/ ~Contains(Path(lines, i), path[at])))
    BY Zenon DEF Branch
  <1>2. /\ steady /\ mem[m].up /\ UNCHANGED <<disk, newest, entry, runs, last>>
    BY DEF Branch
  <1>3. /\ runs[m] = {}
        /\ mem[m].log > 1 => at # 0 /\ Contains(Path(lines, i), path[at])
    BY <1>1, Zenon DEF Upset
  <1>4. /\ \A o \in Managers : o # m => ~mem[o].up
        /\ FoundGood /\ ManagerGood(m)
    BY <1>2 DEF SteadyInv, Alone, GoodInv
  <1>5. /\ lines \in Seq(Lines) /\ Proper(lines) /\ mem[m].leaf \in Ids \cup {0}
        /\ mem[m].log \in Logs /\ mem[m] \in Memory
    BY DEF TypeInv, TypeOK, LinesInv, MemoryInv, Memory
  <1>6. i \in Ids \cup {0} /\ (i = 0 \/ Has(lines, i))
    BY <1>1, <1>5 DEF Proper, Has
  <1>7. path \in Seq(Ids) /\ Rising(path)
    BY OwnPath
  <1>8. at = LastAt(path, OfKind({"compaction"}))
    BY <1>7, Selections
  <1>9. Path(lines, i) \in Seq(Ids)
    BY <1>5, <1>6, PathFacts
  <1>10. mem[m].log = 1 \/ \E t \in On(lines, i) : Newest(On(lines, mem[m].leaf), entry, t)
    <2> SUFFICES ASSUME mem[m].log # 1
                 PROVE  \E t \in On(lines, i) : Newest(On(lines, mem[m].leaf), entry, t)
      OBVIOUS
    <2>1. mem[m].log > 1
      BY <1>5, BoundsAssumption DEF Logs
    <2>2. at # 0 /\ Contains(Path(lines, i), path[at])
      BY <1>3, <2>1
    <2> HIDE DEF at
    <2>3. Newest(Range(path), entry, path[at])
      <3> HIDE DEF path
      <3> QED BY <1>7, <1>8, <2>2, NewestAt
    <2>4. path[at] \in On(lines, i)
      <3> DEFINE other == Path(lines, i)
      <3>1. other \in Seq(Ids) /\ Contains(other, path[at])
        BY <1>9, <2>2
      <3> HIDE DEF other
      <3>2. path[at] \in Range(other)
        BY <3>1, LenProperties DEF Contains, Range
      <3> QED BY <3>2 DEF On, other
    <2>5. On(lines, mem[m].leaf) = Range(path)
      BY DEF On
    <2> QED BY <2>3, <2>4, <2>5
  <1> HIDE DEF path, at
  <1> DEFINE memory == [mem[m] EXCEPT !.leaf = i]
  <1>11. Good(mem[m].log, lines, i, entry)
    <2>1. Good(mem[m].log, lines, mem[m].leaf, entry)
      BY <1>4 DEF ManagerGood
    <2> HIDE DEF lines
    <2> QED BY <1>5, <1>6, <1>10, <2>1, GoodBranch
  <1>12. /\ memory.lines = mem[m].lines /\ memory.log = mem[m].log
         /\ memory.flushed = mem[m].flushed /\ memory.leaf = i
    BY <1>5 DEF Memory
  <1>13. mem' = [mem EXCEPT ![m] = memory] /\ mem'[m] = memory
    BY <1>1 DEF TypeInv, TypeOK
  <1> HIDE DEF memory
  <1>14. DiskGood(mem[m].log) => DiskGood(mem[m].log)'
    BY <1>2, <1>12, <1>13 DEF DiskGood
  <1>15. ManagerGood(m)'
    BY <1>2, <1>3, <1>4, <1>11, <1>12, <1>13, <1>14 DEF ManagerGood, RunsGood
  <1>16. FoundGood'
    BY <1>2, <1>4, FoundKept DEF Kept
  <1> QED BY <1>4, <1>13, <1>15, <1>16, OwnGood

(* After a successful write of all that is in memory. *)
LEMMA WrittenGood ==
    ASSUME TypeInv, TypeInv', NEW m \in Managers, NEW memory, NEW log,
           mem[m].log \in Logs, mem' = [mem EXCEPT ![m] = memory],
           disk' = [disk EXCEPT ![mem[m].log] = log], newest' = mem[m].log,
           \A o \in Managers : o # m => ~mem[o].up,
           Parsed(log) = memory.lines, ~Closed(log),
           memory.log = mem[m].log, memory.flushed, memory.leaf = LeafOf(memory.lines),
           last' = memory.leaf, Good(mem[m].log, memory.lines, memory.leaf, entry'),
           \A run \in runs'[m] :
              RunGood(run, On(memory.lines, memory.leaf), Made(entry', memory.leaf))
    PROVE  GoodInv'
  <1>1. mem'[m] = memory /\ disk'[mem[m].log] = log
    BY DEF TypeInv, TypeOK
  <1>2. newest' # 0 /\ newest' \in Logs /\ ~Closed(disk'[newest'])
    BY <1>1, NoLogZero
  <1>3. DiskGood(newest)'
    BY <1>1 DEF DiskGood
  <1>4. FoundGood'
    BY <1>2, <1>3, FoundGoodIn
  <1>5. mem'[m].log = newest'
    BY <1>1
  <1>6. DiskGood(mem[m].log)'
    BY <1>3, <1>5 DEF DiskGood
  <1>7. ManagerGood(m)'
    BY <1>1, <1>6 DEF ManagerGood, RunsGood
  <1> QED BY <1>4, <1>7, OwnGood

(* An entry that is only in memory. *)
LEMMA HeldGood ==
    ASSUME TypeInv, Kept, NEW m \in Managers, NEW memory, ManagerGood(m),
           mem' = [mem EXCEPT ![m] = memory],
           \A o \in Managers : o # m => ~mem[o].up,
           memory.log = mem[m].log, memory.flushed = mem[m].flushed,
           Good(mem[m].log, memory.lines, memory.leaf, entry'),
           \A run \in runs'[m] :
              RunGood(run, On(memory.lines, memory.leaf), Made(entry', memory.leaf)),
           mem[m].flushed => /\ last' = last
                             /\ Parsed(disk'[mem[m].log]) = Parsed(disk[mem[m].log]),
           FoundGood'
    PROVE  GoodInv'
  <1>1. mem'[m] = memory
    BY DEF TypeInv, TypeOK
  <1>2. mem[m].log \in Logs
    BY DEF TypeInv, TypeOK, Memory
  <1>3. ASSUME mem[m].flushed
        PROVE  DiskGood(mem[m].log)'
    <2>1. DiskGood(mem[m].log)
      BY <1>3 DEF ManagerGood
    <2> DEFINE lines == Parsed(disk[mem[m].log])
    <2>2. Good(mem[m].log, lines, LeafOf(lines), entry')
      BY <1>2, <2>1, DiskKept
    <2>3. LeafOf(lines) = last'
      BY <1>3, <2>1 DEF DiskGood
    <2>4. Parsed(disk'[mem'[m].log]) = lines
      BY <1>1, <1>3
    <2> HIDE DEF lines
    <2> QED BY <1>1, <2>2, <2>3, <2>4 DEF DiskGood
  <1>4. ~mem[m].flushed => mem[m].log = 1
    BY DEF ManagerGood
  <1>5. ManagerGood(m)'
    BY <1>1, <1>3, <1>4 DEF ManagerGood, RunsGood
  <1> QED BY <1>5, OwnGood

LEMMA AppendGood ==
    ASSUME TypeInv, TypeInv', SteadyInv, EntryInv, GoodInv, NEW m \in Managers,
           NEW k \in Kinds \ {"compaction"}, AppendEntry(m, k)
    PROVE  GoodInv'
  <1> SUFFICES ASSUME steady' PROVE GoodInv'
    BY DEF GoodInv
  <1> DEFINE after == Extended(m, next + 1)
             log == Persisted(m, after)
             unclosed == after.unclosed /\ k # "finished"
  <1>1. /\ NewEntry(m, k, 0, {}) /\ mem[m].up /\ runs' = runs
    BY DEF AppendEntry, MayWrite
  <1>2. /\ 0 \in Ids \cup {0} /\ {} \in SUBSET Ids /\ k \in Kinds /\ FALSE \in BOOLEAN
        /\ steady /\ \A x \in {} : x <= next
    BY Zenon DEF AppendEntry, Upset
  <1>3. /\ after.leaf = next + 1 /\ after.log = mem[m].log /\ MemoryInv(after, next + 1)
        /\ after.flushed = mem[m].flushed
    BY <1>1, <1>2, EntryMade
  <1>4. after \in Memory /\ mem[m].log \in Logs
    BY <1>3 DEF MemoryInv, TypeInv, TypeOK, Memory
  <1>5. /\ ManagerTells(m) /\ ManagerGood(m) /\ FoundGood
        /\ \A o \in Managers : o # m => ~mem[o].up
    BY <1>1, <1>2 DEF SteadyInv, Alone, GoodInv
  <1>6. Good(mem[m].log, mem[m].lines, mem[m].leaf, entry) /\ RunsGood(m)
    BY <1>5 DEF ManagerGood
  <1>7. Sound(m, k, 0, {})
    BY DEF Sound
  <1>8. Good(mem[m].log, after.lines, after.leaf, entry')
    <2>1. Good(mem[m].log, after.lines, next + 1, entry')
      BY <1>1, <1>2, <1>6, <1>7, EntryGood
    <2> QED BY <1>3, <2>1
  <1>9. \A run \in runs'[m] :
           RunGood(run, On(after.lines, after.leaf), Made(entry', after.leaf))
    <2>1. \A run \in runs[m] :
             RunGood(run, On(after.lines, next + 1), Made(entry', next + 1))
      BY <1>1, <1>2, <1>6, RunsNext
    <2> QED BY <1>1, <1>3, <2>1
  <1>10. LeafOf(after.lines) = next + 1
    BY <1>1, <1>2, AppendedReads
  <1>11. CASE /\ disk' = [disk EXCEPT ![after.log] = log]
              /\ newest' = after.log /\ last' = next + 1
              /\ mem' = [mem EXCEPT ![m] =
                   [after EXCEPT !.flushed = TRUE, !.checked = log,
                                 !.unclosed = unclosed]]
              /\ Upset(mem[m].failed) /\ resized' = resized \ {m}
    <2> DEFINE memory == [after EXCEPT !.flushed = TRUE, !.checked = log,
                                       !.unclosed = unclosed]
    <2>1. ~mem[m].failed
      BY <1>11, Zenon DEF Upset
    <2>2. Compacted(m, after, FALSE) = log
      BY DEF Compacted
    <2>3. Parsed(log) = after.lines
      <3>1. Parsed(Compacted(m, after, FALSE)) = after.lines
        BY <1>1, <1>2, <1>5, <2>1, WrittenWhole
      <3> QED BY <2>2, <3>1
    <2> HIDE DEF after
    <2>4. ~Closed(log)
      <3> HIDE DEF log
      <3>1. ~Closed(Compacted(m, after, FALSE))
        BY <1>1, <1>2, EntryWritten DEF after
      <3> QED BY <2>2, <3>1
    <2> HIDE DEF log, unclosed
    <2>5. /\ memory.lines = after.lines /\ memory.leaf = after.leaf
          /\ memory.log = after.log /\ memory.flushed
      BY <1>4 DEF Memory
    <2>6. mem' = [mem EXCEPT ![m] = memory] /\ disk' = [disk EXCEPT ![mem[m].log] = log]
          /\ newest' = mem[m].log
      BY <1>3, <1>11
    <2> HIDE DEF memory
    <2>7. /\ memory.leaf = LeafOf(memory.lines) /\ Parsed(log) = memory.lines
          /\ memory.log = mem[m].log /\ last' = memory.leaf
      BY <1>3, <1>10, <1>11, <2>3, <2>5
    <2>8. Good(mem[m].log, memory.lines, memory.leaf, entry')
      BY <1>8, <2>5
    <2>9. \A run \in runs'[m] :
             RunGood(run, On(memory.lines, memory.leaf), Made(entry', memory.leaf))
      BY <1>9, <2>5
    <2> QED BY <1>4, <1>5, <2>4, <2>5, <2>6, <2>7, <2>8, <2>9, WrittenGood
  <1>12. CASE /\ mem' = [mem EXCEPT ![m] = [after EXCEPT !.unclosed = unclosed]]
              /\ UNCHANGED <<disk, newest, last, turn, steady, resized>>
    <2> DEFINE memory == [after EXCEPT !.unclosed = unclosed]
    <2>1. Kept
      <3>1. Grown(entry, entry', next + 1)
        BY <1>1, <1>2, GrownNext
      <3> QED BY <3>1 DEF Kept, Grown
    <2> HIDE DEF after, unclosed
    <2>2. /\ memory.lines = after.lines /\ memory.leaf = after.leaf
          /\ memory.log = after.log /\ memory.flushed = after.flushed
      BY <1>4 DEF Memory
    <2>3. mem' = [mem EXCEPT ![m] = memory]
      BY <1>12
    <2> HIDE DEF memory
    <2>4. FoundGood'
      BY <1>5, <1>12, <2>1, FoundKept
    <2>5. memory.log = mem[m].log /\ memory.flushed = mem[m].flushed
      BY <1>3, <2>2
    <2>6. Good(mem[m].log, memory.lines, memory.leaf, entry')
      BY <1>8, <2>2
    <2>7. \A run \in runs'[m] :
             RunGood(run, On(memory.lines, memory.leaf), Made(entry', memory.leaf))
      BY <1>9, <2>2
    <2> QED BY <1>5, <1>12, <2>1, <2>3, <2>4, <2>5, <2>6, <2>7, HeldGood
  <1> QED BY <1>11, <1>12, Zenon DEF AppendEntry, log, unclosed

(* A log that may be read has a manager's lines as far as they were        *)
(* written.                                                                *)
LEMMA WriteFailsGood ==
    ASSUME TypeInv, TypeInv', SteadyInv, EntryInv, GoodInv, NEW m \in Managers,
           NEW k \in Kinds, NEW kept \in Ids \cup {0}, NEW covers \in SUBSET Ids,
           \A x \in covers : x <= next, Sound(m, k, kept, covers),
           WriteFails(m, k, kept, covers), runs'[m] \subseteq runs[m]
    PROVE  GoodInv'
  <1> DEFINE after == Extended(m, next + 1)
             unclosed == after.unclosed /\ k # "finished"
             memory == [after EXCEPT !.failed = TRUE, !.unclosed = unclosed]
  <1>1. /\ NewEntry(m, k, kept, covers) /\ Torn(m, after)
        /\ steady' = steady /\ steady /\ mem[m].up
        /\ mem' = [mem EXCEPT ![m] = memory]
    BY DEF WriteFails, MayWrite
  <1>2. /\ next \in Nat /\ next + 1 \in Ids /\ MemoryInv(after, next + 1)
        /\ after.leaf = next + 1 /\ after.log = mem[m].log
        /\ after.flushed = mem[m].flushed
    BY <1>1, EntryMade
  <1>3. after \in Memory /\ mem[m].log \in Logs /\ disk \in [Logs -> Log] /\ mem[m].log # 0
    BY <1>2, NoLogZero DEF MemoryInv, TypeInv, TypeOK, Memory
  <1>4. /\ ManagerGood(m) /\ FoundGood
        /\ \A o \in Managers : o # m => ~mem[o].up
    BY <1>1 DEF SteadyInv, Alone, GoodInv
  <1>5. Good(mem[m].log, mem[m].lines, mem[m].leaf, entry) /\ RunsGood(m)
    BY <1>4 DEF ManagerGood
  <1>6. Good(mem[m].log, after.lines, after.leaf, entry')
    <2>1. Good(mem[m].log, after.lines, next + 1, entry')
      BY <1>1, <1>5, EntryGood
    <2> QED BY <1>2, <2>1
  <1>7. \A run \in runs'[m] :
           RunGood(run, On(after.lines, after.leaf), Made(entry', after.leaf))
    <2>1. \A run \in runs[m] :
             RunGood(run, On(after.lines, next + 1), Made(entry', next + 1))
      BY <1>1, <1>5, RunsNext
    <2> QED BY <1>2, <2>1
  <1>8. Kept
    <2>1. Grown(entry, entry', next + 1)
      BY <1>1, GrownNext
    <2> QED BY <2>1 DEF Kept, Grown
  <1> HIDE DEF after, unclosed
  <1>9. /\ memory.log = mem[m].log /\ memory.flushed = mem[m].flushed
        /\ memory.lines = after.lines /\ memory.leaf = after.leaf
    BY <1>2, <1>3 DEF Memory
  <1> HIDE DEF memory
  <1>10. Good(mem[m].log, memory.lines, memory.leaf, entry')
    BY <1>6, <1>9
  <1>11. \A run \in runs'[m] :
            RunGood(run, On(memory.lines, memory.leaf), Made(entry', memory.leaf))
    BY <1>7, <1>9
  <1>12. CASE UNCHANGED <<disk, newest, last, turn>>
    <2>1. FoundGood'
      BY <1>4, <1>8, <1>12, FoundKept
    <2> QED BY <1>1, <1>4, <1>8, <1>9, <1>10, <1>11, <1>12, <2>1, HeldGood
  <1>13. CASE /\ mem[m].flushed /\ newest' = after.log
              /\ disk' = [disk EXCEPT ![after.log] = Tear(@)]
              /\ UNCHANGED <<last, turn>>
    <2> DEFINE log == Tear(disk[mem[m].log])
    <2>1. ~Closed(log) /\ Parsed(log) = Parsed(disk[mem[m].log])
      <3>1. LogInv(mem[m].log, disk[mem[m].log], next)
        BY <1>3 DEF TypeInv, LinesInv
      <3> QED BY <1>2, <1>3, <3>1, TornAdded
    <2>2. newest' = mem[m].log /\ disk'[mem[m].log] = log
      BY <1>2, <1>3, <1>13
    <2>3. DiskGood(mem[m].log)
      BY <1>4, <1>13 DEF ManagerGood
    <2> DEFINE lines == Parsed(disk[mem[m].log])
    <2>4. Good(mem[m].log, lines, LeafOf(lines), entry')
      BY <1>3, <1>8, <2>3, DiskKept
    <2>5. LeafOf(lines) = last'
      BY <1>13, <2>3 DEF DiskGood
    <2>6. Parsed(disk'[newest']) = lines
      BY <2>1, <2>2
    <2> HIDE DEF lines, log
    <2>7. DiskGood(newest)'
      BY <2>2, <2>4, <2>5, <2>6 DEF DiskGood
    <2>8. newest' # 0 /\ newest' \in Logs /\ ~Closed(disk'[newest'])
      BY <1>3, <2>1, <2>2
    <2>9. FoundGood'
      BY <2>7, <2>8, FoundGoodIn
    <2>10. Parsed(disk'[mem[m].log]) = Parsed(disk[mem[m].log])
      BY <2>1, <2>2
    <2> QED BY <1>1, <1>4, <1>8, <1>9, <1>10, <1>11, <1>13, <2>9, <2>10, HeldGood
  <1>14. ASSUME ~mem[m].flushed, newest' = after.log, NEW c \in 0..(Len(after.lines) - 1),
                LET lines == SubSeq(after.lines, 1, c)
                IN  /\ disk' = [disk EXCEPT ![after.log] =
                         [exists |-> TRUE, lines |-> Append(lines, Garbage),
                          torn |-> TRUE]]
                    /\ last' = LeafOf(lines)
         PROVE  GoodInv'
    <2> DEFINE part == SubSeq(after.lines, 1, c)
               log == Cut(after.lines, c)
    <2>1. /\ after.lines \in Seq(Lines) /\ Proper(after.lines) /\ next + 1 \in Nat
          /\ \A j \in DOMAIN after.lines : after.lines[j].id <= next + 1
      <3>1. next + 1 \in Nat
        BY <1>2
      <3> QED BY <1>2, <3>1 DEF MemoryInv, Memory
    <2>2. ~Closed(log) /\ Parsed(log) = part /\ c \in 0..Len(after.lines)
      <3> DEFINE b == next + 1
                 lines == after.lines
      <3>1. /\ lines \in Seq(Lines) /\ Proper(lines) /\ b \in Nat
            /\ \A j \in DOMAIN lines : lines[j].id <= b
        BY <2>1
      <3>2. c \in 0..(Len(lines) - 1) /\ mem[m].log \in Logs
        BY <1>3
      <3>3. Len(lines) \in Nat
        BY <3>1, LenProperties
      <3> HIDE DEF b, lines
      <3> DEFINE p == SubSeq(lines, 1, c)
                 l == Cut(lines, c)
      <3>4. ~Closed(l)
        BY <3>1, <3>2, PartWritten
      <3>5. Parsed(l) = p
        BY <3>1, <3>2, PartWritten
      <3>6. c \in 0..Len(lines)
        BY <3>2, <3>3
      <3> QED BY <3>4, <3>5, <3>6 DEF lines
    <2>3. disk' = [disk EXCEPT ![mem[m].log] = log] /\ newest' = mem[m].log
          /\ last' = LeafOf(part)
      BY <1>2, <1>14 DEF Cut
    <2>4. mem[m].log = 1
      BY <1>4, <1>14 DEF ManagerGood
    <2>5. Good(1, part, LeafOf(part), entry')
      <3> DEFINE lines == after.lines
      <3>1. Good(1, lines, after.leaf, entry') /\ lines \in Seq(Lines) /\ Proper(lines)
            /\ c \in 0..Len(lines)
        BY <1>6, <2>1, <2>2, <2>4
      <3> HIDE DEF lines
      <3>2. Good(1, SubSeq(lines, 1, c), LeafOf(SubSeq(lines, 1, c)), entry')
        BY <3>1, GoodPart
      <3> QED BY <3>2 DEF lines
    <2> HIDE DEF part, log
    <2>6. disk'[mem[m].log] = log
      BY <1>3, <2>3
    <2>7. DiskGood(newest)'
      BY <2>2, <2>3, <2>4, <2>5, <2>6 DEF DiskGood
    <2>8. newest' # 0 /\ newest' \in Logs /\ ~Closed(disk'[newest'])
      BY <1>3, <2>2, <2>3, <2>6
    <2>9. FoundGood'
      BY <2>7, <2>8, FoundGoodIn
    <2> QED BY <1>1, <1>4, <1>8, <1>9, <1>10, <1>11, <1>14, <2>9, HeldGood
  <1> QED BY <1>1, <1>12, <1>13, <1>14, Zenon DEF Torn

LEMMA RunFailsGood ==
    ASSUME TypeInv, TypeInv', SteadyInv, EntryInv, GoodInv, NEW m \in Managers, RunFails(m)
    PROVE  GoodInv'
  <1> SUFFICES ASSUME steady' PROVE GoodInv'
    BY DEF GoodInv
  <1>1. PICK run \in runs[m] :
           /\ runs' = [runs EXCEPT ![m] = @ \ {run}]
           /\ \/ UNCHANGED <<disk, newest, mem, entry, next, waits, last, turn,
                             steady, resized>>
              \/ WriteFails(m, "compaction", run.kept, run.covers)
    BY DEF RunFails
  <1>2. /\ run.kept \in Ids \cup {0} /\ run.covers \in SUBSET Ids /\ "compaction" \in Kinds
        /\ \A x \in run.covers : x <= next
    BY <1>1 DEF TypeInv, TypeOK, Kinds, EntryInv
  <1>3. \A o \in Managers : runs'[o] \subseteq runs[o]
    BY <1>1 DEF TypeInv, TypeOK
  <1>4. CASE UNCHANGED <<disk, newest, mem, entry, next, waits, last, turn, steady,
                       resized>>
    BY <1>3, <1>4, QuietGood
  <1>5. CASE WriteFails(m, "compaction", run.kept, run.covers)
    <2>1. steady /\ mem[m].up
      BY <1>5 DEF WriteFails, MayWrite
    <2>2. RunsGood(m)
      BY <2>1 DEF GoodInv, ManagerGood
    <2>3. Sound(m, "compaction", run.kept, run.covers)
      BY <1>1, <2>2 DEF Sound, RunsGood
    <2> QED BY <1>2, <1>3, <1>5, <2>3, WriteFailsGood
  <1> QED BY <1>1, <1>4, <1>5

(* What a rotation carries remembers as much. *)
LEMMA RotatedMeans ==
    ASSUME TypeInv, EntryInv, NEW m \in Managers,
           NEW run \in runs[m], NewEntry(m, "compaction", run.kept, run.covers),
           Good(mem[m].log, mem[m].lines, mem[m].leaf, entry), RunsGood(m),
           NEW start \in TailStarts(Path(mem[m].lines, mem[m].leaf), run.kept),
           NEW n, n > 1
    PROVE  Good(n, Chained(RotatedIds(m, start, next + 1)), next + 1, entry')
  <1> DEFINE path == Path(mem[m].lines, mem[m].leaf)
             S == On(mem[m].lines, mem[m].leaf)
             W == Made(entry, mem[m].leaf)
             i == next + 1
             carried == Carried(path, start)
             C == Range(carried)
  <1>1. /\ run.kept \in Ids \cup {0} /\ run.covers \in SUBSET Ids /\ "compaction" \in Kinds
        /\ \A x \in run.covers : x <= next
    BY DEF TypeInv, TypeOK, Kinds, EntryInv
  <1>2. /\ S \in SUBSET Ids /\ W \in SUBSET Ids /\ \A x \in S \cup W : x < i
        /\ Grown(entry, entry', i) /\ i \in Ids
        /\ Made(entry', i) = W \cup {i}
    BY <1>1, MemoryNext
  <1>3. /\ \A x \in run.covers : x # i
        /\ entry'[i].kind = "compaction" /\ entry'[i].kept = run.kept
        /\ entry'[i].covers = run.covers /\ next \in Nat
    BY <1>1, GrownNext
  <1>4. path \in Seq(Ids) /\ Rising(path)
    BY OwnPath
  <1>5. S = Range(path)
    BY DEF On
  <1>6. RunGood(run, S, W)
    BY DEF RunsGood
  <1>7. next < i /\ start \in TailStarts(path, run.kept)
    BY <1>3
  <1>8. /\ start \in DOMAIN path /\ carried \in Seq(Ids)
        /\ RotatedIds(m, start, i) = Append(carried, i)
        /\ Append(carried, i) \in Seq(Ids) /\ Rising(Append(carried, i))
    <2> HIDE DEF i
    <2>1. /\ start \in DOMAIN path /\ carried \in Seq(Ids)
          /\ RotatedIds(m, start, i) \in Seq(Ids) /\ Rising(RotatedIds(m, start, i))
      BY <1>2, <1>7, RotatedLines
    <2>2. RotatedIds(m, start, i) = Append(carried, i)
      BY DEF RotatedIds
    <2> QED BY <2>1, <2>2
  <1> HIDE DEF path, S, W, i, carried
  <1>9. run.kept \in Range(path)
    BY <1>5, <1>6 DEF RunGood
  <1>10. PICK at \in DOMAIN path : path[at] = run.kept /\ start <= at
    BY <1>4, <1>7, <1>9, TailBefore
  <1>11. run.kept \in C /\ From(C, run.kept) = From(Range(path), run.kept)
    BY <1>4, <1>8, <1>10, CarriedFrom DEF carried
  <1>12. C \in SUBSET Ids /\ \A x \in C : x \in S
    <2>1. \A k \in DOMAIN carried : \E j \in DOMAIN path : carried[k] = path[j]
      BY <1>4, <1>8, CarriedFacts DEF carried
    <2>2. \A x \in C : x \in S
      BY <1>5, <2>1 DEF Range
    <2> QED BY <1>2, <2>2
  <1>13. RunGood(run, C, W)
    BY <1>5, <1>6, <1>11 DEF RunGood
  <1> HIDE DEF C
  <1>14. Remembers(C \cup {i}, W \cup {i}, entry')
    BY <1>2, <1>3, <1>12, <1>13, RemembersRun
  <1> DEFINE ids == Append(carried, i)
  <1>15. Range(ids) = C \cup {i} /\ ids # <<>> /\ Last(ids) = i
    BY <1>2, <1>8, RangeAppended, LastAppended DEF C
  <1>16. ids \in Seq(Ids) /\ Rising(ids) /\ RotatedIds(m, start, i) = ids
    BY <1>8
  <1> HIDE DEF ids
  <1>17. Remembers(Range(ids), Made(entry', i), entry')
    BY <1>2, <1>14, <1>15
  <1>18. Good(n, Chained(ids), i, entry')
    BY <1>2, <1>3, <1>15, <1>16, <1>17, GoodRotated
  <1> QED BY <1>16, <1>18 DEF i

(* What is read after a rotation, whichever log is the newer. *)
LEMMA RotatedGood ==
    ASSUME TypeInv, TypeInv', NEW m \in Managers, NEW memory, NEW n \in Logs, n + 1 \in Logs,
           mem' = [mem EXCEPT ![m] = memory],
           \A o \in Managers : o # m => ~mem[o].up,
           NEW old, NEW new, disk'[n] = old, disk'[n + 1] = new, ~Closed(new),
           newest' = n + 1 \/ newest' = n,
           newest' = n /\ ~Closed(old) =>
               /\ Good(n, Parsed(old), LeafOf(Parsed(old)), entry')
               /\ LeafOf(Parsed(old)) = last',
           Parsed(new) = memory.lines, runs'[m] = {},
           memory.log = n + 1, memory.flushed, memory.leaf = LeafOf(memory.lines),
           last' = memory.leaf, Good(n + 1, memory.lines, memory.leaf, entry')
    PROVE  GoodInv'
  <1>1. mem'[m] = memory
    BY DEF TypeInv, TypeOK
  <1>2. newest' # 0 /\ newest' \in Logs
    BY NoLogZero
  <1>3. Good(n + 1, Parsed(disk'[n + 1]), LeafOf(Parsed(disk'[n + 1])), entry')
        /\ LeafOf(Parsed(disk'[n + 1])) = last'
    OBVIOUS
  <1>4. FoundGood'
    <2>1. CASE newest' = n + 1
      <3>1. DiskGood(newest)'
        BY <1>3, <2>1 DEF DiskGood
      <3> QED BY <1>2, <2>1, <3>1, FoundGoodIn
    <2>2. CASE newest' = n /\ Closed(old)
      <3>1. Resolve(newest)' = n + 1
        <4>1. Resolve(n)' = Resolve(n + 1)'
          BY <2>2, ResolveNext
        <4>2. Resolve(n + 1)' = n + 1
          BY ResolveNext
        <4>3. Resolve(newest)' = Resolve(n)'
          BY <2>2 DEF Resolve
        <4> QED BY <4>1, <4>2, <4>3
      <3> DEFINE r == Resolve(newest)'
      <3>2. Good(r, Parsed(disk'[r]), LeafOf(Parsed(disk'[r])), entry')
            /\ LeafOf(Parsed(disk'[r])) = last'
        BY <1>3, <3>1
      <3> QED BY <3>2 DEF FoundGood, DiskGood
    <2>3. CASE newest' = n /\ ~Closed(old)
      <3>1. Good(n, Parsed(disk'[n]), LeafOf(Parsed(disk'[n])), entry')
            /\ LeafOf(Parsed(disk'[n])) = last'
        BY <2>3
      <3>2. DiskGood(newest)'
        BY <2>3, <3>1 DEF DiskGood
      <3> QED BY <1>2, <2>3, <3>2, FoundGoodIn
    <2> QED BY <2>1, <2>2, <2>3
  <1>5. mem'[m].log = n + 1 /\ mem'[m].flushed /\ mem'[m].lines = memory.lines
        /\ mem'[m].leaf = memory.leaf
    BY <1>1
  <1>6. DiskGood(mem[m].log)'
    BY <1>3, <1>5 DEF DiskGood
  <1>7. ManagerGood(m)'
    BY <1>5, <1>6 DEF ManagerGood, RunsGood
  <1> QED BY <1>4, <1>7, OwnGood

LEMMA RunEndsGood ==
    ASSUME TypeInv, TypeInv', SteadyInv, EntryInv, GoodInv, NEW m \in Managers, RunEnds(m)
    PROVE  GoodInv'
  <1> SUFFICES ASSUME steady' PROVE GoodInv'
    BY DEF GoodInv
  <1>1. PICK run \in runs[m], prune \in BOOLEAN :
           /\ NewEntry(m, "compaction", run.kept, run.covers)
           /\ runs' = [runs EXCEPT ![m] = @ \ {run}]
           /\ LET after == Extended(m, next + 1)
                  log == Compacted(m, after, prune)
              IN  \/ /\ disk' = [disk EXCEPT ![after.log] = log]
                     /\ newest' = after.log
                     /\ mem' = [mem EXCEPT ![m] =
                          [after EXCEPT !.flushed = TRUE, !.checked = log]]
                     /\ Upset(mem[m].failed)
                  \/ /\ Rotate(m, after, log, run.kept)
                     /\ Upset(mem[m].failed \/ runs'[m] # {})
    BY DEF RunEnds
  <1> DEFINE after == Extended(m, next + 1)
             log == Compacted(m, after, prune)
             path == Path(mem[m].lines, mem[m].leaf)
             i == next + 1
  <1>2. /\ mem[m].up /\ "compaction" \in Kinds /\ last' = i
    BY DEF RunEnds, MayWrite, Kinds
  <1>3. run.kept \in Ids \cup {0} /\ run.covers \in SUBSET Ids /\ \A x \in run.covers : x <= next
    BY <1>1 DEF TypeInv, TypeOK, EntryInv
  <1>4. steady /\ ~mem[m].failed
    BY <1>1, Zenon DEF Upset
  <1>5. /\ ManagerTells(m) /\ ManagerGood(m) /\ \A o \in Managers : o # m => ~mem[o].up
    BY <1>2, <1>4 DEF SteadyInv, Alone, GoodInv
  <1>6. Good(mem[m].log, mem[m].lines, mem[m].leaf, entry) /\ RunsGood(m)
    BY <1>5 DEF ManagerGood
  <1>7. NewEntry(m, "compaction", run.kept, run.covers)
    BY <1>1
  <1>8. /\ i \in Ids /\ next \in Nat /\ next < i /\ MemoryInv(after, i)
        /\ after.leaf = i /\ after.log = mem[m].log
    <2>1. /\ i \in Ids /\ i \in Nat /\ next \in Nat /\ MemoryInv(after, i)
          /\ after.leaf = i /\ after.log = mem[m].log
      BY <1>2, <1>3, <1>7, EntryMade
    <2> QED BY <2>1
  <1>9. LeafOf(after.lines) = i
    BY <1>2, <1>3, <1>7, AppendedReads
  <1>10. Good(mem[m].log, after.lines, i, entry')
    <2>1. Sound(m, "compaction", run.kept, run.covers)
      BY <1>6 DEF Sound, RunsGood
    <2> QED BY <1>2, <1>3, <1>6, <1>7, <2>1, EntryGood
  <1>11. Parsed(log) = after.lines
    BY <1>2, <1>3, <1>4, <1>5, <1>7, WrittenWhole
  <1>12. LogInv(mem[m].log, log, i) /\ log.exists /\ log.torn = FALSE /\ ~Closed(log)
    <2>1. /\ LogInv(after.log, log, i) /\ log.exists /\ log.torn = FALSE
          /\ ~Closed(log)
      <3> HIDE DEF after
      <3> QED BY <1>2, <1>3, <1>7, EntryWritten DEF after
    <2> QED BY <1>8, <2>1
  <1>13. after \in Memory /\ mem[m].log \in Logs
    BY <1>8 DEF MemoryInv, TypeInv, TypeOK, Memory
  <1>14. CASE /\ disk' = [disk EXCEPT ![after.log] = log] /\ newest' = after.log
              /\ mem' = [mem EXCEPT ![m] =
                   [after EXCEPT !.flushed = TRUE, !.checked = log]]
    <2> DEFINE memory == [after EXCEPT !.flushed = TRUE, !.checked = log]
    <2>1. \A r \in runs'[m] : RunGood(r, On(after.lines, i), Made(entry', i))
      <3>1. \A r \in runs[m] : RunGood(r, On(after.lines, i), Made(entry', i))
        BY <1>2, <1>3, <1>6, <1>7, RunsNext
      <3>2. runs'[m] \subseteq runs[m]
        BY <1>1 DEF TypeInv, TypeOK
      <3> QED BY <3>1, <3>2
    <2> HIDE DEF after, log
    <2>2. /\ memory.lines = after.lines /\ memory.leaf = after.leaf
          /\ memory.log = after.log /\ memory.flushed
      BY <1>13 DEF Memory
    <2>3. mem' = [mem EXCEPT ![m] = memory] /\ disk' = [disk EXCEPT ![mem[m].log] = log]
          /\ newest' = mem[m].log
      BY <1>8, <1>14
    <2> HIDE DEF memory, i
    <2>4. /\ memory.leaf = LeafOf(memory.lines) /\ Parsed(log) = memory.lines
          /\ memory.log = mem[m].log /\ memory.flushed /\ last' = memory.leaf
      BY <1>2, <1>8, <1>9, <1>11, <2>2
    <2>5. Good(mem[m].log, memory.lines, memory.leaf, entry')
      BY <1>8, <1>10, <2>2
    <2>6. \A r \in runs'[m] :
             RunGood(r, On(memory.lines, memory.leaf), Made(entry', memory.leaf))
      BY <1>8, <2>1, <2>2
    <2> QED BY <1>5, <1>12, <1>13, <2>3, <2>4, <2>5, <2>6, WrittenGood
  <1>15. ASSUME Rotate(m, after, log, run.kept), Upset(mem[m].failed \/ runs'[m] # {})
         PROVE  GoodInv'
    <2> DEFINE n == mem[m].log
               lines(start) == Chained(RotatedIds(m, start, i))
               new(start) == [exists |-> TRUE, lines |-> lines(start), torn |-> FALSE]
               rotated(start) == [after EXCEPT !.log = n + 1, !.lines = lines(start),
                                               !.leaf = LeafOf(lines(start)),
                                               !.flushed = TRUE, !.checked = new(start)]
    <2>1. PICK start \in TailStarts(path, run.kept) :
             /\ mem' = [mem EXCEPT ![m] = rotated(start)]
             /\ \E old \in {log, Tear(log), Glued(log, Marker(n + 1))} :
                  /\ disk' = [disk EXCEPT ![n] = old, ![n + 1] = new(start)]
                  /\ newest' \in IF old = log THEN {n + 1}
                                 ELSE IF Closed(old) THEN {n, n + 1} ELSE {n}
      <3> HIDE DEF after, log
      <3> QED BY <1>8, <1>15 DEF Rotate, RotatedIds
    <2>2. PICK old \in {log, Tear(log), Glued(log, Marker(n + 1))} :
             /\ disk' = [disk EXCEPT ![n] = old, ![n + 1] = new(start)]
             /\ newest' \in IF old = log THEN {n + 1}
                            ELSE IF Closed(old) THEN {n, n + 1} ELSE {n}
      BY <2>1
    <2>3. n < MaxLogs /\ runs'[m] = {}
      <3>1. n < MaxLogs
        BY <1>8, <1>15 DEF Rotate
      <3>2. runs'[m] = {}
        BY <1>15, Zenon DEF Upset
      <3> QED BY <3>1, <3>2
    <2>4. n \in Logs /\ n + 1 \in Logs /\ n # n + 1 /\ n + 1 > 1
      BY <1>13, <2>3, BoundsAssumption DEF Logs
    <2> DEFINE made == lines(start)
    <2>5. /\ made \in Seq(Lines) /\ Proper(made) /\ LeafOf(made) = i
          /\ \A k \in DOMAIN made : made[k].id <= i
      <3> HIDE DEF i, after, log
      <3>1. i \in Ids /\ next < i /\ start \in TailStarts(path, run.kept)
        BY <1>8
      <3> QED BY <3>1, RotatedLines
    <2>6. Good(n + 1, made, i, entry')
      <3> DEFINE more == n + 1
      <3>1. more > 1
        BY <2>4
      <3> HIDE DEF more
      <3>2. Good(more, Chained(RotatedIds(m, start, next + 1)), next + 1, entry')
        BY <1>2, <1>6, <1>7, <3>1, RotatedMeans
      <3> QED BY <3>2 DEF more
    <2> DEFINE memory == rotated(start)
               fresh == new(start)
    <2>7. Parsed(fresh) = made /\ ~Closed(fresh)
      <3>1. Parsed(fresh) = made /\ ~Closed(fresh)
        <4> HIDE DEF lines
        <4> QED BY <1>8, <2>4, <2>5, AllWritten
      <3> QED BY <3>1
    <2> HIDE DEF after, log
    <2>8. /\ memory.lines = made /\ memory.leaf = i /\ memory.log = n + 1 /\ memory.flushed
      <3>1. /\ memory.lines = lines(start) /\ memory.leaf = LeafOf(lines(start))
            /\ memory.log = n + 1 /\ memory.flushed
        <4> HIDE DEF lines, new
        <4> QED BY <1>13 DEF Memory
      <3> QED BY <2>5, <3>1
    <2>9. mem' = [mem EXCEPT ![m] = memory]
      BY <2>1
    <2>10. disk' = [disk EXCEPT ![n] = old, ![n + 1] = fresh]
      BY <2>2
    <2> HIDE DEF memory, rotated, fresh, new, made, lines, n
    <2>11. disk'[n] = old /\ disk'[n + 1] = fresh
      BY <2>4, <2>10 DEF TypeInv, TypeOK
    <2>12. newest' = n + 1 \/ newest' = n
      BY <2>2
    <2>13. ASSUME newest' = n, ~Closed(old)
           PROVE  Parsed(old) = after.lines
      <3>1. old # log
        BY <2>2, <2>4, <2>13
      <3>2. Closed(Glued(log, Marker(n + 1)))
        BY <1>12, <2>4, MarkerCloses DEF n
      <3>3. old = Tear(log)
        BY <2>13, <3>1, <3>2
      <3>4. Parsed(Tear(log)) = Parsed(log)
        BY <1>8, <1>12, <1>13, TornAdded
      <3> QED BY <1>11, <3>3, <3>4
    <2> HIDE DEF i
    <2>14. newest' = n /\ ~Closed(old) =>
              /\ Good(n, Parsed(old), LeafOf(Parsed(old)), entry')
              /\ LeafOf(Parsed(old)) = last'
      BY <1>2, <1>9, <1>10, <2>13 DEF n
    <2>15. /\ memory.leaf = LeafOf(memory.lines) /\ Parsed(fresh) = memory.lines
           /\ last' = memory.leaf /\ Good(n + 1, memory.lines, memory.leaf, entry')
      BY <1>2, <2>5, <2>6, <2>7, <2>8
    <2> QED BY <1>5, <2>3, <2>4, <2>7, <2>8, <2>9, <2>11, <2>12, <2>14, <2>15, RotatedGood
  <1> QED BY <1>1, <1>14, <1>15

LEMMA GoodInit == Init => GoodInv
  <1> SUFFICES ASSUME Init PROVE GoodInv
    OBVIOUS
  <1>1. newest = 0 /\ \A m \in Managers : mem[m] = Down
    BY DEF Init
  <1>2. ~Down.up
    BY DEF Down, NewSession
  <1> QED BY <1>1, <1>2 DEF GoodInv, FoundGood

(* A Compaction Run is prepared from what its manager remembers. *)
LEMMA PrepareGood ==
    ASSUME TypeInv, EntryInv, GoodInv, NEW m \in Managers, Prepare(m)
    PROVE  GoodInv'
  <1> DEFINE S == On(mem[m].lines, mem[m].leaf)
             W == Made(entry, mem[m].leaf)
  <1>1. UNCHANGED <<disk, newest, mem, entry, last, steady>> /\ mem[m].up
    BY DEF Prepare
  <1>2. PICK run : /\ runs' = [runs EXCEPT ![m] = @ \cup {run}]
                   /\ \A V \in SUBSET Ids : Remembers(S, V, entry) => RunGood(run, S, V)
    BY PreparedRun
  <1>3. mem[m].leaf \in Ids \cup {0} /\ entry \in Entries /\ Parented(entry)
    BY DEF TypeInv, TypeOK, Memory, Entries, EntryInv
  <1>4. W \in SUBSET Ids
    BY <1>3, MadeFacts
  <1>5. ASSUME ManagerGood(m)
        PROVE  RunGood(run, S, W)
    <2>1. PICK c \in Ids \cup {0} : Rooted(mem[m].log, mem[m].lines, mem[m].leaf, entry, c)
      BY <1>5 DEF ManagerGood, Good
    <2>2. Remembers(S, W, entry)
      BY <1>3, <2>1 DEF Rooted
    <2> QED BY <1>2, <1>4, <2>2
  <1>6. \A o \in Managers : o # m => runs'[o] = runs[o]
    BY <1>2 DEF TypeInv, TypeOK
  <1>7. runs'[m] = runs[m] \cup {run}
    BY <1>2 DEF TypeInv, TypeOK
  <1>8. ASSUME NEW o \in Managers, mem'[o].up
        PROVE  /\ mem[o].up /\ mem'[o] = mem[o]
               /\ ManagerGood(o) => \A r \in runs'[o] : \/ r \in runs[o]
                       \/ RunGood(r, On(mem[o].lines, mem[o].leaf), Made(entry, mem[o].leaf))
    <2>1. CASE o = m
      BY <1>1, <1>5, <1>7, <1>8, <2>1
    <2>2. CASE o # m
      BY <1>1, <1>6, <1>8, <2>2
    <2> QED BY <2>1, <2>2
  <1> QED BY <1>1, <1>8, QuietGood

LEMMA ContextNext ==
    TypeInv /\ TypeInv' /\ SteadyInv /\ EntryInv /\ GoodInv /\ [Next]_vars => GoodInv'
  <1> SUFFICES ASSUME TypeInv, TypeInv', SteadyInv, EntryInv, GoodInv, [Next]_vars
               PROVE  GoodInv'
    OBVIOUS
  <1>1. CASE UNCHANGED vars
    BY <1>1, QuietGood DEF vars
  <1>2. ASSUME NEW m \in Managers, NEW k \in Kinds \ {"compaction"}, AppendEntry(m, k)
        PROVE  GoodInv'
    BY <1>2, AppendGood
  <1>3. ASSUME NEW m \in Managers, NEW k \in Kinds \ {"compaction"}, AppendFails(m, k)
        PROVE  GoodInv'
    <2>1. WriteFails(m, k, 0, {}) /\ runs' = runs
      BY <1>3 DEF AppendFails
    <2>2. /\ 0 \in Ids \cup {0} /\ {} \in SUBSET Ids /\ k \in Kinds
          /\ \A x \in {} : x <= next
      OBVIOUS
    <2>3. Sound(m, k, 0, {})
      BY DEF Sound
    <2> QED BY <2>1, <2>2, <2>3, WriteFailsGood
  <1>4. ASSUME NEW m \in Managers, Die(m)
        PROVE  GoodInv'
    <2>1. /\ UNCHANGED <<disk, newest, entry, last, steady>>
          /\ mem' = [mem EXCEPT ![m] = Down] /\ runs' = [runs EXCEPT ![m] = {}]
      BY <1>4 DEF Die
    <2>2. ~Down.up
      BY DEF Down, NewSession
    <2>3. \A o \in Managers : mem'[o].up => mem[o].up /\ mem'[o] = mem[o] /\ runs'[o] = runs[o]
      BY <2>1, <2>2 DEF TypeInv, TypeOK
    <2> QED BY <2>1, <2>3, QuietGood
  <1>5. ASSUME NEW m \in Managers,
               Open(m) \/ Create(m) \/ Branch(m) \/ Prepare(m) \/ RunFails(m) \/ RunEnds(m)
        PROVE  GoodInv'
    BY <1>5, OpenGood, CreateGood, BranchGood, PrepareGood, RunFailsGood, RunEndsGood
  <1>6. ASSUME NEW m \in Managers, Check(m)
        PROVE  GoodInv'
    <2>1. ~steady'
      BY <1>6, CheckUpset
    <2> QED BY <2>1 DEF GoodInv
  <1> QED BY <1>1, <1>2, <1>3, <1>4, <1>5, <1>6 DEF Next

(* What a restart gives the model is all that was written, but for what    *)
(* the last compaction covers: whatever write failed last or was torn,     *)
(* whatever branches were taken, and wherever appending, rewriting and     *)
(* rotating were cut short, in the histories that are steady.              *)
THEOREM ContextSurvives == Spec => []ContextRestored
  <1>1. TypeInv /\ EntryInv /\ GoodInv => ContextRestored
    <2> SUFFICES ASSUME TypeInv, EntryInv, GoodInv, steady, newest # 0,
                        NEW at, at = SelectLastInSeq(Written, IsCompaction)
                 PROVE  Context(Found) = Range(Written) \
                           (IF at = 0 THEN {} ELSE entry[Written[at]].covers)
      BY DEF ContextRestored
    <2> DEFINE lines == Parsed(disk[Resolve(newest)])
               leaf == LeafOf(lines)
    <2>1. Resolve(newest) \in Logs
      BY ResolveFacts DEF TypeInv, TypeOK
    <2>2. lines \in Seq(Lines) /\ Proper(lines) /\ Found = Path(lines, leaf)
          /\ Found \in Seq(Ids)
      BY <2>1, LogReads DEF Found, Reads
    <2>3. leaf \in Ids \cup {0}
      <3>1. next \in Nat /\ \A k \in DOMAIN lines : lines[k].id <= next
        BY <2>1, LogReads DEF TypeInv, TypeOK
      <3> QED BY <2>2, <3>1, LeafFacts
    <2>4. last \in Ids \cup {0} /\ entry \in Entries /\ Parented(entry)
      BY DEF TypeInv, TypeOK, Entries, EntryInv
    <2>5. Good(Resolve(newest), lines, leaf, entry) /\ leaf = last
      BY DEF GoodInv, FoundGood, DiskGood
    <2> HIDE DEF lines, leaf
    <2>6. Rising(Found)
      BY <2>2, <2>3, PathRises DEF Rising
    <2>7. PICK c \in Ids \cup {0} : Rooted(Resolve(newest), lines, leaf, entry, c)
      BY <2>5 DEF Good
    <2>8. Remembers(On(lines, leaf), Made(entry, leaf), entry)
      BY <2>3, <2>7 DEF Rooted
    <2>9. Written \in Seq(Ids) /\ Rising(Written) /\ Range(Written) = Made(entry, last)
      BY <2>4, WrittenFacts
    <2>10. Remembers(Range(Found), Range(Written), entry)
      BY <2>2, <2>5, <2>8, <2>9 DEF On
    <2> QED BY <2>2, <2>6, <2>9, <2>10, ContextMeans
  <1>2. Init => TypeInv /\ SteadyInv /\ EntryInv /\ GoodInv
    BY TypeInit, SteadyInit, EntryInit, GoodInit
  <1>3. TypeInv /\ SteadyInv /\ EntryInv /\ GoodInv /\ [Next]_vars
        => TypeInv' /\ SteadyInv' /\ EntryInv' /\ GoodInv'
    BY TypeNext, SteadyNext, EntryNext, ContextNext
  <1> QED BY <1>1, <1>2, <1>3, PTL DEF Spec
-----------------------------------------------------------------------------
(* What a manager tested last was open, unless a rewriting may have given  *)
(* the log a closed one's size.                                            *)
CheckedOpen == \A m \in Managers : Closed(mem[m].checked) => m \in resized

(* A step that writes a closed log is one the property admits. *)
ClosedStep ==
    \A n \in Logs : Closed(disk[n]) /\ disk'[n] # disk[n] =>
        \E m \in Managers : /\ mem[m].up /\ mem[m].log = n
                            /\ mem[m].passed \/ m \in resized

LEMMA NoLogOpen == ~Closed(NoLog)
  BY DEF NoLog, Closed

LEMMA WritableMeans ==
    ASSUME TypeInv, CheckedOpen, NEW m \in Managers, Writable(m)
    PROVE  Closed(disk[mem[m].log]) => m \in resized
  <1> SUFFICES ASSUME Closed(disk[mem[m].log]) PROVE m \in resized
    OBVIOUS
  <1>1. mem[m].log \in Logs /\ LogInv(mem[m].log, disk[mem[m].log], next)
    BY DEF TypeInv, TypeOK, Memory, LinesInv
  <1>2. disk[mem[m].log].exists
    BY <1>1, ClosedHasNext
  <1>3. mem[m].checked = disk[mem[m].log] \/ m \in resized
    BY <1>2 DEF Writable
  <1> QED BY <1>3 DEF CheckedOpen

LEMMA ExtendedMeans ==
    ASSUME TypeInv, CheckedOpen, NEW m \in Managers, MayWrite(m), NEW i
    PROVE  Closed(Extended(m, i).checked) => m \in resized
  <1>1. mem[m] \in Memory
    BY DEF TypeInv, TypeOK
  <1>2. Extended(m, i).checked = IF mem[m].passed THEN mem[m].checked
                                 ELSE disk[mem[m].log]
    BY <1>1 DEF Extended, Memory
  <1>3. CASE mem[m].passed
    BY <1>2, <1>3 DEF CheckedOpen
  <1>4. CASE ~mem[m].passed
    BY <1>2, <1>4, WritableMeans DEF MayWrite
  <1> QED BY <1>3, <1>4

LEMMA ExtendedFields ==
    ASSUME TypeInv, NEW m \in Managers, NEW i
    PROVE  /\ Extended(m, i).log = mem[m].log
           /\ DOMAIN Extended(m, i) = DOMAIN mem[m]
  BY DEF TypeInv, TypeOK, Extended, Memory

(* One manager's memory changes. *)
LEMMA CheckedFrame ==
    ASSUME TypeInv, CheckedOpen, NEW m \in Managers, NEW memory,
           mem' = [mem EXCEPT ![m] = memory],
           Closed(memory.checked) => m \in resized',
           \A o \in Managers : o # m /\ o \in resized => o \in resized'
    PROVE  CheckedOpen'
  <1>1. \A o \in Managers : mem'[o] = IF o = m THEN memory ELSE mem[o]
    BY DEF TypeInv, TypeOK
  <1> HIDE DEF Closed
  <1> QED BY <1>1 DEF CheckedOpen

LEMMA WriterOnly ==
    ASSUME TypeInv, CheckedOpen, NEW m \in Managers, MayWrite(m),
           \A k \in Logs : \/ disk'[k] = disk[k] \/ k = mem[m].log
                           \/ ~disk[k].exists
    PROVE  ClosedStep
  <1> SUFFICES ASSUME NEW n \in Logs, Closed(disk[n]), disk'[n] # disk[n]
               PROVE  /\ mem[m].up /\ mem[m].log = n
                      /\ mem[m].passed \/ m \in resized
    BY DEF ClosedStep
  <1>1. disk[n].exists
    <2>1. LogInv(n, disk[n], next)
      BY DEF TypeInv, LinesInv
    <2> QED BY <2>1, ClosedHasNext
  <1>2. mem[m].log = n
    BY <1>1
  <1>3. mem[m].passed \/ m \in resized
    BY <1>2, WritableMeans DEF MayWrite
  <1> QED BY <1>2, <1>3 DEF MayWrite

LEMMA ClosedOpen ==
    ASSUME TypeInv, CheckedOpen, NEW m \in Managers, Open(m)
    PROVE  CheckedOpen' /\ ClosedStep
  <1>1. PICK n \in {newest} \cup (IF Others(m) = {} THEN {} ELSE Logs) :
           /\ n # 0 /\ disk[n].exists
           /\ LET log == Resolve(n)
                  lines == Parsed(disk[log])
              IN  /\ disk' = [disk EXCEPT ![log] = Terminated(@)]
                  /\ newest' = IF disk[log].torn THEN log ELSE newest
                  /\ mem' = [mem EXCEPT ![m] =
                       [NewSession EXCEPT
                          !.log = log, !.lines = lines, !.leaf = LeafOf(lines),
                          !.flushed = TRUE,
                          !.unclosed = Unclosed(Path(lines, LeafOf(lines)))]]
    BY DEF Open
  <1> DEFINE log == Resolve(n)
             lines == Parsed(disk[log])
             memory == [NewSession EXCEPT
                          !.log = log, !.lines = lines, !.leaf = LeafOf(lines),
                          !.flushed = TRUE,
                          !.unclosed = Unclosed(Path(lines, LeafOf(lines)))]
  <1>2. n \in Logs
    BY <1>1 DEF TypeInv, TypeOK
  <1>3. ~Closed(disk[log])
    BY <1>2, ResolveFacts
  <1>4. mem' = [mem EXCEPT ![m] = memory]
    BY <1>1
  <1>5. memory.checked = NoLog
    BY DEF NewSession
  <1>6. disk' = [disk EXCEPT ![log] = Terminated(disk[log])] /\ resized' = resized
    BY <1>1 DEF Open
  <1> HIDE DEF log, memory
  <1>7. CheckedOpen'
    BY <1>4, <1>5, <1>6, NoLogOpen, CheckedFrame
  <1>8. \A k \in Logs : k # log => disk'[k] = disk[k]
    BY <1>6 DEF TypeInv, TypeOK
  <1>9. ClosedStep
    BY <1>3, <1>8 DEF ClosedStep
  <1> QED BY <1>7, <1>9

LEMMA ClosedAppend ==
    ASSUME TypeInv, CheckedOpen, NEW m \in Managers, NEW k \in Kinds, AppendEntry(m, k)
    PROVE  CheckedOpen' /\ ClosedStep
  <1> DEFINE after == Extended(m, next + 1)
             log == Persisted(m, after)
             unclosed == after.unclosed /\ k # "finished"
             written == [after EXCEPT !.flushed = TRUE, !.checked = log,
                                      !.unclosed = unclosed]
             kept == [after EXCEPT !.unclosed = unclosed]
  <1>1. MayWrite(m) /\ NewEntry(m, k, 0, {})
    BY DEF AppendEntry
  <1>2. ~Closed(log)
    <2>1. Compacted(m, after, FALSE) = log
      BY DEF Compacted
    <2>2. FALSE \in BOOLEAN /\ 0 \in Ids \cup {0} /\ {} \in SUBSET Ids
      OBVIOUS
    <2>3. ~Closed(Compacted(m, Extended(m, next + 1), FALSE))
      BY <1>1, <2>2, EntryWritten
    <2> QED BY <2>1, <2>3
  <1>3. Closed(after.checked) => m \in resized
    BY <1>1, ExtendedMeans
  <1>4. /\ after.log = mem[m].log
        /\ "flushed" \in DOMAIN after /\ "checked" \in DOMAIN after
        /\ "unclosed" \in DOMAIN after
    BY ExtendedFields DEF TypeInv, TypeOK, Memory
  <1>5. written.checked = log /\ kept.checked = after.checked
    <2> HIDE DEF after, log, unclosed
    <2> QED BY <1>4
  <1>6. \/ /\ disk' = [disk EXCEPT ![after.log] = log]
           /\ mem' = [mem EXCEPT ![m] = written] /\ resized' = resized \ {m}
        \/ /\ mem' = [mem EXCEPT ![m] = kept]
           /\ disk' = disk /\ resized' = resized
    BY Zenon DEF AppendEntry
  <1> HIDE DEF after, log, unclosed, written, kept
  <1>7. CheckedOpen'
    <2>1. CASE mem' = [mem EXCEPT ![m] = written] /\ resized' = resized \ {m}
      BY <1>2, <1>5, <2>1, CheckedFrame
    <2>2. CASE mem' = [mem EXCEPT ![m] = kept] /\ resized' = resized
      BY <1>3, <1>5, <2>2, CheckedFrame
    <2> QED BY <1>6, <2>1, <2>2
  <1>8. \A n \in Logs : disk'[n] = disk[n] \/ n = mem[m].log
    BY <1>4, <1>6 DEF TypeInv, TypeOK
  <1> QED BY <1>1, <1>7, <1>8, WriterOnly

LEMMA ClosedFails ==
    ASSUME TypeInv, CheckedOpen, NEW m \in Managers, NEW k, NEW kept, NEW covers,
           WriteFails(m, k, kept, covers)
    PROVE  CheckedOpen' /\ ClosedStep
  <1> DEFINE after == Extended(m, next + 1)
             unclosed == after.unclosed /\ k # "finished"
             memory == [after EXCEPT !.failed = TRUE, !.unclosed = unclosed]
  <1>1. /\ MayWrite(m) /\ Torn(m, after) /\ resized' = resized
        /\ mem' = [mem EXCEPT ![m] = memory]
    BY DEF WriteFails
  <1>2. Closed(after.checked) => m \in resized
    BY <1>1, ExtendedMeans
  <1>3. after.log = mem[m].log /\ "checked" \in DOMAIN after
    BY ExtendedFields DEF TypeInv, TypeOK, Memory
  <1> HIDE DEF after, unclosed
  <1>4. memory.checked = after.checked
    BY <1>3
  <1> HIDE DEF memory
  <1>5. CheckedOpen'
    BY <1>1, <1>2, <1>4, CheckedFrame
  <1>6. \A n \in Logs : disk'[n] = disk[n] \/ n = mem[m].log
    <2>1. \/ disk' = disk
          \/ disk' = [disk EXCEPT ![after.log] = Tear(@)]
          \/ \E c \in 0..(Len(after.lines) - 1) :
               disk' = [disk EXCEPT ![after.log] = Cut(after.lines, c)]
      BY <1>1, Zenon DEF Torn, Cut
    <2> QED BY <1>3, <2>1 DEF TypeInv, TypeOK
  <1> QED BY <1>1, <1>5, <1>6, WriterOnly

LEMMA ClosedRunEnds ==
    ASSUME TypeInv, CheckedOpen, NEW m \in Managers, RunEnds(m)
    PROVE  CheckedOpen' /\ ClosedStep
  <1>1. PICK run \in runs[m], prune \in BOOLEAN :
           /\ NewEntry(m, "compaction", run.kept, run.covers)
           /\ \A o \in Managers : o # m /\ o \in resized => o \in resized'
           /\ LET after == Extended(m, next + 1)
                  log == Compacted(m, after, prune)
              IN  \/ /\ disk' = [disk EXCEPT ![after.log] = log]
                     /\ mem' = [mem EXCEPT ![m] =
                          [after EXCEPT !.flushed = TRUE, !.checked = log]]
                  \/ Rotate(m, after, log, run.kept)
    BY DEF RunEnds
  <1> DEFINE after == Extended(m, next + 1)
             log == Compacted(m, after, prune)
             written == [after EXCEPT !.flushed = TRUE, !.checked = log]
  <1>2. MayWrite(m)
    BY DEF RunEnds
  <1>3. run.kept \in Ids \cup {0} /\ run.covers \in SUBSET Ids /\ "compaction" \in Kinds
    BY <1>1 DEF TypeInv, TypeOK, Kinds
  <1>4. /\ after.log = mem[m].log /\ mem[m].log \in Logs
        /\ "flushed" \in DOMAIN after /\ "checked" \in DOMAIN after
    BY ExtendedFields DEF TypeInv, TypeOK, Memory
  <1>5. ~Closed(log)
    <2>1. NewEntry(m, "compaction", run.kept, run.covers)
      BY <1>1
    <2> QED BY <1>3, <2>1, EntryWritten
  <1>6. next + 1 \in Ids /\ next < next + 1 /\ after.leaf = next + 1
    <2>1. NewEntry(m, "compaction", run.kept, run.covers)
      BY <1>1
    <2>2. next + 1 \in Ids /\ next \in Nat /\ after.leaf = next + 1
      BY <1>3, <2>1, EntryMade
    <2> QED BY <2>2
  <1> HIDE DEF log
  <1>7. CASE /\ disk' = [disk EXCEPT ![after.log] = log]
             /\ mem' = [mem EXCEPT ![m] = written]
    <2> HIDE DEF after
    <2>1. written.checked = log
      BY <1>4
    <2> HIDE DEF written
    <2>2. CheckedOpen'
      BY <1>1, <1>5, <1>7, <2>1, CheckedFrame
    <2>3. \A n \in Logs : disk'[n] = disk[n] \/ n = mem[m].log
      BY <1>4, <1>7 DEF TypeInv, TypeOK
    <2> QED BY <1>2, <2>2, <2>3, WriterOnly
  <1>8. CASE Rotate(m, after, log, run.kept)
    <2> DEFINE path == Path(mem[m].lines, mem[m].leaf)
               lines(start) == Chained(Append(Carried(path, start), after.leaf))
               new(start) == [exists |-> TRUE, lines |-> lines(start), torn |-> FALSE]
               rotated(start) == [after EXCEPT !.log = @ + 1, !.lines = lines(start),
                                               !.leaf = LeafOf(lines(start)),
                                               !.flushed = TRUE, !.checked = new(start)]
    <2>1. PICK start \in TailStarts(path, run.kept) :
             /\ mem' = [mem EXCEPT ![m] = rotated(start)]
             /\ \E old \in {log, Tear(log), Glued(log, Marker(after.log + 1))} :
                  disk' = [disk EXCEPT ![after.log] = old, ![after.log + 1] = new(start)]
      BY <1>8, Zenon DEF Rotate
    <2>2. ~disk[after.log + 1].exists /\ after.log + 1 \in Logs /\ 1 \in Logs
      BY <1>4, <1>8, BoundsAssumption DEF Rotate, Logs
    <2>3. lines(start) = Chained(RotatedIds(m, start, next + 1))
      BY <1>6 DEF RotatedIds
    <2>4. /\ lines(start) \in Seq(Lines) /\ Proper(lines(start))
          /\ \A k \in DOMAIN lines(start) : lines(start)[k].id <= next + 1
      <3> DEFINE i == next + 1
                 made == Chained(RotatedIds(m, start, i))
      <3>1. i \in Ids /\ next < i /\ lines(start) = made
        BY <1>6, <2>3
      <3> HIDE DEF after, lines, i
      <3>2. made \in Seq(Lines) /\ Proper(made) /\ \A k \in DOMAIN made : made[k].id <= i
        BY <3>1, RotatedLines
      <3> QED BY <3>1, <3>2 DEF i
    <2>5. ~Closed(new(start))
      <3> DEFINE more == lines(start)
      <3>1. next + 1 \in Nat
        BY <1>6, IdsPositive
      <3> HIDE DEF lines
      <3> QED BY <2>2, <2>4, <3>1, AllWritten
    <2> HIDE DEF after, lines, new
    <2>6. rotated(start).checked = new(start)
      BY <1>4
    <2> HIDE DEF rotated
    <2>7. CheckedOpen'
      BY <1>1, <2>1, <2>5, <2>6, CheckedFrame
    <2>8. \A k \in Logs : \/ disk'[k] = disk[k] \/ k = mem[m].log
                          \/ ~disk[k].exists
      BY <1>4, <2>1, <2>2 DEF TypeInv, TypeOK
    <2> QED BY <1>2, <2>7, <2>8, WriterOnly
  <1> QED BY <1>1, <1>7, <1>8 DEF log

LEMMA ClosedCheck ==
    ASSUME TypeInv, CheckedOpen, NEW m \in Managers, Check(m)
    PROVE  CheckedOpen'
  <1> DEFINE memory == [mem[m] EXCEPT !.passed = TRUE, !.checked = disk[mem[m].log]]
  <1>1. mem' = [mem EXCEPT ![m] = memory] /\ resized' = resized
    BY DEF Check, TypeInv, TypeOK
  <1>2. memory.checked = disk[mem[m].log]
    BY DEF TypeInv, TypeOK, Memory
  <1>3. Closed(disk[mem[m].log]) => m \in resized
    BY WritableMeans DEF Check
  <1> HIDE DEF memory
  <1> QED BY <1>1, <1>2, <1>3, CheckedFrame

LEMMA ClosedNext ==
    TypeInv /\ CheckedOpen /\ [Next]_vars => CheckedOpen' /\ (ClosedStep \/ UNCHANGED vars)
  <1> SUFFICES ASSUME TypeInv, CheckedOpen, [Next]_vars
               PROVE  CheckedOpen' /\ (ClosedStep \/ UNCHANGED vars)
    OBVIOUS
  <1>1. CASE UNCHANGED vars
    BY <1>1 DEF vars, CheckedOpen
  <1>2. ASSUME disk' = disk
        PROVE  ClosedStep
    BY <1>2 DEF ClosedStep
  <1>3. ASSUME NEW m \in Managers, NEW k \in Kinds, AppendEntry(m, k) \/ AppendFails(m, k)
        PROVE  CheckedOpen' /\ ClosedStep
    BY <1>3, ClosedAppend, ClosedFails DEF AppendFails
  <1>4. ASSUME NEW m \in Managers, Open(m) \/ RunEnds(m)
        PROVE  CheckedOpen' /\ ClosedStep
    BY <1>4, ClosedOpen, ClosedRunEnds
  <1>5. ASSUME NEW m \in Managers, Create(m) \/ Die(m)
        PROVE  CheckedOpen' /\ ClosedStep
    <2>1. NewSession.checked = NoLog /\ Down.checked = NoLog
      BY DEF NewSession, Down
    <2> DEFINE memory == IF Create(m) THEN NewSession ELSE Down
    <2>2. mem' = [mem EXCEPT ![m] = memory] /\ disk' = disk
      BY <1>5 DEF Create, Die
    <2>3. \A o \in Managers : o # m /\ o \in resized => o \in resized'
      BY <1>5 DEF Create, Die
    <2>4. memory.checked = NoLog
      BY <2>1
    <2> HIDE DEF memory
    <2> QED BY <1>2, <2>2, <2>3, <2>4, NoLogOpen, CheckedFrame
  <1>6. ASSUME NEW m \in Managers, Branch(m)
        PROVE  CheckedOpen' /\ ClosedStep
    <2>1. PICK i : mem' = [mem EXCEPT ![m].leaf = i]
      BY <1>6, Zenon DEF Branch
    <2> DEFINE memory == [mem[m] EXCEPT !.leaf = i]
    <2>2. mem' = [mem EXCEPT ![m] = memory]
      BY <2>1 DEF TypeInv, TypeOK
    <2>3. memory.checked = mem[m].checked
      BY DEF TypeInv, TypeOK, Memory
    <2>4. resized' = resized /\ disk' = disk
      BY <1>6 DEF Branch
    <2> HIDE DEF memory
    <2>5. CheckedOpen'
      <3>1. Closed(memory.checked) => m \in resized'
        BY <2>3, <2>4 DEF CheckedOpen
      <3> QED BY <2>2, <2>4, <3>1, CheckedFrame
    <2> QED BY <1>2, <2>4, <2>5
  <1>7. ASSUME NEW m \in Managers, Check(m)
        PROVE  CheckedOpen' /\ ClosedStep
    <2>1. disk' = disk
      BY <1>7 DEF Check
    <2> QED BY <1>2, <1>7, <2>1, ClosedCheck
  <1>8. ASSUME NEW m \in Managers, Prepare(m)
        PROVE  CheckedOpen' /\ ClosedStep
    <2>1. disk' = disk /\ mem' = mem /\ resized' = resized
      BY <1>8 DEF Prepare
    <2> QED BY <1>2, <2>1 DEF CheckedOpen
  <1>9. ASSUME NEW m \in Managers, RunFails(m)
        PROVE  CheckedOpen' /\ ClosedStep
    <2>1. PICK run \in runs[m] :
             \/ disk' = disk /\ mem' = mem /\ resized' = resized
             \/ WriteFails(m, "compaction", run.kept, run.covers)
      BY <1>9 DEF RunFails
    <2>2. CASE disk' = disk /\ mem' = mem /\ resized' = resized
      BY <1>2, <2>2 DEF CheckedOpen
    <2> QED BY <2>1, <2>2, ClosedFails
  <1> QED BY <1>1, <1>3, <1>4, <1>5, <1>6, <1>7, <1>8, <1>9 DEF Next

(* A log closed by Log Rotation is written again only by a process that    *)
(* passed its test before, or to which the log shows the size it knew.     *)
THEOREM RotatedLogsStayClosed == Spec => ClosedStaysClosed
  <1>1. Init => TypeInv /\ CheckedOpen
    BY TypeInit, NoLogOpen DEF Init, CheckedOpen, Down, NewSession
  <1>2. TypeInv /\ CheckedOpen /\ [Next]_vars => TypeInv' /\ CheckedOpen'
    BY TypeNext, ClosedNext
  <1>3. TypeInv /\ CheckedOpen /\ [Next]_vars =>
          [\A n \in Logs : Closed(disk[n]) /\ disk'[n] # disk[n] =>
             \E m \in Managers : /\ mem[m].up /\ mem[m].log = n
                                 /\ mem[m].passed \/ m \in resized]_vars
    BY ClosedNext DEF ClosedStep
  <1> QED BY <1>1, <1>2, <1>3, PTL DEF Spec, ClosedStaysClosed
=============================================================================

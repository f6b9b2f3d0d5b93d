--------------------- MODULE AgentSession_messages_proofs ---------------------
(***************************************************************************)
(* Proofs about the way of a message through AgentSession: the queues it   *)
(* waits in, the display that shows it, its delivery.  They hold for every *)
(* set of messages, every settings and every bound, with extension         *)
(* messages and with prompt() called past the Channel Session.             *)
(***************************************************************************)
EXTENDS AgentSession_proofs

-----------------------------------------------------------------------------
(* Sequences without repetitions. *)

(* Which places and elements a sequence has.                               *)
LEMMA SeqFacts ==
    ASSUME NEW S, NEW q \in Seq(S)
    PROVE  /\ Len(q) \in Nat /\ DOMAIN q = 1 .. Len(q)
           /\ \A i \in DOMAIN q : q[i] \in S /\ i \in Nat
           /\ ToSet(q) \subseteq S
           /\ \A m : Contains(q, m) <=> m \in ToSet(q)
           /\ \A m : m \in ToSet(q) <=> \E i \in DOMAIN q : q[i] = m
  BY LenProperties, ElementOfSeq DEF ToSet, Contains

(* A message that joins at the end.                                        *)
LEMMA Joins ==
    ASSUME NEW S, NEW q \in Seq(S), NEW m \in S
    PROVE  /\ ToSet(Append(q, m)) = ToSet(q) \cup {m}
           /\ DOMAIN Append(q, m) = DOMAIN q \cup {Len(q) + 1}
           /\ Append(q, m)[Len(q) + 1] = m
           /\ \A i \in DOMAIN q : Append(q, m)[i] = q[i] /\ i < Len(q) + 1
           /\ IsInjective(q) /\ m \notin ToSet(q) => IsInjective(Append(q, m))
  <1>1. /\ Len(q) \in Nat /\ DOMAIN q = 1 .. Len(q)
        /\ DOMAIN Append(q, m) = 1 .. (Len(q) + 1)
        /\ \A i \in 1 .. Len(q) : Append(q, m)[i] = q[i]
        /\ Append(q, m)[Len(q) + 1] = m
    BY LenProperties, AppendProperties
  <1>2. DOMAIN Append(q, m) = DOMAIN q \cup {Len(q) + 1}
    BY <1>1
  <1>3. ToSet(Append(q, m)) = ToSet(q) \cup {m}
    BY <1>1, <1>2 DEF ToSet
  <1>4. ASSUME IsInjective(q), m \notin ToSet(q)
        PROVE  IsInjective(Append(q, m))
    BY <1>1, <1>2, <1>4 DEF IsInjective, ToSet
  <1> QED BY <1>1, <1>2, <1>3, <1>4

(* A message that goes before the others.                                  *)
LEMMA JoinsInFront ==
    ASSUME NEW S, NEW q \in Seq(S), NEW m \in S
    PROVE  /\ ToSet(<<m>> \o q) = {m} \cup ToSet(q)
           /\ IsInjective(q) /\ m \notin ToSet(q) => IsInjective(<<m>> \o q)
  <1> DEFINE r == <<m>> \o q
  <1>1. /\ Len(q) \in Nat /\ DOMAIN q = 1 .. Len(q)
        /\ \A i \in DOMAIN q : q[i] \in ToSet(q) /\ i \in Nat
    BY SeqFacts DEF ToSet
  <1>2. /\ r \in Seq(S) /\ Len(r) = Len(q) + 1
        /\ \A i \in 1 .. Len(r) : r[i] = IF i = 1 THEN m ELSE q[i - 1]
    <2>1. <<m>> \in Seq(S) /\ Len(<<m>>) = 1 /\ <<m>>[1] = m
      OBVIOUS
    <2>2. /\ r \in Seq(S) /\ Len(r) = 1 + Len(q)
          /\ \A i \in 1 .. (1 + Len(q)) :
                r[i] = IF i <= 1 THEN <<m>>[i] ELSE q[i - 1]
      BY <2>1, ConcatProperties
    <2> QED BY <1>1, <2>1, <2>2
  <1>3. DOMAIN r = 1 .. (Len(q) + 1)
    BY <1>2, LenProperties
  <1> HIDE DEF r
  <1>4. ToSet(r) = {m} \cup ToSet(q)
    <2>1. ASSUME NEW i \in DOMAIN r
          PROVE  r[i] = m \/ r[i] \in ToSet(q)
      <3>1. i = 1 \/ (i # 1 /\ i - 1 \in DOMAIN q)
        BY <1>1, <1>3
      <3> QED BY <1>1, <1>2, <1>3, <3>1
    <2>2. m \in ToSet(r)
      BY <1>1, <1>2, <1>3 DEF ToSet
    <2>3. ASSUME NEW i \in DOMAIN q
          PROVE  q[i] \in ToSet(r)
      <3>1. i + 1 \in DOMAIN r /\ r[i + 1] = q[i]
        BY <1>1, <1>2, <1>3
      <3> QED BY <3>1 DEF ToSet
    <2>4. ToSet(r) \subseteq {m} \cup ToSet(q)
      BY <2>1 DEF ToSet
    <2>5. ToSet(q) \subseteq ToSet(r)
      BY <2>3 DEF ToSet
    <2> QED BY <2>2, <2>4, <2>5
  <1>5. ASSUME IsInjective(q), m \notin ToSet(q)
        PROVE  IsInjective(r)
    <2> SUFFICES ASSUME NEW i \in DOMAIN r, NEW j \in DOMAIN r, r[i] = r[j]
                 PROVE  i = j
      BY DEF IsInjective
    <2>1. \A k \in DOMAIN r : k = 1 \/ (k - 1 \in DOMAIN q /\ r[k] = q[k - 1])
      BY <1>1, <1>2, <1>3
    <2>2. r[1] = m
      BY <1>1, <1>2
    <2>3. CASE i = 1 \/ j = 1
      BY <1>1, <1>5, <2>1, <2>2, <2>3
    <2>4. CASE i # 1 /\ j # 1
      <3>1. i - 1 = j - 1
        BY <1>5, <2>1, <2>4 DEF IsInjective
      <3> QED BY <1>1, <1>3, <3>1
    <2> QED BY <2>3, <2>4
  <1> QED BY <1>4, <1>5 DEF r

(* A sequence is its first element, if it has one, and the rest.           *)
LEMMA Splits ==
    ASSUME NEW S, NEW q \in Seq(S), q # <<>>
    PROVE  /\ Head(q) = q[1] /\ 1 \in DOMAIN q /\ Head(q) \in ToSet(q)
           /\ ToSet(q) = {Head(q)} \cup ToSet(Tail(q))
           /\ \A i \in DOMAIN Tail(q) :
                 i \in Nat /\ i + 1 \in DOMAIN q /\ Tail(q)[i] = q[i + 1] /\ i + 1 # 1
           /\ \A i \in DOMAIN q : i = 1 \/ (i - 1 \in DOMAIN Tail(q)
                                            /\ q[i] = Tail(q)[i - 1])
           /\ IsInjective(q) => IsInjective(Tail(q)) /\ Head(q) \notin ToSet(Tail(q))
  <1>1. /\ Len(q) \in Nat \ {0} /\ DOMAIN q = 1 .. Len(q)
        /\ Len(Tail(q)) = Len(q) - 1 /\ Tail(q) \in Seq(S)
        /\ \A i \in 1 .. Len(Tail(q)) : Tail(q)[i] = q[i + 1]
        /\ Head(q) = q[1]
    BY HeadTailProperties, EmptySeq, LenProperties
  <1>2. DOMAIN Tail(q) = 1 .. (Len(q) - 1)
    BY <1>1, LenProperties
  <1>3. /\ \A i \in DOMAIN Tail(q) :
             i \in Nat /\ i + 1 \in DOMAIN q /\ Tail(q)[i] = q[i + 1] /\ i + 1 # 1
        /\ \A i \in DOMAIN q : i = 1 \/ (i - 1 \in DOMAIN Tail(q)
                                         /\ q[i] = Tail(q)[i - 1])
        /\ 1 \in DOMAIN q
    BY <1>1, <1>2
  <1>4. ToSet(q) = {Head(q)} \cup ToSet(Tail(q))
    <2>1. ASSUME NEW x \in ToSet(q)
          PROVE  x = Head(q) \/ x \in ToSet(Tail(q))
      <3>1. PICK i \in DOMAIN q : q[i] = x
        BY DEF ToSet
      <3>2. i = 1 \/ (i - 1 \in DOMAIN Tail(q) /\ x = Tail(q)[i - 1])
        BY <1>3, <3>1
      <3> QED BY <1>1, <3>1, <3>2 DEF ToSet
    <2>2. Head(q) \in ToSet(q)
      BY <1>1, <1>3 DEF ToSet
    <2>3. \A x \in ToSet(Tail(q)) : x \in ToSet(q)
      BY <1>3 DEF ToSet
    <2> QED BY <2>1, <2>2, <2>3
  <1>5. ASSUME IsInjective(q)
        PROVE  IsInjective(Tail(q)) /\ Head(q) \notin ToSet(Tail(q))
    <2>1. IsInjective(Tail(q))
      BY <1>3, <1>5 DEF IsInjective
    <2>2. Head(q) \notin ToSet(Tail(q))
      BY <1>1, <1>3, <1>5 DEF IsInjective, ToSet
    <2> QED BY <2>1, <2>2
  <1> QED BY <1>1, <1>3, <1>4, <1>5 DEF ToSet

(* drain() takes a first part of a queue and leaves the rest, in order.    *)
LEMMA Drains ==
    ASSUME NEW S, NEW mode, NEW q \in Seq(S)
    PROVE  LET d == Drained(mode, q)
               r == Left(mode, q)
           IN  /\ ToSet(q) = ToSet(d) \cup ToSet(r)
               /\ IsInjective(q) => /\ IsInjective(d) /\ IsInjective(r)
                                    /\ ToSet(d) \cap ToSet(r) = {}
               /\ \A i \in DOMAIN d : i \in DOMAIN q /\ d[i] = q[i]
               /\ \A i \in DOMAIN r : \E k \in DOMAIN q :
                     /\ r[i] = q[k] /\ i \in Nat /\ k \in Nat
                     /\ \A j \in DOMAIN d : j < k
                     /\ r = q \/ (k = i + 1 /\ r = Tail(q))
  <1> DEFINE d == Drained(mode, q)
             r == Left(mode, q)
  <1>1. DOMAIN <<>> = {} /\ ToSet(<<>>) = {} /\ IsInjective(<<>>)
    BY EmptySeq DEF ToSet, IsInjective
  <1>2. CASE mode = "all" \/ q = <<>>
    <2>1. d = q /\ r = <<>>
      BY <1>2 DEF Drained, Left
    <2> QED BY <1>1, <2>1
  <1>3. CASE mode # "all" /\ q # <<>>
    <2>1. d = <<Head(q)>> /\ r = Tail(q)
      BY <1>3 DEF Drained, Left
    <2>2. DOMAIN d = {1} /\ d[1] = Head(q) /\ ToSet(d) = {Head(q)} /\ IsInjective(d)
      BY <2>1 DEF ToSet, IsInjective
    <2>3. \A i \in DOMAIN r : \E k \in DOMAIN q :
             /\ r[i] = q[k] /\ i \in Nat /\ k \in Nat
             /\ \A j \in DOMAIN d : j < k
             /\ k = i + 1 /\ r = Tail(q)
      <3>1. \A i \in DOMAIN r : /\ i \in Nat /\ i + 1 \in DOMAIN q
                                /\ r[i] = q[i + 1] /\ i + 1 # 1
        BY <1>3, <2>1, Splits
      <3>2. \A i \in DOMAIN r : 1 < i + 1
        BY <3>1
      <3> QED BY <2>1, <2>2, <3>1, <3>2
    <2> QED BY <1>3, <2>1, <2>2, <2>3, Splits
  <1> QED BY <1>2, <1>3

(* A message removed from a display, and what it leaves.                   *)
LEMMA Removes ==
    ASSUME NEW S, NEW q \in Seq(S), IsInjective(q), NEW m
    PROVE  /\ IsInjective(Without(q, m))
           /\ ToSet(Without(q, m)) = ToSet(q) \ {m}
           /\ \A k, l \in DOMAIN Without(q, m) : \E i, j \in DOMAIN q :
                 /\ Without(q, m)[k] = q[i] /\ Without(q, m)[l] = q[j]
                 /\ i < j => k < l
  <1> DEFINE w == Without(q, m)
  <1>1. /\ Len(q) \in Nat /\ DOMAIN q = 1 .. Len(q)
        /\ Contains(q, m) <=> m \in ToSet(q)
        /\ ToSet(q) = {q[i] : i \in DOMAIN q}
    BY SeqFacts DEF ToSet
  <1>2. CASE ~Contains(q, m)
    <2>1. w = q
      BY <1>2 DEF Without
    <2> QED BY <1>1, <1>2, <2>1
  <1>3. CASE Contains(q, m)
    <2> DEFINE c == CHOOSE j \in DOMAIN q : q[j] = m
               n == Len(q)
               a == SubSeq(q, 1, c - 1)
               b == SubSeq(q, c + 1, n)
    <2>1. c \in 1 .. n /\ q[c] = m
      BY <1>1, <1>3 DEF Contains
    <2> HIDE DEF c
    <2>2. /\ \A k \in 1 .. (c - 1) : q[k] \in S
          /\ \A k \in (c + 1) .. n : q[k] \in S
      BY <1>1, <2>1, SeqFacts
    <2>3. /\ a \in Seq(S) /\ Len(a) = c - 1
          /\ \A k \in 1 .. (c - 1) : a[k] = q[k]
      <3>1. a \in Seq(S) /\ Len(a) = IF 1 <= c - 1 THEN c - 1 - 1 + 1 ELSE 0
        BY <1>1, <2>1, <2>2, SubSeqProperties
      <3>2. \A k \in 1 .. (c - 1) : a[k] = q[1 + k - 1]
        BY <1>1, <2>1, <2>2, <3>1, SubSeqProperties
      <3>3. \A k \in 1 .. (c - 1) : 1 + k - 1 = k
        BY <1>1, <2>1
      <3> QED BY <1>1, <2>1, <3>1, <3>2, <3>3
    <2>4. /\ b \in Seq(S) /\ Len(b) = n - c
          /\ \A k \in 1 .. (n - c) : b[k] = q[c + k]
      <3>1. b \in Seq(S) /\ Len(b) = IF c + 1 <= n THEN n - (c + 1) + 1 ELSE 0
        BY <1>1, <2>1, <2>2, SubSeqProperties
      <3>2. \A k \in 1 .. (n - (c + 1) + 1) : b[k] = q[c + 1 + k - 1]
        BY <1>1, <2>1, <2>2, SubSeqProperties
      <3>3. \A k \in 1 .. (n - c) : c + 1 + k - 1 = c + k
        BY <1>1, <2>1
      <3> QED BY <1>1, <2>1, <3>1, <3>2, <3>3
    <2>5. w = a \o b
      BY <1>3 DEF Without, RemoveAt, c
    <2> HIDE DEF a, b
    <2>6. /\ DOMAIN w = 1 .. (n - 1)
          /\ \A k \in 1 .. (n - 1) : w[k] = IF k < c THEN q[k] ELSE q[k + 1]
      <3>1. /\ Len(a \o b) = Len(a) + Len(b) /\ a \o b \in Seq(S)
            /\ \A k \in 1 .. (Len(a) + Len(b)) :
                  (a \o b)[k] = IF k <= Len(a) THEN a[k] ELSE b[k - Len(a)]
        BY <2>3, <2>4, ConcatProperties
      <3>2. Len(a) + Len(b) = n - 1
        BY <1>1, <2>1, <2>3, <2>4
      <3>3. ASSUME NEW k \in 1 .. (n - 1), k < c
            PROVE  w[k] = q[k]
        BY <1>1, <2>1, <2>3, <2>5, <3>1, <3>2, <3>3
      <3>4. ASSUME NEW k \in 1 .. (n - 1), ~(k < c)
            PROVE  w[k] = q[k + 1]
        <4>1. /\ k - Len(a) \in 1 .. (n - c) /\ ~(k <= Len(a))
              /\ c + (k - Len(a)) = k + 1
          BY <1>1, <2>1, <2>3, <3>4
        <4>2. w[k] = b[k - Len(a)]
          BY <2>5, <3>1, <3>2, <3>4, <4>1
        <4> QED BY <2>4, <4>1, <4>2
      <3>5. DOMAIN w = 1 .. (n - 1)
        BY <2>5, <3>1, <3>2, LenProperties
      <3> QED BY <3>3, <3>4, <3>5
    <2> DEFINE From(k) == IF k < c THEN k ELSE k + 1
    <2>7. \A k \in DOMAIN w : /\ From(k) \in DOMAIN q /\ From(k) # c
                              /\ w[k] = q[From(k)]
      BY <1>1, <2>1, <2>6
    <2>8. \A k, l \in DOMAIN w : /\ From(k) < From(l) => k < l
                                 /\ From(k) = From(l) => k = l
      BY <1>1, <2>1, <2>6
    <2>9. \A i \in DOMAIN q : i # c => \E k \in DOMAIN w : From(k) = i
      <3>1. ASSUME NEW i \in DOMAIN q, i < c
            PROVE  i \in DOMAIN w /\ From(i) = i
        BY <1>1, <2>1, <2>6, <3>1
      <3>2. ASSUME NEW i \in DOMAIN q, i > c
            PROVE  i - 1 \in DOMAIN w /\ From(i - 1) = i
        BY <1>1, <2>1, <2>6, <3>2
      <3> QED BY <1>1, <2>1, <3>1, <3>2
    <2> HIDE DEF From, w
    <2>10. \A i \in DOMAIN q : q[i] = m => i = c
      BY <1>1, <2>1 DEF IsInjective
    <2>11. IsInjective(w)
      BY <2>7, <2>8 DEF IsInjective
    <2>12. ToSet(w) = ToSet(q) \ {m}
      <3>1. \A x \in ToSet(w) : x \in ToSet(q) \ {m}
        BY <1>1, <2>7, <2>10 DEF ToSet
      <3>2. ASSUME NEW x \in ToSet(q) \ {m}
            PROVE  x \in ToSet(w)
        <4>1. PICK i \in DOMAIN q : q[i] = x
          BY <1>1
        <4>2. i # c
          BY <2>1, <4>1
        <4>3. PICK k \in DOMAIN w : From(k) = i
          BY <2>9, <4>2
        <4> QED BY <2>7, <4>1, <4>3 DEF ToSet
      <3> QED BY <3>1, <3>2
    <2>13. \A k, l \in DOMAIN w : \E i, j \in DOMAIN q :
              w[k] = q[i] /\ w[l] = q[j] /\ (i < j => k < l)
      BY <2>7, <2>8
    <2> QED BY <2>11, <2>12, <2>13 DEF w
  <1> QED BY <1>2, <1>3

-----------------------------------------------------------------------------
(* Where messages are.  The parts take the queues as parameters: most      *)
(* steps move messages from one to another.                                *)

(* A message is in one of the queues, with the run loop, or delivered, and *)
(* there once.                                                             *)
Apart(s, f, p, d) ==
    /\ IsInjective(s) /\ IsInjective(f) /\ IsInjective(p) /\ IsInjective(d)
    /\ ToSet(s) \cap (ToSet(f) \cup ToSet(p) \cup ToSet(d)) = {}
    /\ ToSet(f) \cap (ToSet(p) \cup ToSet(d)) = {}
    /\ ToSet(p) \cap ToSet(d) = {}

(* What a display shows of its queue q and of what the run loop holds, p:  *)
(* the latter first, both in their order.                                  *)
ShowsSet(shown, q, p) ==
    /\ IsInjective(shown)
    /\ ToSet(shown) \subseteq (ToSet(q) \cup ToSet(p)) \cap UserMsgs
    /\ ToSet(q) \cap UserMsgs \subseteq ToSet(shown)

SameOrder(shown, q) ==
    \A k, l \in DOMAIN shown, i, j \in DOMAIN q :
        shown[k] = q[i] /\ shown[l] = q[j] /\ i < j => k < l

HeldFirst(shown, q, p) ==
    \A k, l \in DOMAIN shown :
        shown[k] \in ToSet(p) /\ shown[l] \in ToSet(q) => k < l

Shown(shown, q, p) ==
    /\ ShowsSet(shown, q, p) /\ HeldFirst(shown, q, p)
    /\ SameOrder(shown, q) /\ SameOrder(shown, p)

(* A message that goes into a queue.                                       *)
LEMMA ShownJoins ==
    ASSUME NEW q \in Seq(Msgs), NEW p \in Seq(Msgs), NEW shown \in Seq(Msgs),
           NEW m \in UserMsgs, m \notin ToSet(q) \cup ToSet(p),
           Shown(shown, q, p)
    PROVE  Shown(Append(shown, m), Append(q, m), p)
  <1> DEFINE s2 == Append(shown, m)
             q2 == Append(q, m)
             n == Len(shown) + 1
             o == Len(q) + 1
  <1>0. m \in Msgs
    BY StartersAreMessages
  <1>1. /\ ToSet(s2) = ToSet(shown) \cup {m} /\ DOMAIN s2 = DOMAIN shown \cup {n}
        /\ s2[n] = m /\ \A i \in DOMAIN shown : s2[i] = shown[i] /\ i < n
        /\ IsInjective(shown) /\ m \notin ToSet(shown) => IsInjective(s2)
    BY <1>0, Joins
  <1>2. /\ ToSet(q2) = ToSet(q) \cup {m} /\ DOMAIN q2 = DOMAIN q \cup {o}
        /\ q2[o] = m /\ \A i \in DOMAIN q : q2[i] = q[i] /\ i < o
    BY <1>0, Joins
  <1>3. /\ \A i \in DOMAIN shown : shown[i] \in ToSet(shown) /\ i \in Nat
        /\ \A i \in DOMAIN q : q[i] \in ToSet(q) /\ i \in Nat
        /\ \A i \in DOMAIN p : p[i] \in ToSet(p)
        /\ n \in Nat /\ o \in Nat
    BY SeqFacts DEF ToSet
  <1> HIDE DEF s2, q2, n, o
  <1>4. m \notin ToSet(shown)
    BY DEF Shown, ShowsSet
  <1>5. ShowsSet(s2, q2, p)
    BY <1>1, <1>2, <1>4 DEF Shown, ShowsSet
  <1>6. SameOrder(s2, q2)
    <2> SUFFICES ASSUME NEW k \in DOMAIN s2, NEW l \in DOMAIN s2,
                        NEW i \in DOMAIN q2, NEW j \in DOMAIN q2,
                        s2[k] = q2[i], s2[l] = q2[j], i < j
                 PROVE  k < l
      BY DEF SameOrder
    <2>1. i \in DOMAIN q /\ q2[i] = q[i] /\ q[i] # m
      BY <1>2, <1>3
    <2>2. k \in DOMAIN shown /\ s2[k] = shown[k]
      BY <1>1, <2>1
    <2>3. CASE l = n
      BY <1>1, <2>2, <2>3
    <2>4. CASE l \in DOMAIN shown
      <3>1. s2[l] = shown[l] /\ shown[l] # m
        BY <1>1, <1>3, <1>4, <2>4
      <3>2. j \in DOMAIN q /\ q2[j] = q[j]
        BY <1>2, <3>1
      <3> QED BY <2>1, <2>2, <2>4, <3>1, <3>2 DEF Shown, SameOrder
    <2> QED BY <1>1, <2>3, <2>4
  <1>7. SameOrder(s2, p)
    <2> SUFFICES ASSUME NEW k \in DOMAIN s2, NEW l \in DOMAIN s2,
                        NEW i \in DOMAIN p, NEW j \in DOMAIN p,
                        s2[k] = p[i], s2[l] = p[j], i < j
                 PROVE  k < l
      BY DEF SameOrder
    <2>1. p[i] # m /\ p[j] # m
      BY <1>3
    <2>2. /\ k \in DOMAIN shown /\ s2[k] = shown[k]
          /\ l \in DOMAIN shown /\ s2[l] = shown[l]
      BY <1>1, <2>1
    <2> QED BY <2>2 DEF Shown, SameOrder
  <1>8. HeldFirst(s2, q2, p)
    <2> SUFFICES ASSUME NEW k \in DOMAIN s2, NEW l \in DOMAIN s2,
                        s2[k] \in ToSet(p), s2[l] \in ToSet(q2)
                 PROVE  k < l
      BY DEF HeldFirst
    <2>1. k \in DOMAIN shown /\ s2[k] = shown[k]
      BY <1>1
    <2>2. CASE l = n
      BY <1>1, <2>1, <2>2
    <2>3. CASE l \in DOMAIN shown
      <3>1. s2[l] = shown[l] /\ shown[l] # m
        BY <1>1, <1>3, <1>4, <2>3
      <3> QED BY <1>2, <2>1, <2>3, <3>1 DEF Shown, HeldFirst
    <2> QED BY <1>1, <2>2, <2>3
  <1> QED BY <1>5, <1>6, <1>7, <1>8 DEF Shown, s2, q2

(* An extension message is queued and not shown.                           *)
LEMMA ShownCustomJoins ==
    ASSUME NEW q \in Seq(Msgs), NEW p \in Seq(Msgs), NEW shown \in Seq(Msgs),
           NEW m \in Msgs \ UserMsgs,
           Shown(shown, q, p)
    PROVE  Shown(shown, Append(q, m), p)
  <1> DEFINE q2 == Append(q, m)
             o == Len(q) + 1
  <1>1. /\ ToSet(q2) = ToSet(q) \cup {m} /\ DOMAIN q2 = DOMAIN q \cup {o}
        /\ q2[o] = m /\ \A i \in DOMAIN q : q2[i] = q[i]
    BY Joins
  <1>2. \A i \in DOMAIN shown : shown[i] \in ToSet(shown)
    BY DEF ToSet
  <1> HIDE DEF q2, o
  <1>3. m \notin ToSet(shown) /\ \A i \in DOMAIN shown : shown[i] # m
    BY <1>2 DEF Shown, ShowsSet
  <1>4. ShowsSet(shown, q2, p)
    BY <1>1 DEF Shown, ShowsSet
  <1>5. SameOrder(shown, q2)
    <2> SUFFICES ASSUME NEW k \in DOMAIN shown, NEW l \in DOMAIN shown,
                        NEW i \in DOMAIN q2, NEW j \in DOMAIN q2,
                        shown[k] = q2[i], shown[l] = q2[j], i < j
                 PROVE  k < l
      BY DEF SameOrder
    <2>1. i \in DOMAIN q /\ j \in DOMAIN q
      BY <1>1, <1>3
    <2> QED BY <1>1, <2>1 DEF Shown, SameOrder
  <1>6. HeldFirst(shown, q2, p)
    BY <1>1, <1>3 DEF Shown, HeldFirst
  <1> QED BY <1>4, <1>5, <1>6 DEF Shown, q2

(* The run loop, which holds nothing, takes from the queue.                *)
LEMMA ShownPolled ==
    ASSUME NEW q \in Seq(Msgs), NEW p, NEW shown \in Seq(Msgs), NEW mode,
           IsInjective(q), ToSet(p) = {}, Shown(shown, q, p)
    PROVE  Shown(shown, Left(mode, q), Drained(mode, q))
  <1> DEFINE d == Drained(mode, q)
             r == Left(mode, q)
  <1>1. /\ ToSet(q) = ToSet(d) \cup ToSet(r) /\ ToSet(d) \cap ToSet(r) = {}
        /\ \A i \in DOMAIN d : i \in DOMAIN q /\ d[i] = q[i]
        /\ \A i \in DOMAIN r : \E k \in DOMAIN q :
              /\ r[i] = q[k] /\ i \in Nat /\ k \in Nat
              /\ \A j \in DOMAIN d : j < k
              /\ r = q \/ (k = i + 1 /\ r = Tail(q))
    BY Drains
  <1> HIDE DEF d, r
  <1>2. ShowsSet(shown, q, p) /\ SameOrder(shown, q)
    BY DEF Shown
  <1>3. ShowsSet(shown, r, d)
    BY <1>1, <1>2 DEF ShowsSet
  <1>4. SameOrder(shown, d)
    BY <1>1, <1>2 DEF SameOrder
  <1>5. SameOrder(shown, r)
    <2> SUFFICES ASSUME NEW k \in DOMAIN shown, NEW l \in DOMAIN shown,
                        NEW i \in DOMAIN r, NEW j \in DOMAIN r,
                        shown[k] = r[i], shown[l] = r[j], i < j
                 PROVE  k < l
      BY DEF SameOrder
    <2>1. CASE r = q
      BY <1>2, <2>1 DEF SameOrder
    <2>2. CASE r # q
      <3>1. PICK a \in DOMAIN q : r[i] = q[a] /\ i \in Nat /\ a = i + 1
        BY <1>1, <2>2
      <3>2. PICK b \in DOMAIN q : r[j] = q[b] /\ j \in Nat /\ b = j + 1
        BY <1>1, <2>2
      <3>3. a < b
        BY <3>1, <3>2
      <3> QED BY <1>2, <3>1, <3>2, <3>3 DEF SameOrder
    <2> QED BY <2>1, <2>2
  <1>6. HeldFirst(shown, r, d)
    <2> SUFFICES ASSUME NEW k \in DOMAIN shown, NEW l \in DOMAIN shown,
                        shown[k] \in ToSet(d), shown[l] \in ToSet(r)
                 PROVE  k < l
      BY DEF HeldFirst
    <2>1. PICK i \in DOMAIN d : d[i] = shown[k]
      BY DEF ToSet
    <2>2. PICK j \in DOMAIN r : r[j] = shown[l]
      BY DEF ToSet
    <2>3. PICK a \in DOMAIN q : r[j] = q[a] /\ \A b \in DOMAIN d : b < a
      BY <1>1
    <2>4. i \in DOMAIN q /\ d[i] = q[i] /\ i < a
      BY <1>1, <2>3
    <2> QED BY <1>2, <2>1, <2>2, <2>3, <2>4 DEF SameOrder
  <1> QED BY <1>3, <1>4, <1>5, <1>6 DEF Shown, d, r

(* What the run loop takes from elsewhere it does not take from here.      *)
LEMMA ShownElsewhere ==
    ASSUME NEW q, NEW p, NEW p2, NEW shown,
           ToSet(p) = {}, ToSet(p2) \cap ToSet(q) = {}, Shown(shown, q, p)
    PROVE  Shown(shown, q, p2)
  <1>1. /\ \A k \in DOMAIN shown : shown[k] \in ToSet(shown)
        /\ \A i \in DOMAIN p2 : p2[i] \in ToSet(p2)
    BY DEF ToSet
  <1>2. ToSet(shown) \cap ToSet(p2) = {}
    BY DEF Shown, ShowsSet
  <1>3. SameOrder(shown, p2) /\ HeldFirst(shown, q, p2)
    BY <1>1, <1>2 DEF SameOrder, HeldFirst
  <1>4. ShowsSet(shown, q, p2)
    BY DEF Shown, ShowsSet
  <1> QED BY <1>3, <1>4 DEF Shown

(* The run loop delivers the first message it holds, and it leaves the     *)
(* display.                                                                *)
LEMMA ShownDelivered ==
    ASSUME NEW q \in Seq(Msgs), NEW p \in Seq(Msgs), p # <<>>,
           NEW shown \in Seq(Msgs), Head(p) \notin ToSet(q), IsInjective(p),
           Shown(shown, q, p)
    PROVE  Shown(Without(shown, Head(p)), q, Tail(p))
  <1> DEFINE m == Head(p)
             w == Without(shown, m)
  <1>1. /\ ToSet(p) = {m} \cup ToSet(Tail(p)) /\ m \notin ToSet(Tail(p))
        /\ \A i \in DOMAIN Tail(p) : i \in Nat /\ i + 1 \in DOMAIN p
                                     /\ Tail(p)[i] = p[i + 1]
    BY Splits
  <1>2. IsInjective(shown)
    BY DEF Shown, ShowsSet
  <1>3. /\ IsInjective(w) /\ ToSet(w) = ToSet(shown) \ {m}
        /\ \A k, l \in DOMAIN w : \E i, j \in DOMAIN shown :
              w[k] = shown[i] /\ w[l] = shown[j] /\ (i < j => k < l)
    BY <1>2, Removes
  <1> HIDE DEF w
  <1>4. ShowsSet(w, q, Tail(p))
    BY <1>1, <1>3 DEF Shown, ShowsSet
  <1>5. SameOrder(w, q)
    <2> SUFFICES ASSUME NEW k \in DOMAIN w, NEW l \in DOMAIN w,
                        NEW i \in DOMAIN q, NEW j \in DOMAIN q,
                        w[k] = q[i], w[l] = q[j], i < j
                 PROVE  k < l
      BY DEF SameOrder
    <2>1. PICK a, b \in DOMAIN shown :
             w[k] = shown[a] /\ w[l] = shown[b] /\ (a < b => k < l)
      BY <1>3
    <2> QED BY <2>1 DEF Shown, SameOrder
  <1>6. SameOrder(w, Tail(p))
    <2> SUFFICES ASSUME NEW k \in DOMAIN w, NEW l \in DOMAIN w,
                        NEW i \in DOMAIN Tail(p), NEW j \in DOMAIN Tail(p),
                        w[k] = Tail(p)[i], w[l] = Tail(p)[j], i < j
                 PROVE  k < l
      BY DEF SameOrder
    <2>1. PICK a, b \in DOMAIN shown :
             w[k] = shown[a] /\ w[l] = shown[b] /\ (a < b => k < l)
      BY <1>3
    <2>2. /\ i + 1 \in DOMAIN p /\ j + 1 \in DOMAIN p /\ i + 1 < j + 1
          /\ shown[a] = p[i + 1] /\ shown[b] = p[j + 1]
      BY <1>1, <2>1
    <2> QED BY <2>1, <2>2 DEF Shown, SameOrder
  <1>7. HeldFirst(w, q, Tail(p))
    <2> SUFFICES ASSUME NEW k \in DOMAIN w, NEW l \in DOMAIN w,
                        w[k] \in ToSet(Tail(p)), w[l] \in ToSet(q)
                 PROVE  k < l
      BY DEF HeldFirst
    <2>1. PICK a, b \in DOMAIN shown :
             w[k] = shown[a] /\ w[l] = shown[b] /\ (a < b => k < l)
      BY <1>3
    <2> QED BY <1>1, <2>1 DEF Shown, HeldFirst
  <1> QED BY <1>4, <1>5, <1>6, <1>7 DEF Shown, w

(* The message the run loop delivers is the first one shown.               *)
LEMMA ShownFirst ==
    ASSUME NEW q \in Seq(Msgs), NEW p \in Seq(Msgs), p # <<>>,
           NEW shown \in Seq(Msgs), Contains(shown, Head(p)),
           Shown(shown, q, p)
    PROVE  Head(p) = Head(shown)
  <1>1. /\ Head(p) = p[1] /\ 1 \in DOMAIN p
        /\ DOMAIN p = 1 .. Len(p) /\ Len(p) \in Nat
    BY Splits, SeqFacts
  <1>2. /\ DOMAIN shown = 1 .. Len(shown) /\ Len(shown) \in Nat
        /\ \A i \in DOMAIN shown : shown[i] \in ToSet(shown)
    BY SeqFacts DEF ToSet
  <1>3. PICK k \in DOMAIN shown : shown[k] = p[1]
    BY <1>1, <1>2 DEF Contains
  <1>4. 1 \in DOMAIN shown /\ shown # <<>> /\ Head(shown) = shown[1]
    <2>1. 1 \in DOMAIN shown
      BY <1>2, <1>3
    <2>2. shown # <<>>
      BY <1>2, <2>1, EmptySeq
    <2> QED BY <2>1, <2>2, HeadTailProperties
  <1>5. ~(k > 1)
    <2> SUFFICES ASSUME k > 1 PROVE FALSE
      OBVIOUS
    <2>1. ~(k < 1) /\ 1 \in Nat
      BY <1>2
    <2>2. CASE shown[1] \in ToSet(q)
      <3>1. p[1] \in ToSet(p)
        BY <1>1 DEF ToSet
      <3> QED BY <1>3, <1>4, <2>1, <2>2, <3>1 DEF Shown, HeldFirst
    <2>3. CASE shown[1] \in ToSet(p)
      <3>1. PICK j \in DOMAIN p : p[j] = shown[1]
        BY <2>3 DEF ToSet
      <3>2. j = 1 \/ 1 < j
        BY <1>1
      <3>3. CASE j = 1
        BY <1>3, <1>4, <3>1, <3>3 DEF Shown, ShowsSet, IsInjective
      <3>4. CASE 1 < j
        BY <1>1, <1>3, <1>4, <2>1, <3>1, <3>4 DEF Shown, SameOrder
      <3> QED BY <3>2, <3>3, <3>4
    <2> QED BY <1>2, <1>4, <2>2, <2>3 DEF Shown, ShowsSet
  <1> QED BY <1>1, <1>2, <1>3, <1>4, <1>5

-----------------------------------------------------------------------------
(* The invariant. *)

(* A call is in one of these places before its message is accepted, or     *)
(* when it was refused.                                                    *)
Refused == {"blocked", "dropped", "rejected"}
Outside == {"new", "waiting"} \cup Starting \cup Refused

SubmitsWait == IsInjective(submits) /\ \A m \in ToSet(submits) : at[m] = "waiting"

(* Everything accepted is past its intake, and stays past it.              *)
InHand(s, f, p, d) == ToSet(s) \cup ToSet(f) \cup ToSet(p) \cup ToSet(d)
Accepted == \A m \in InHand(steerQ, followQ, pending, delivered) : at[m] \notin Outside

(* So is what extensions left for the next turn, and it is nowhere else.    *)
LaidBy ==
    /\ IsInjective(nextTurn)
    /\ ToSet(nextTurn) \cap InHand(steerQ, followQ, pending, delivered) = {}
    /\ \A m \in ToSet(nextTurn) : at[m] \notin Outside

SinceClear ==
    \A m \in (ToSet(steerQ) \cup ToSet(followQ)) \cap UserMsgs :
        at[m] = "queued" /\ gen[m] = generation

(* The run loop holds messages only where it delivers them next.           *)
Delivering == {"prompts", "steered", "inject"}
HeldToDeliver == pending # <<>> => phase \in Delivering

Displayed ==
    Shown(steerShown, steerQ, pending) /\ Shown(followShown, followQ, pending)

QueueInv ==
    Apart(steerQ, followQ, pending, delivered) /\ Displayed /\ HeldToDeliver

(* An agent run belongs to the operation that runs it, also when two       *)
(* operations overlap.                                                     *)
OwnerRuns == phase # "none" => owner \in Starters /\ at[owner] = "run"

(* The inductive invariant.  What the runs check does not carry itself     *)
(* over a step: a message is delivered once because it is also in one      *)
(* queue at a time and accepted once, and the display's order depends on   *)
(* what the run loop holds.                                                *)
MessageInv ==
    SubmitsWait /\ OwnerRuns /\ Accepted /\ LaidBy /\ SinceClear /\ QueueInv

(* The run loop, which holds nothing, takes from one of the queues.        *)
LEMMA SteeringTaken ==
    ASSUME TypeInv, Apart(steerQ, followQ, pending, delivered), Displayed,
           pending = <<>>, NEW mode,
           pending' = Drained(mode, steerQ), steerQ' = Left(mode, steerQ),
           UNCHANGED <<followQ, steerShown, followShown, delivered>>
    PROVE  /\ (Apart(steerQ, followQ, pending, delivered) /\ Displayed)'
           /\ InHand(steerQ, followQ, pending, delivered)'
                = InHand(steerQ, followQ, pending, delivered)
           /\ ToSet(steerQ)' \subseteq ToSet(steerQ)
  <1>1. steerQ \in Seq(Msgs) /\ steerShown \in Seq(Msgs) /\ ToSet(pending) = {}
    BY EmptySeq DEF TypeInv, TypeOK, ToSet
  <1>2. /\ ToSet(steerQ) = ToSet(pending') \cup ToSet(steerQ')
        /\ IsInjective(steerQ) => /\ IsInjective(pending') /\ IsInjective(steerQ')
                                  /\ ToSet(pending') \cap ToSet(steerQ') = {}
    BY <1>1, Drains
  <1>3. Apart(steerQ, followQ, pending, delivered)'
    BY <1>1, <1>2 DEF Apart
  <1>4. Shown(steerShown, steerQ, pending)'
    BY <1>1, ShownPolled DEF Displayed, Apart
  <1>5. Shown(followShown, followQ, pending)'
    <2>1. ToSet(pending') \cap ToSet(followQ) = {}
      BY <1>2 DEF Apart
    <2> QED BY <1>1, <2>1, ShownElsewhere DEF Displayed
  <1>6. InHand(steerQ', followQ', pending', delivered')
           = InHand(steerQ, followQ, pending, delivered)
    BY <1>1, <1>2 DEF InHand
  <1> QED BY <1>2, <1>3, <1>4, <1>5, <1>6 DEF Displayed

LEMMA FollowUpsTaken ==
    ASSUME TypeInv, Apart(steerQ, followQ, pending, delivered), Displayed,
           pending = <<>>, NEW mode,
           pending' = Drained(mode, followQ), followQ' = Left(mode, followQ),
           UNCHANGED <<steerQ, steerShown, followShown, delivered>>
    PROVE  /\ (Apart(steerQ, followQ, pending, delivered) /\ Displayed)'
           /\ InHand(steerQ, followQ, pending, delivered)'
                = InHand(steerQ, followQ, pending, delivered)
           /\ ToSet(followQ)' \subseteq ToSet(followQ)
  <1>1. followQ \in Seq(Msgs) /\ followShown \in Seq(Msgs) /\ ToSet(pending) = {}
    BY EmptySeq DEF TypeInv, TypeOK, ToSet
  <1>2. /\ ToSet(followQ) = ToSet(pending') \cup ToSet(followQ')
        /\ IsInjective(followQ) => /\ IsInjective(pending') /\ IsInjective(followQ')
                                   /\ ToSet(pending') \cap ToSet(followQ') = {}
    BY <1>1, Drains
  <1>3. Apart(steerQ, followQ, pending, delivered)'
    BY <1>1, <1>2 DEF Apart
  <1>4. Shown(followShown, followQ, pending)'
    BY <1>1, ShownPolled DEF Displayed, Apart
  <1>5. Shown(steerShown, steerQ, pending)'
    <2>1. ToSet(pending') \cap ToSet(steerQ) = {}
      BY <1>2 DEF Apart
    <2> QED BY <1>1, <2>1, ShownElsewhere DEF Displayed
  <1>6. InHand(steerQ', followQ', pending', delivered')
           = InHand(steerQ, followQ, pending, delivered)
    BY <1>1, <1>2 DEF InHand
  <1> QED BY <1>2, <1>3, <1>4, <1>5, <1>6 DEF Displayed

(* An operation begins with the message that starts it, and with what      *)
(* extensions left for it.                                                 *)
LEMMA StarterTaken ==
    ASSUME TypeInv, Apart(steerQ, followQ, pending, delivered), Displayed,
           pending = <<>>, NEW messages, IsInjective(messages),
           ToSet(messages) \cap InHand(steerQ, followQ, pending, delivered) = {},
           pending' = messages,
           UNCHANGED <<steerQ, followQ, steerShown, followShown, delivered>>
    PROVE  /\ (Apart(steerQ, followQ, pending, delivered) /\ Displayed)'
           /\ InHand(steerQ, followQ, pending, delivered)'
                = InHand(steerQ, followQ, pending, delivered) \cup ToSet(messages)
  <1>1. ToSet(pending) = {} /\ ToSet(pending') = ToSet(messages) /\ IsInjective(pending')
    BY EmptySeq DEF ToSet, IsInjective
  <1>2. Apart(steerQ, followQ, pending, delivered)'
    BY <1>1 DEF Apart, InHand
  <1>3. Displayed'
    <2>1. ToSet(pending') \cap ToSet(steerQ) = {} /\ ToSet(pending') \cap ToSet(followQ) = {}
      BY <1>1 DEF InHand
    <2> QED BY <1>1, <2>1, ShownElsewhere DEF Displayed
  <1>4. InHand(steerQ', followQ', pending', delivered')
           = InHand(steerQ, followQ, pending, delivered) \cup ToSet(messages)
    BY <1>1 DEF InHand
  <1> QED BY <1>2, <1>3, <1>4

(* Nothing moves.                                                          *)
LEMMA QueuesUnchanged ==
    ASSUME UNCHANGED <<queueVars, pending, delivered>>
    PROVE  /\ Apart(steerQ, followQ, pending, delivered)
                => Apart(steerQ, followQ, pending, delivered)'
           /\ Displayed => Displayed'
           /\ InHand(steerQ, followQ, pending, delivered)'
                = InHand(steerQ, followQ, pending, delivered)
           /\ ToSet(steerQ)' = ToSet(steerQ) /\ ToSet(followQ)' = ToSet(followQ)
  BY DEF queueVars, Displayed

-----------------------------------------------------------------------------
(* Calls move from place to place. *)

(* An accepted message stays accepted, and a queued one was queued once.   *)
Kept ==
    \A m \in Msgs : /\ at[m] \notin Outside => at'[m] \notin Outside
                    /\ at[m] = "queued" => at'[m] = "queued" /\ gen'[m] = gen[m]

PlacesKept == Kept /\ SubmitsWait' /\ OwnerRuns'

LEMMA PlacesOutside ==
    /\ "queued" \notin Outside /\ "settle" \notin Outside /\ "over" \notin Outside
    /\ Operating \cap Outside = {} /\ "queued" \notin Operating
    /\ "waiting" \notin Operating
    /\ \A place \in Starting \cup Refused \cup {"new", "waiting"} : place # "run"
  BY DEF Outside, Operating, Starting, Refused

(* A call moves that is not queued, does not wait and runs no agent.       *)
LEMMA MoveKept ==
    ASSUME TypeInv, SubmitsWait, OwnerRuns, NEW m \in Msgs, NEW place,
           Goto(m, place), at[m] \notin {"queued", "waiting", "run"},
           at[m] \in Outside \/ place \notin Outside,
           \A x \in Msgs : x # m => gen'[x] = gen[x],
           UNCHANGED <<submits, phase, owner>>
    PROVE  PlacesKept
  <1>1. at' = [at EXCEPT ![m] = place] /\ at \in [Msgs -> Places]
    BY DEF Goto, TypeInv, TypeOK
  <1>2. \A x \in Msgs : at'[x] = IF x = m THEN place ELSE at[x]
    BY <1>1
  <1>3. Kept
    BY <1>2 DEF Kept
  <1>4. \A x \in ToSet(submits) : x \in Msgs /\ x # m
    <2>1. submits \in Seq(Prompts)
      BY DEF TypeInv, TypeOK
    <2>2. ToSet(submits) \subseteq Prompts
      BY <2>1, SeqFacts
    <2> QED BY <2>2, StartersAreMessages DEF SubmitsWait
  <1>5. SubmitsWait'
    BY <1>2, <1>4 DEF SubmitsWait
  <1>6. OwnerRuns'
    BY <1>2, StartersAreMessages DEF OwnerRuns
  <1> QED BY <1>3, <1>5, <1>6 DEF PlacesKept

(* An operation moves, and its run begins or is over or not concerned.     *)
LEMMA OperationMoveKept ==
    ASSUME TypeInv, SubmitsWait, OwnerRuns, NEW o \in Starters, NEW place,
           Goto(o, place), at[o] \notin {"queued", "waiting"},
           place \notin Outside \cup {"queued"},
           gen' = gen, submits' = submits,
           \/ phase' = "none"
           \/ place = "run" /\ owner' = o
           \/ at[o] # "run" /\ UNCHANGED <<phase, owner>>
    PROVE  PlacesKept
  <1>0. o \in Msgs
    BY StartersAreMessages
  <1>1. at' = [at EXCEPT ![o] = place] /\ at \in [Msgs -> Places]
    BY DEF Goto, TypeInv, TypeOK
  <1>2. \A x \in Msgs : at'[x] = IF x = o THEN place ELSE at[x]
    BY <1>1
  <1>3. Kept
    BY <1>2 DEF Kept
  <1>4. \A x \in ToSet(submits) : x \in Msgs /\ x # o
    <2>1. submits \in Seq(Prompts)
      BY DEF TypeInv, TypeOK
    <2>2. ToSet(submits) \subseteq Prompts
      BY <2>1, SeqFacts
    <2> QED BY <2>2, StartersAreMessages DEF SubmitsWait
  <1>5. SubmitsWait'
    BY <1>2, <1>4 DEF SubmitsWait
  <1>6. OwnerRuns'
    BY <1>0, <1>2, StartersAreMessages DEF OwnerRuns
  <1> QED BY <1>3, <1>5, <1>6 DEF PlacesKept

(* No call moves.                                                          *)
LEMMA NothingMoves ==
    ASSUME TypeInv, SubmitsWait, OwnerRuns,
           UNCHANGED <<at, gen, submits, owner>>, phase # "none" \/ phase' = "none"
    PROVE  PlacesKept
  BY DEF PlacesKept, Kept, SubmitsWait, OwnerRuns

(* agent.continue() and the agent's first run.                             *)
LEMMA RunMoveKept ==
    ASSUME TypeInv, SubmitsWait, OwnerRuns, NEW o \in Starters,
           at[o] \notin {"queued", "waiting", "run"}, gen' = gen, submits' = submits,
           \/ \E first, messages : BeginRun(o, first, messages)
           \/ Refuse(o)
    PROVE  PlacesKept
  <1>1. "run" \notin Outside \cup {"queued"} /\ "settle" \notin Outside \cup {"queued"}
    BY PlacesOutside DEF Operating
  <1>2. CASE \E first, messages : BeginRun(o, first, messages)
    BY <1>1, <1>2, OperationMoveKept DEF BeginRun
  <1>3. CASE Refuse(o)
    BY <1>1, <1>3, OperationMoveKept DEF Refuse, runVars
  <1> QED BY <1>2, <1>3

LEMMA SubmitPlaces ==
    ASSUME TypeInv, SubmitsWait, OwnerRuns, NEW m \in Msgs, SubmitStep(m)
    PROVE  PlacesKept
  <1> USE DEF runVars
  <1>1. {"new", "intake", "preflight", "precompact", "prerecover", "ready", "blocked",
         "dropped", "rejected"} \subseteq Outside \ {"queued", "waiting", "run"}
    BY DEF Outside, Starting, Refused
  <1>2. CASE Submit(m)
    <2>1. at[m] = "new" /\ Goto(m, "waiting") /\ m \in Prompts
          /\ submits' = Append(submits, m)
          /\ UNCHANGED <<gen, phase, owner>>
      BY <1>2 DEF Submit
    <2>2. at \in [Msgs -> Places] /\ submits \in Seq(Prompts)
      BY DEF TypeInv, TypeOK
    <2>3. \A x \in Msgs : at'[x] = IF x = m THEN "waiting" ELSE at[x]
      BY <2>1, <2>2 DEF Goto
    <2>4. Kept
      BY <1>1, <2>1, <2>3 DEF Kept
    <2>5. ToSet(submits) \subseteq Msgs /\ m \notin ToSet(submits)
      BY <2>1, <2>2, SeqFacts, StartersAreMessages DEF SubmitsWait
    <2>6. ToSet(submits') = ToSet(submits) \cup {m} /\ IsInjective(submits')
      BY <2>1, <2>2, <2>5, Joins DEF SubmitsWait
    <2>7. SubmitsWait'
      BY <2>3, <2>5, <2>6 DEF SubmitsWait
    <2>8. OwnerRuns'
      BY <2>1, <2>3, StartersAreMessages DEF OwnerRuns
    <2> QED BY <2>4, <2>7, <2>8 DEF PlacesKept
  <1>3. CASE Call(m)
    BY <1>1, <1>3, MoveKept DEF Call, EnterIntake, TypeInv, TypeOK
  <1>4. CASE Block(m)
    BY <1>1, <1>4, MoveKept DEF Block
  <1>5. CASE Admit(m)
    <2>1. at[m] = "intake" /\ UNCHANGED <<gen, submits, phase, owner>>
      BY <1>5 DEF Admit
    <2>2. \E place \in {"rejected", "queued", "dropped"} : Goto(m, place)
      BY <1>5 DEF Admit
    <2> QED BY <1>1, <2>1, <2>2, MoveKept
  <1>6. CASE AdmitIdle(m)
    BY <1>1, <1>6, MoveKept DEF AdmitIdle
  <1>7. CASE PreflightFail(m)
    BY <1>1, <1>7, MoveKept DEF PreflightFail
  <1>8. CASE BeginPreCompaction(m) \/ PreCompacted(m)
    <2>1. /\ at[m] \in {"preflight", "precompact", "prerecover"}
          /\ UNCHANGED <<gen, submits, phase, owner>>
      BY <1>8 DEF BeginPreCompaction, PreCompacted
    <2>2. \E place \in {"precompact", "prerecover", "ready"} : Goto(m, place)
      BY <1>8 DEF BeginPreCompaction, PreCompacted
    <2> QED BY <1>1, <2>1, <2>2, MoveKept
  <1>9. CASE StartOperation(m)
    <2>1. m \in Starters /\ at[m] \in {"preflight", "ready"}
      BY <1>9 DEF StartOperation, TypeInv, OnlyPrompts, PromptPlaces, Starters
    <2> QED BY <1>9, <2>1, RunMoveKept DEF StartOperation, RunAgentPrompt
  <1>10. CASE SendCustom(m)
    <2>1. m \in Starters /\ at[m] = "new"
      BY <1>10 DEF SendCustom, Starters
    <2>2. CASE active
      BY <1>1, <1>10, <2>1, <2>2, MoveKept DEF SendCustom
    <2>3. CASE ~active
      BY <1>10, <2>1, <2>3, RunMoveKept DEF SendCustom, RunAgentPrompt
    <2> QED BY <2>2, <2>3
  <1>11. CASE SendForNextTurn(m) \/ AppendCustom(m)
    <2>1. at[m] = "new" /\ UNCHANGED <<gen, submits, phase, owner>>
      BY <1>11 DEF SendForNextTurn, AppendCustom
    <2>2. \E place \in {"queued", "over"} : Goto(m, place)
      BY <1>11 DEF SendForNextTurn, AppendCustom
    <2> QED BY <1>1, <2>1, <2>2, MoveKept
  <1> QED BY <1>2, <1>3, <1>4, <1>5, <1>6, <1>7, <1>8, <1>9, <1>10, <1>11
          DEF SubmitStep

LEMMA StartSubmitPlaces ==
    ASSUME TypeInv, SubmitsWait, OwnerRuns, StartSubmit
    PROVE  PlacesKept
  <1> DEFINE m == Head(submits)
  <1>1. /\ submits # <<>> /\ submits \in Seq(Prompts) /\ submits' = Tail(submits)
        /\ Goto(m, "intake") /\ gen' = [gen EXCEPT ![m] = generation]
        /\ at \in [Msgs -> Places] /\ gen \in [Msgs -> Nat]
        /\ UNCHANGED <<phase, owner>>
    BY DEF StartSubmit, EnterIntake, TypeInv, TypeOK, runVars
  <1>2. /\ ToSet(submits) \subseteq Prompts
        /\ ToSet(submits) = {m} \cup ToSet(Tail(submits))
        /\ IsInjective(Tail(submits)) /\ m \notin ToSet(Tail(submits))
    BY <1>1, Splits, SeqFacts DEF SubmitsWait
  <1>3. m \in Msgs /\ at[m] = "waiting"
    BY <1>2, StartersAreMessages DEF SubmitsWait
  <1>4. \A x \in Msgs : /\ at'[x] = IF x = m THEN "intake" ELSE at[x]
                        /\ x # m => gen'[x] = gen[x]
    BY <1>1 DEF Goto
  <1>5. "waiting" \in Outside
    BY DEF Outside
  <1> HIDE DEF m
  <1>6. Kept
    BY <1>3, <1>4, <1>5 DEF Kept
  <1>7. SubmitsWait'
    BY <1>1, <1>2, <1>4, StartersAreMessages DEF SubmitsWait
  <1>8. OwnerRuns'
    BY <1>1, <1>3, <1>4, StartersAreMessages DEF OwnerRuns
  <1> QED BY <1>6, <1>7, <1>8 DEF PlacesKept

LEMMA AgentPlaces ==
    ASSUME TypeInv, SubmitsWait, OwnerRuns, AgentStep
    PROVE  PlacesKept
  <1> USE DEF runVars, queueVars, contextVars, loopVars, stopVars
  <1>1. InjectPending \/ EnterLoop \/ CallProvider
            => UNCHANGED <<at, gen, submits, owner>> /\ phase # "none"
    BY DEF InjectPending, EnterLoop, CallProvider
  <1>2. (\E kind \in Kinds, callsTools \in BOOLEAN : Respond(kind, callsTools))
            => UNCHANGED <<at, gen, submits, owner>> /\ phase # "none"
    BY DEF Respond
  <1>3. ToolsDone \/ NextTurn \/ TurnEnd \/ BeforeStop
            => UNCHANGED <<at, gen, submits, owner>> /\ phase # "none"
    BY DEF ToolsDone, NextTurn, TurnEnd, BeforeStop
  <1>4. CASE AgentEnd
    <2>1. /\ owner \in Starters /\ at[owner] = "run" /\ phase' = "none"
          /\ UNCHANGED <<gen, submits>>
      BY <1>4 DEF AgentEnd, OwnerRuns
    <2>2. \E place \in {"sleep", "recover", "compact", "hold"} : Goto(owner, place)
      BY <1>4 DEF AgentEnd, CheckCompaction
    <2>3. {"sleep", "recover", "compact", "hold"} \cap (Outside \cup {"queued"}) = {}
      BY PlacesOutside DEF Operating
    <2> QED BY <2>1, <2>2, <2>3, OperationMoveKept
  <1> QED BY <1>1, <1>2, <1>3, <1>4, NothingMoves DEF AgentStep

LEMMA OperationPlaces ==
    ASSUME TypeInv, SubmitsWait, OwnerRuns, NEW o \in Starters, OperationStep(o)
    PROVE  PlacesKept
  <1> USE DEF runVars
  <1>1. {"recover", "compact", "hold", "settle", "over"} \cap (Outside \cup {"queued"}) = {}
    BY PlacesOutside DEF Operating
  <1>2. gen' = gen /\ submits' = submits /\ at[o] \notin {"queued", "waiting", "run"}
    BY DEF OperationStep, RetryElapsed, RetryCancelled, Recovered, Compacted,
           HoldReleased, HoldExpired, Settled
  <1>3. ASSUME NEW afterAssistant, Continue(o, afterAssistant)
        PROVE  PlacesKept
    <2>1. (\E first, messages : BeginRun(o, first, messages)) \/ Refuse(o)
      BY <1>3 DEF Continue
    <2> QED BY <1>2, <2>1, RunMoveKept
  <1>4. ASSUME NEW place \in {"recover", "compact", "hold", "settle", "over"},
               Goto(o, place), UNCHANGED <<phase, owner>>
        PROVE  PlacesKept
    BY <1>1, <1>2, <1>4, OperationMoveKept
  <1>5. CASE RetryElapsed(o)
    BY <1>3, <1>5 DEF RetryElapsed
  <1>6. CASE RetryCancelled(o)
    BY <1>4, <1>6 DEF RetryCancelled, CheckCompaction
  <1>7. CASE Recovered(o)
    BY <1>3, <1>4, <1>7 DEF Recovered
  <1>8. CASE Compacted(o)
    BY <1>3, <1>4, <1>8 DEF Compacted
  <1>9. CASE HoldReleased(o)
    BY <1>3, <1>4, <1>9 DEF HoldReleased, ContinueOrSettle
  <1>10. CASE HoldExpired(o)
    BY <1>3, <1>4, <1>10 DEF HoldExpired, ContinueOrSettle
  <1>11. CASE Settled(o)
    BY <1>4, <1>11 DEF Settled
  <1> QED BY <1>5, <1>6, <1>7, <1>8, <1>9, <1>10, <1>11 DEF OperationStep

LEMMA StopPlaces ==
    ASSUME TypeInv, SubmitsWait, OwnerRuns, StopStep
    PROVE  PlacesKept
  <1>1. UNCHANGED <<gen, submits, phase, owner>>
    BY DEF StopStep, Stop, CallAbort, CallClearQueue, runVars
  <1>2. \A m \in Msgs : at'[m] = at[m] \/ (at[m] = "sleep" /\ at'[m] = "cancelled")
    BY DEF StopStep, Stop, CallAbort, CallClearQueue, Abort
  <1>3. "sleep" \notin Outside /\ "cancelled" \notin Outside
    BY PlacesOutside DEF Operating
  <1>4. Kept
    BY <1>1, <1>2, <1>3 DEF Kept
  <1>5. ToSet(submits) \subseteq Msgs
    <2>1. submits \in Seq(Prompts)
      BY DEF TypeInv, TypeOK
    <2>2. ToSet(submits) \subseteq Prompts
      BY <2>1, SeqFacts
    <2> QED BY <2>2, StartersAreMessages
  <1>6. SubmitsWait'
    BY <1>1, <1>2, <1>5 DEF SubmitsWait
  <1>7. OwnerRuns'
    BY <1>1, <1>2, StartersAreMessages DEF OwnerRuns
  <1> QED BY <1>4, <1>6, <1>7 DEF PlacesKept

(* Every step keeps the places of accepted messages.                       *)
LEMMA PlacesStep ==
    ASSUME TypeInv, SubmitsWait, OwnerRuns, [Next]_vars
    PROVE  PlacesKept
  <1>1. UNCHANGED vars => PlacesKept
    BY DEF vars, runVars, PlacesKept, Kept, SubmitsWait, OwnerRuns
  <1>2. Quiet => UNCHANGED vars
    BY DEF Quiet
  <1> QED BY <1>1, <1>2, SubmitPlaces, StartSubmitPlaces, AgentPlaces,
             OperationPlaces, StopPlaces DEF Next

-----------------------------------------------------------------------------
(* Messages move from queue to queue. *)

(* What a step does to the queues: they stay apart and displayed, and a    *)
(* message that was nowhere is accepted in this step or was left for the   *)
(* turn that starts; what waits after it waited before, with no clearQueue *)
(* in between, or is queued now.                                           *)
QueuesKept ==
    /\ QueueInv'
    /\ \A m \in InHand(steerQ, followQ, pending, delivered)' :
          \/ m \in InHand(steerQ, followQ, pending, delivered)
          \/ at[m] \in Outside /\ at'[m] \notin Outside
          \/ m \in ToSet(nextTurn) /\ nextTurn' = <<>>
    /\ \A m \in (ToSet(steerQ)' \cup ToSet(followQ)') \cap UserMsgs :
          \/ m \in ToSet(steerQ) \cup ToSet(followQ) /\ generation' = generation
          \/ at'[m] = "queued" /\ gen'[m] = generation'

(* The run loop and an idle agent hold nothing.                            *)
LEMMA NothingHeld ==
    ASSUME QueueInv, phase \notin Delivering
    PROVE  pending = <<>>
  BY DEF QueueInv, HeldToDeliver

LEMMA NoQueueMoves ==
    ASSUME QueueInv, UNCHANGED <<queueVars, pending, delivered, generation>>,
           pending = <<>> \/ phase' = phase
    PROVE  QueuesKept
  <1>1. HeldToDeliver'
    BY DEF QueueInv, HeldToDeliver
  <1> QED BY <1>1, QueuesUnchanged DEF QueueInv, QueuesKept

LEMMA SteeringPolled ==
    ASSUME TypeInv, QueueInv, pending = <<>>, NEW mode,
           pending' = Drained(mode, steerQ), steerQ' = Left(mode, steerQ),
           UNCHANGED <<followQ, steerShown, followShown, delivered, generation>>,
           phase' \in Delivering
    PROVE  QueuesKept
  <1>1. HeldToDeliver'
    BY DEF HeldToDeliver
  <1> QED BY <1>1, SteeringTaken DEF QueueInv, QueuesKept

LEMMA FollowUpsPolled ==
    ASSUME TypeInv, QueueInv, pending = <<>>, NEW mode,
           pending' = Drained(mode, followQ), followQ' = Left(mode, followQ),
           UNCHANGED <<steerQ, steerShown, followShown, delivered, generation>>,
           followQ = <<>> \/ phase' \in Delivering
    PROVE  QueuesKept
  <1>1. followQ = <<>> => pending' = <<>>
    BY DEF Drained
  <1>2. HeldToDeliver'
    BY <1>1 DEF HeldToDeliver
  <1> QED BY <1>2, FollowUpsTaken DEF QueueInv, QueuesKept

(* An operation's first run takes the messages it is started with: m, and  *)
(* what was left for the turn.                                             *)
LEMMA StarterBegins ==
    ASSUME TypeInv, QueueInv, NEW m \in Starters, at[m] \in Outside,
           NEW messages, IsInjective(messages),
           ToSet(messages) \cap InHand(steerQ, followQ, pending, delivered) = {},
           \A x \in ToSet(messages) : x = m \/ (x \in ToSet(nextTurn) /\ nextTurn' = <<>>),
           RunAgentPrompt(m, messages),
           UNCHANGED <<queueVars, delivered, generation>>
    PROVE  QueuesKept
  <1>1. m \in Msgs /\ at \in [Msgs -> Places]
    BY StartersAreMessages DEF TypeInv, TypeOK
  <1>2. CASE phase = "none"
    <2>1. /\ pending' = messages /\ phase' = "prompts"
          /\ at' = [at EXCEPT ![m] = "run"]
      BY <1>2 DEF RunAgentPrompt, BeginRun, Goto
    <2>2. pending = <<>> /\ "prompts" \in Delivering
      BY <1>2, NothingHeld DEF Delivering
    <2>3. UNCHANGED <<steerQ, followQ, steerShown, followShown, delivered, generation>>
      BY DEF queueVars
    <2>4. /\ (Apart(steerQ, followQ, pending, delivered) /\ Displayed)'
          /\ InHand(steerQ, followQ, pending, delivered)'
                = InHand(steerQ, followQ, pending, delivered) \cup ToSet(messages)
      BY <1>1, <2>1, <2>2, <2>3, StarterTaken DEF QueueInv
    <2>5. at'[m] \notin Outside
      BY <1>1, <2>1, PlacesOutside DEF Operating
    <2> QED BY <2>1, <2>2, <2>3, <2>4, <2>5 DEF QueueInv, QueuesKept, HeldToDeliver
  <1>3. CASE phase # "none"
    BY <1>3, NoQueueMoves DEF RunAgentPrompt, Refuse, runVars
  <1> QED BY <1>2, <1>3

(* agent.continue() takes from a queue or from none.                       *)
LEMMA ContinueQueues ==
    ASSUME TypeInv, QueueInv, NEW o, NEW afterAssistant, Continue(o, afterAssistant),
           UNCHANGED <<steerShown, followShown, delivered, generation>>
    PROVE  QueuesKept
  <1>1. phase = "none" => pending = <<>>
    BY NothingHeld DEF Delivering
  <1>2. "prompts" \in Delivering /\ "steered" \in Delivering
    BY DEF Delivering
  <1>3. CASE Refuse(o) /\ UNCHANGED <<steerQ, followQ>>
    BY <1>3, NoQueueMoves DEF Refuse, runVars, queueVars
  <1>4. CASE /\ phase = "none" /\ BeginRun(o, "prompts", <<>>)
             /\ UNCHANGED <<steerQ, followQ>>
    BY <1>1, <1>4, NoQueueMoves DEF BeginRun, queueVars
  <1>5. CASE /\ phase = "none" /\ BeginRun(o, "steered", Drained(SteeringMode, steerQ))
             /\ steerQ' = Left(SteeringMode, steerQ)
             /\ UNCHANGED followQ
    BY <1>1, <1>2, <1>5, SteeringPolled DEF BeginRun
  <1>6. CASE /\ phase = "none" /\ BeginRun(o, "prompts", Drained(FollowUpMode, followQ))
             /\ followQ' = Left(FollowUpMode, followQ)
             /\ UNCHANGED steerQ
    BY <1>1, <1>2, <1>6, FollowUpsPolled DEF BeginRun
  <1> QED BY <1>3, <1>4, <1>5, <1>6 DEF Continue

(* A steer, a follow-up or a prompt during a run joins its queue.          *)
LEMMA AdmitQueues ==
    ASSUME TypeInv, QueueInv, Accepted, NEW m \in Msgs, Admit(m)
    PROVE  QueuesKept
  <1>1. /\ m \in UserMsgs /\ at[m] = "intake" /\ at \in [Msgs -> Places]
        /\ UNCHANGED <<gen, generation, pending, phase, delivered>>
    BY DEF Admit, runVars, contextVars, TypeInv, TypeOK
  <1>2. CASE UNCHANGED queueVars
    BY <1>1, <1>2, NoQueueMoves
  <1>3. CASE SameGeneration(m) /\ Goto(m, "queued") /\ Enqueue(m)
    <2>1. at'[m] = "queued" /\ gen'[m] = generation' /\ at'[m] \notin Outside
      BY <1>1, <1>3, PlacesOutside DEF Goto, SameGeneration
    <2>7. at[m] \in Outside
      BY <1>1 DEF Outside, Starting
    <2>2. m \notin InHand(steerQ, followQ, pending, delivered)
      BY <1>1 DEF Accepted, Outside, Starting
    <2>3. /\ steerQ \in Seq(Msgs) /\ followQ \in Seq(Msgs) /\ pending \in Seq(Msgs)
          /\ steerShown \in Seq(Msgs) /\ followShown \in Seq(Msgs)
      BY DEF TypeInv, TypeOK
    <2>4. HeldToDeliver'
      BY <1>1 DEF QueueInv, HeldToDeliver
    <2>5. CASE Mode(m) = "steer"
      <3>1. /\ steerQ' = Append(steerQ, m) /\ steerShown' = Append(steerShown, m)
            /\ UNCHANGED <<followQ, followShown>>
        BY <1>3, <2>5 DEF Enqueue
      <3>2. Shown(steerShown', steerQ', pending)
        BY <1>1, <2>2, <2>3, <3>1, ShownJoins DEF QueueInv, Displayed, InHand
      <3>3. /\ ToSet(steerQ') = ToSet(steerQ) \cup {m}
            /\ IsInjective(steerQ) /\ m \notin ToSet(steerQ) => IsInjective(steerQ')
        BY <2>3, <3>1, Joins
      <3>4. Apart(steerQ, followQ, pending, delivered)'
        BY <1>1, <2>2, <3>1, <3>3 DEF QueueInv, Apart, InHand
      <3>5. Displayed'
        BY <1>1, <3>1, <3>2 DEF QueueInv, Displayed
      <3>6. InHand(steerQ', followQ', pending', delivered')
              = InHand(steerQ, followQ, pending, delivered) \cup {m}
        BY <1>1, <3>1, <3>3 DEF InHand
      <3> QED BY <1>1, <2>1, <2>4, <2>7, <3>1, <3>3, <3>4, <3>5, <3>6
              DEF QueuesKept, QueueInv
    <2>6. CASE Mode(m) # "steer"
      <3>1. /\ followQ' = Append(followQ, m) /\ followShown' = Append(followShown, m)
            /\ UNCHANGED <<steerQ, steerShown>>
        BY <1>3, <2>6 DEF Enqueue
      <3>2. Shown(followShown', followQ', pending)
        BY <1>1, <2>2, <2>3, <3>1, ShownJoins DEF QueueInv, Displayed, InHand
      <3>3. /\ ToSet(followQ') = ToSet(followQ) \cup {m}
            /\ IsInjective(followQ) /\ m \notin ToSet(followQ) => IsInjective(followQ')
        BY <2>3, <3>1, Joins
      <3>4. Apart(steerQ, followQ, pending, delivered)'
        BY <1>1, <2>2, <3>1, <3>3 DEF QueueInv, Apart, InHand
      <3>5. Displayed'
        BY <1>1, <3>1, <3>2 DEF QueueInv, Displayed
      <3>6. InHand(steerQ', followQ', pending', delivered')
              = InHand(steerQ, followQ, pending, delivered) \cup {m}
        BY <1>1, <3>1, <3>3 DEF InHand
      <3> QED BY <1>1, <2>1, <2>4, <2>7, <3>1, <3>3, <3>4, <3>5, <3>6
              DEF QueuesKept, QueueInv
    <2> QED BY <2>5, <2>6
  <1> QED BY <1>2, <1>3 DEF Admit

(* Only messages of people are displayed.                                  *)
LEMMA CustomQueues ==
    ASSUME TypeInv, QueueInv, Accepted, NEW m \in Msgs, SendCustom(m)
    PROVE  QueuesKept
  <1>1. /\ m \in Customs /\ at[m] = "new" /\ at[m] \in Outside
        /\ at \in [Msgs -> Places] /\ steerQ \in Seq(Msgs) /\ followQ \in Seq(Msgs)
        /\ pending \in Seq(Msgs) /\ steerShown \in Seq(Msgs) /\ followShown \in Seq(Msgs)
        /\ UNCHANGED <<generation, steerShown, followShown, delivered>>
    BY DEF SendCustom, contextVars, TypeInv, TypeOK, Outside
  <1>2. m \notin InHand(steerQ, followQ, pending, delivered) /\ m \notin UserMsgs
    BY <1>1, DisjointMessages DEF Accepted, UserMsgs
  <1>3. CASE active
    <2>1. Goto(m, "queued") /\ UNCHANGED <<pending, phase>>
      BY <1>3 DEF SendCustom, runVars
    <2>2. HeldToDeliver' /\ at'[m] \notin Outside
      BY <1>1, <2>1, PlacesOutside DEF QueueInv, HeldToDeliver, Goto
    <2>3. CASE steerQ' = Append(steerQ, m) /\ UNCHANGED followQ
      <3>1. Shown(steerShown, steerQ', pending)
        BY <1>1, <1>2, <2>3, ShownCustomJoins DEF QueueInv, Displayed
      <3>2. /\ ToSet(steerQ') = ToSet(steerQ) \cup {m}
            /\ IsInjective(steerQ) /\ m \notin ToSet(steerQ) => IsInjective(steerQ')
        BY <1>1, <2>3, Joins
      <3>3. Apart(steerQ, followQ, pending, delivered)'
        BY <1>1, <1>2, <2>1, <2>3, <3>2 DEF QueueInv, Apart, InHand
      <3>4. Displayed'
        BY <1>1, <2>1, <2>3, <3>1 DEF QueueInv, Displayed
      <3>5. InHand(steerQ', followQ', pending', delivered')
              = InHand(steerQ, followQ, pending, delivered) \cup {m}
        BY <1>1, <2>1, <2>3, <3>2 DEF InHand
      <3> QED BY <1>1, <1>2, <2>2, <2>3, <3>2, <3>3, <3>4, <3>5 DEF QueuesKept, QueueInv
    <2>4. CASE followQ' = Append(followQ, m) /\ UNCHANGED steerQ
      <3>1. Shown(followShown, followQ', pending)
        BY <1>1, <1>2, <2>4, ShownCustomJoins DEF QueueInv, Displayed
      <3>2. /\ ToSet(followQ') = ToSet(followQ) \cup {m}
            /\ IsInjective(followQ) /\ m \notin ToSet(followQ) => IsInjective(followQ')
        BY <1>1, <2>4, Joins
      <3>3. Apart(steerQ, followQ, pending, delivered)'
        BY <1>1, <1>2, <2>1, <2>4, <3>2 DEF QueueInv, Apart, InHand
      <3>4. Displayed'
        BY <1>1, <2>1, <2>4, <3>1 DEF QueueInv, Displayed
      <3>5. InHand(steerQ', followQ', pending', delivered')
              = InHand(steerQ, followQ, pending, delivered) \cup {m}
        BY <1>1, <2>1, <2>4, <3>2 DEF InHand
      <3> QED BY <1>1, <1>2, <2>2, <2>4, <3>2, <3>3, <3>4, <3>5 DEF QueuesKept, QueueInv
    <2> QED BY <1>3, <2>3, <2>4 DEF SendCustom
  <1>4. CASE ~active
    <2>1. RunAgentPrompt(m, <<m>>) /\ UNCHANGED <<queueVars, delivered, generation>>
      BY <1>1, <1>4 DEF SendCustom, queueVars
    <2>2. IsInjective(<<m>>) /\ ToSet(<<m>>) = {m}
      BY DEF IsInjective, ToSet
    <2> QED BY <1>1, <1>2, <2>1, <2>2, StarterBegins DEF Starters
  <1> QED BY <1>3, <1>4

(* A message put into the transcript at once is delivered past the queues. *)
LEMMA AppendQueues ==
    ASSUME TypeInv, QueueInv, Accepted, NEW m \in Msgs, AppendCustom(m)
    PROVE  QueuesKept
  <1>1. /\ at[m] = "new" /\ at[m] \in Outside /\ Goto(m, "over")
        /\ at \in [Msgs -> Places] /\ delivered \in Seq(Msgs)
        /\ delivered' = Append(delivered, m)
        /\ UNCHANGED <<generation, queueVars, pending, phase>>
    BY DEF AppendCustom, runVars, TypeInv, TypeOK, Outside
  <1>2. m \notin InHand(steerQ, followQ, pending, delivered)
    BY <1>1 DEF Accepted
  <1>3. /\ ToSet(delivered') = ToSet(delivered) \cup {m}
        /\ IsInjective(delivered) /\ m \notin ToSet(delivered) => IsInjective(delivered')
    BY <1>1, Joins
  <1>4. Apart(steerQ, followQ, pending, delivered)'
    BY <1>1, <1>2, <1>3 DEF QueueInv, Apart, InHand, queueVars
  <1>5. Displayed' /\ HeldToDeliver'
    BY <1>1 DEF QueueInv, Displayed, HeldToDeliver, queueVars
  <1>6. InHand(steerQ', followQ', pending', delivered')
          = InHand(steerQ, followQ, pending, delivered) \cup {m}
    BY <1>1, <1>3 DEF InHand, queueVars
  <1>7. at'[m] \notin Outside
    BY <1>1, PlacesOutside DEF Goto
  <1> QED BY <1>1, <1>4, <1>5, <1>6, <1>7 DEF QueuesKept, QueueInv, queueVars

LEMMA SubmitQueues ==
    ASSUME TypeInv, QueueInv, Accepted, LaidBy, NEW m \in Msgs, SubmitStep(m)
    PROVE  QueuesKept
  <1> USE DEF runVars, contextVars
  <1>1. CASE Submit(m) \/ Call(m)
    BY <1>1, NoQueueMoves DEF Submit, Call
  <1>2. CASE Block(m) \/ AdmitIdle(m) \/ PreflightFail(m)
    BY <1>2, NoQueueMoves DEF Block, AdmitIdle, PreflightFail
  <1>3. CASE BeginPreCompaction(m) \/ PreCompacted(m) \/ SendForNextTurn(m)
    <2>1. UNCHANGED <<queueVars, pending, phase, delivered, generation>>
      BY <1>3 DEF BeginPreCompaction, PreCompacted, SendForNextTurn
    <2> QED BY <2>1, NoQueueMoves
  <1>4. CASE StartOperation(m)
    <2>1. m \in Starters /\ at[m] \in Outside
      BY <1>4 DEF StartOperation, TypeInv, OnlyPrompts, PromptPlaces, Starters,
                 Outside, Starting
    <2>2. /\ RunAgentPrompt(m, <<m>> \o nextTurn) /\ nextTurn' = <<>>
          /\ UNCHANGED <<queueVars, delivered, generation>>
      BY <1>4 DEF StartOperation
    <2>3. nextTurn \in Seq(Msgs) /\ m \notin ToSet(nextTurn) /\ IsInjective(nextTurn)
      BY <2>1 DEF LaidBy, TypeInv, TypeOK
    <2>4. /\ IsInjective(<<m>> \o nextTurn)
          /\ ToSet(<<m>> \o nextTurn) = {m} \cup ToSet(nextTurn)
      BY <2>3, JoinsInFront
    <2>5. m \notin InHand(steerQ, followQ, pending, delivered)
      BY <2>1 DEF Accepted
    <2>6. ToSet(<<m>> \o nextTurn) \cap InHand(steerQ, followQ, pending, delivered) = {}
      BY <2>4, <2>5 DEF LaidBy
    <2>7. \A x \in ToSet(<<m>> \o nextTurn) :
             x = m \/ (x \in ToSet(nextTurn) /\ nextTurn' = <<>>)
      BY <2>2, <2>4
    <2> QED BY <2>1, <2>2, <2>4, <2>6, <2>7, StarterBegins
  <1> QED BY <1>1, <1>2, <1>3, <1>4, AdmitQueues, CustomQueues, AppendQueues
          DEF SubmitStep

(* Delivery.                                                               *)
LEMMA InjectQueues ==
    ASSUME TypeInv, QueueInv, InjectPending
    PROVE  QueuesKept
  <1> DEFINE m == Head(pending)
  <1>1. /\ phase \in Delivering /\ pending # <<>> /\ pending' = Tail(pending)
        /\ delivered' = Append(delivered, m)
        /\ steerShown' = Without(steerShown, m) /\ followShown' = Without(followShown, m)
        /\ UNCHANGED <<steerQ, followQ, phase, generation>>
    BY DEF InjectPending, Deliver, Delivering
  <1>2. /\ steerQ \in Seq(Msgs) /\ followQ \in Seq(Msgs) /\ pending \in Seq(Msgs)
        /\ steerShown \in Seq(Msgs) /\ followShown \in Seq(Msgs) /\ delivered \in Seq(Msgs)
    BY DEF TypeInv, TypeOK
  <1>3. Apart(steerQ, followQ, pending, delivered)
    BY DEF QueueInv
  <1>4. /\ m \in ToSet(pending) /\ ToSet(pending) = {m} \cup ToSet(Tail(pending))
        /\ IsInjective(Tail(pending)) /\ m \notin ToSet(Tail(pending)) /\ m \in Msgs
    BY <1>1, <1>2, <1>3, Splits, SeqFacts DEF Apart
  <1>5. /\ m \notin ToSet(steerQ) /\ m \notin ToSet(followQ) /\ m \notin ToSet(delivered)
    BY <1>3, <1>4 DEF Apart
  <1>6. ToSet(delivered') = ToSet(delivered) \cup {m} /\ IsInjective(delivered')
    BY <1>1, <1>2, <1>3, <1>4, <1>5, Joins DEF Apart
  <1>7. Displayed'
    BY <1>1, <1>2, <1>3, <1>5, ShownDelivered DEF Displayed, QueueInv, Apart
  <1> HIDE DEF m
  <1>8. Apart(steerQ, followQ, pending, delivered)'
    BY <1>1, <1>3, <1>4, <1>5, <1>6 DEF Apart
  <1>9. InHand(steerQ', followQ', pending', delivered')
          = InHand(steerQ, followQ, pending, delivered)
    BY <1>1, <1>4, <1>6 DEF InHand
  <1> QED BY <1>1, <1>7, <1>8, <1>9 DEF QueuesKept, QueueInv, HeldToDeliver

LEMMA AgentQueues ==
    ASSUME TypeInv, QueueInv, AgentStep
    PROVE  QueuesKept
  <1>1. "inject" \in Delivering
    BY DEF Delivering
  <1>2. CASE EnterLoop
    <2>1. pending = <<>> /\ phase' = "inject"
          /\ UNCHANGED <<followQ, steerShown, followShown, delivered, generation>>
      BY <1>2 DEF EnterLoop, contextVars
    <2>2. CASE PollSteering
      BY <1>1, <2>1, <2>2, SteeringPolled DEF PollSteering
    <2>3. CASE UNCHANGED <<pending, steerQ>>
      BY <2>1, <2>3, NoQueueMoves DEF queueVars
    <2> QED BY <1>2, <2>2, <2>3 DEF EnterLoop
  <1>3. CASE CallProvider
    BY <1>3, NoQueueMoves DEF CallProvider, contextVars
  <1>4. CASE \E kind \in Kinds, callsTools \in BOOLEAN : Respond(kind, callsTools)
    <2>1. pending = <<>>
      BY <1>4, NothingHeld DEF Respond, Delivering
    <2> QED BY <1>4, <2>1, NoQueueMoves DEF Respond
  <1>5. CASE ToolsDone
    <2>1. pending = <<>>
      BY <1>5, NothingHeld DEF ToolsDone, Delivering
    <2> QED BY <1>5, <2>1, NoQueueMoves DEF ToolsDone
  <1>6. CASE NextTurn
    <2>1. pending = <<>>
      BY <1>6, NothingHeld DEF NextTurn, Delivering
    <2> QED BY <1>1, <1>6, <2>1, SteeringPolled DEF NextTurn, PollSteering, contextVars
  <1>7. CASE TurnEnd
    <2>1. /\ pending = <<>>
          /\ UNCHANGED <<steerShown, followShown, delivered, generation>>
      BY <1>7, NothingHeld DEF TurnEnd, Delivering, contextVars
    <2>2. CASE PollSteering /\ phase' = "inject" /\ UNCHANGED followQ
      BY <1>1, <2>1, <2>2, SteeringPolled DEF PollSteering
    <2>3. CASE /\ pending' = Drained(FollowUpMode, followQ)
               /\ followQ' = Left(FollowUpMode, followQ)
               /\ phase' = IF followQ # <<>> THEN "inject" ELSE "stopping"
               /\ UNCHANGED steerQ
      BY <1>1, <2>1, <2>3, FollowUpsPolled
    <2> QED BY <1>7, <2>2, <2>3 DEF TurnEnd
  <1>8. CASE BeforeStop
    <2>1. pending = <<>> /\ UNCHANGED <<queueVars, pending, delivered, generation>>
      BY <1>8, NothingHeld DEF BeforeStop, Delivering, contextVars
    <2> QED BY <2>1, NoQueueMoves
  <1>9. CASE AgentEnd
    <2>1. pending = <<>>
      BY <1>9, NothingHeld DEF AgentEnd, Delivering
    <2> QED BY <1>9, <2>1, NoQueueMoves DEF AgentEnd
  <1> QED BY <1>2, <1>3, <1>4, <1>5, <1>6, <1>7, <1>8, <1>9, InjectQueues DEF AgentStep

LEMMA OperationQueues ==
    ASSUME TypeInv, QueueInv, NEW o, OperationStep(o)
    PROVE  QueuesKept
  <1> USE DEF runVars, contextVars, queueVars
  <1>1. UNCHANGED <<steerShown, followShown, delivered, generation>>
    BY DEF OperationStep, RetryElapsed, RetryCancelled, Recovered, Compacted,
           HoldReleased, HoldExpired, Settled
  <1>2. ASSUME NEW afterAssistant, Continue(o, afterAssistant)
        PROVE  QueuesKept
    BY <1>1, <1>2, ContinueQueues
  <1>3. ASSUME UNCHANGED <<steerQ, followQ, pending, phase>>
        PROVE  QueuesKept
    BY <1>1, <1>3, NoQueueMoves
  <1>4. CASE RetryElapsed(o)
    BY <1>2, <1>4 DEF RetryElapsed
  <1>5. CASE RetryCancelled(o) \/ Settled(o)
    BY <1>3, <1>5 DEF RetryCancelled, Settled
  <1>6. CASE Recovered(o)
    BY <1>2, <1>3, <1>6 DEF Recovered
  <1>7. CASE Compacted(o)
    BY <1>2, <1>3, <1>7 DEF Compacted
  <1>8. CASE HoldReleased(o) \/ HoldExpired(o)
    BY <1>2, <1>3, <1>8 DEF HoldReleased, HoldExpired, ContinueOrSettle
  <1> QED BY <1>4, <1>5, <1>6, <1>7, <1>8 DEF OperationStep

(* clearQueue leaves what the run loop holds.                              *)
LEMMA ClearQueues ==
    ASSUME TypeInv, QueueInv, ClearQueue, UNCHANGED <<pending, delivered, phase>>
    PROVE  QueuesKept
  <1>1. /\ steerQ' = <<>> /\ followQ' = <<>> /\ steerShown' = <<>> /\ followShown' = <<>>
        /\ DOMAIN <<>> = {} /\ ToSet(<<>>) = {} /\ IsInjective(<<>>)
    BY EmptySeq DEF ClearQueue, ToSet, IsInjective
  <1>2. Apart(steerQ, followQ, pending, delivered)'
    BY <1>1 DEF Apart, QueueInv
  <1>3. Displayed'
    BY <1>1 DEF Displayed, Shown, ShowsSet, SameOrder, HeldFirst
  <1>4. \A m \in InHand(steerQ', followQ', pending', delivered') :
           m \in InHand(steerQ, followQ, pending, delivered)
    BY <1>1 DEF InHand
  <1> QED BY <1>1, <1>2, <1>3, <1>4 DEF QueuesKept, QueueInv, HeldToDeliver

LEMMA StopQueues ==
    ASSUME TypeInv, QueueInv, StopStep
    PROVE  QueuesKept
  <1>1. UNCHANGED <<pending, delivered, phase>>
    BY DEF StopStep, Stop, CallAbort, CallClearQueue, contextVars, runVars
  <1>2. ClearQueue \/ UNCHANGED <<queueVars, generation>>
    BY DEF StopStep, Stop, CallAbort, CallClearQueue
  <1> QED BY <1>1, <1>2, ClearQueues, NoQueueMoves

LEMMA QueueStep ==
    ASSUME TypeInv, QueueInv, Accepted, LaidBy, [Next]_vars
    PROVE  QueuesKept
  <1> USE DEF runVars, contextVars
  <1>1. UNCHANGED vars => QueuesKept
    BY NoQueueMoves DEF vars
  <1>2. Quiet => UNCHANGED vars
    BY DEF Quiet
  <1>3. StartSubmit => QueuesKept
    BY NoQueueMoves DEF StartSubmit
  <1> QED BY <1>1, <1>2, <1>3, SubmitQueues, AgentQueues, OperationQueues,
             StopQueues DEF Next

(* What is left for the next turn leaves all at once.                      *)
LEMMA NextTurnStep ==
    ASSUME TypeInv, Accepted, LaidBy, Kept, QueuesKept, [Next]_vars
    PROVE  LaidBy'
  <1> USE DEF runVars, queueVars, contextVars, loopVars, stopVars
  <1>1. nextTurn \in Seq(Msgs) /\ ToSet(nextTurn) \subseteq Msgs
    BY SeqFacts DEF TypeInv, TypeOK
  <1>2. \/ nextTurn' = nextTurn \/ nextTurn' = <<>>
        \/ \E m \in Msgs : SendForNextTurn(m)
    <2>1. ASSUME NEW m \in Msgs, SubmitStep(m), ~SendForNextTurn(m)
          PROVE  nextTurn' = nextTurn \/ nextTurn' = <<>>
      BY <2>1 DEF SubmitStep, Submit, Call, Block, Admit, AdmitIdle, PreflightFail,
                  BeginPreCompaction, PreCompacted, StartOperation, SendCustom,
                  AppendCustom
    <2>2. AgentStep => nextTurn' = nextTurn
      BY DEF AgentStep, InjectPending, EnterLoop, CallProvider, Respond, ToolsDone,
             NextTurn, TurnEnd, BeforeStop, AgentEnd
    <2>3. ASSUME NEW o \in Starters, OperationStep(o)
          PROVE  nextTurn' = nextTurn
      BY <2>3 DEF OperationStep, RetryElapsed, RetryCancelled, Recovered, Compacted,
                  HoldReleased, HoldExpired, Settled
    <2>4. StopStep \/ StartSubmit \/ UNCHANGED vars => nextTurn' = nextTurn
      BY DEF StopStep, Stop, CallAbort, CallClearQueue, StartSubmit, vars
    <2> QED BY <2>1, <2>2, <2>3, <2>4 DEF Next, Quiet
  <1>3. CASE nextTurn' = nextTurn
    <2>1. ASSUME NEW m \in ToSet(nextTurn), m \in InHand(steerQ', followQ', pending', delivered')
          PROVE  FALSE
      <3>1. m \notin InHand(steerQ, followQ, pending, delivered) /\ at[m] \notin Outside
        BY <2>1 DEF LaidBy
      <3>2. nextTurn # <<>>
        BY <2>1, EmptySeq DEF ToSet
      <3> QED BY <1>3, <2>1, <3>1, <3>2 DEF QueuesKept
    <2>2. \A m \in ToSet(nextTurn) : at'[m] \notin Outside
      BY <1>1 DEF LaidBy, Kept
    <2> QED BY <1>3, <2>1, <2>2 DEF LaidBy
  <1>4. CASE nextTurn' = <<>>
    <2>1. ToSet(nextTurn') = {} /\ IsInjective(nextTurn')
      BY <1>4, EmptySeq DEF ToSet, IsInjective
    <2> QED BY <2>1 DEF LaidBy
  <1>5. ASSUME NEW m \in Msgs, SendForNextTurn(m)
        PROVE  LaidBy'
    <2>1. /\ at[m] = "new" /\ Goto(m, "queued") /\ nextTurn' = Append(nextTurn, m)
          /\ UNCHANGED <<steerQ, followQ, pending, delivered>>
          /\ at \in [Msgs -> Places]
      BY <1>5 DEF SendForNextTurn, TypeInv, TypeOK
    <2>2. at[m] \in Outside
      BY <2>1 DEF Outside
    <2>3. m \notin ToSet(nextTurn) /\ m \notin InHand(steerQ, followQ, pending, delivered)
      BY <2>2 DEF LaidBy, Accepted
    <2>4. ToSet(nextTurn') = ToSet(nextTurn) \cup {m} /\ IsInjective(nextTurn')
      BY <1>1, <2>1, <2>3, Joins DEF LaidBy
    <2>5. \A x \in ToSet(nextTurn') : at'[x] \notin Outside
      BY <1>1, <2>1, <2>4, PlacesOutside DEF LaidBy, Goto
    <2>6. InHand(steerQ', followQ', pending', delivered')
            = InHand(steerQ, followQ, pending, delivered)
      BY <2>1
    <2> QED BY <2>3, <2>4, <2>5, <2>6 DEF LaidBy
  <1> QED BY <1>2, <1>3, <1>4, <1>5

-----------------------------------------------------------------------------
(* The theorems. *)

LEMMA MessageStep ==
    ASSUME TypeInv, MessageInv, [Next]_vars
    PROVE  MessageInv'
  <1>1. PlacesKept /\ QueuesKept
    BY PlacesStep, QueueStep DEF MessageInv
  <1>2. InHand(steerQ', followQ', pending', delivered') \subseteq Msgs
    <2>1. /\ steerQ' \in Seq(Msgs) /\ followQ' \in Seq(Msgs)
          /\ pending' \in Seq(Msgs) /\ delivered' \in Seq(Msgs)
      BY TypeStep DEF TypeInv, TypeOK
    <2>2. /\ ToSet(steerQ') \subseteq Msgs /\ ToSet(followQ') \subseteq Msgs
          /\ ToSet(pending') \subseteq Msgs /\ ToSet(delivered') \subseteq Msgs
      BY <2>1, SeqFacts
    <2> QED BY <2>2 DEF InHand
  <1>3. Accepted'
    BY <1>1, <1>2 DEF PlacesKept, Kept, QueuesKept, MessageInv, Accepted, LaidBy
  <1>5. LaidBy'
    BY <1>1, NextTurnStep DEF PlacesKept, MessageInv
  <1>4. SinceClear'
    <2> SUFFICES ASSUME NEW m \in (ToSet(steerQ') \cup ToSet(followQ')) \cap UserMsgs
                 PROVE  at'[m] = "queued" /\ gen'[m] = generation'
      BY DEF SinceClear
    <2>1. m \in Msgs
      BY StartersAreMessages
    <2>2. CASE m \in ToSet(steerQ) \cup ToSet(followQ) /\ generation' = generation
      BY <1>1, <2>1, <2>2 DEF PlacesKept, Kept, MessageInv, SinceClear
    <2> QED BY <1>1, <2>2 DEF QueuesKept
  <1> QED BY <1>1, <1>3, <1>4, <1>5 DEF PlacesKept, QueuesKept, MessageInv

LEMMA MessageInit ==
    ASSUME Init
    PROVE  MessageInv
  <1>1. /\ DOMAIN <<>> = {} /\ ToSet(<<>>) = {} /\ IsInjective(<<>>)
    BY EmptySeq DEF ToSet, IsInjective
  <1>2. /\ steerQ = <<>> /\ followQ = <<>> /\ steerShown = <<>> /\ followShown = <<>>
        /\ pending = <<>> /\ delivered = <<>> /\ submits = <<>> /\ phase = "none"
        /\ nextTurn = <<>>
    BY DEF Init
  <1>3. SubmitsWait /\ OwnerRuns /\ Accepted /\ LaidBy /\ SinceClear
    BY <1>1, <1>2 DEF SubmitsWait, OwnerRuns, Accepted, LaidBy, SinceClear, InHand
  <1>4. Displayed
    BY <1>1, <1>2 DEF Displayed, Shown, ShowsSet, SameOrder, HeldFirst
  <1> QED BY <1>1, <1>2, <1>3, <1>4 DEF MessageInv, QueueInv, HeldToDeliver, Apart

LEMMA MessageAlways == Spec => [](TypeInv /\ MessageInv)
  <1>1. Init => TypeInv /\ MessageInv
    BY TypeInit, MessageInit
  <1>2. TypeInv /\ MessageInv /\ [Next]_vars => TypeInv' /\ MessageInv'
    BY TypeStep, MessageStep
  <1> QED BY <1>1, <1>2, PTL DEF Spec

(* No message is delivered twice, and none whose call reported it blocked, *)
(* dropped or refused, whatever is submitted, queued, cleared or aborted   *)
(* meanwhile.                                                              *)
THEOREM MessagesDeliveredOnce == Spec => []DeliveredOnce
  <1>1. MessageInv => DeliveredOnce
    BY DEF MessageInv, QueueInv, Apart, Accepted, InHand, DeliveredOnce, Outside, Refused
  <1> QED BY <1>1, MessageAlways, PTL

(* After clearQueue nothing is queued that was submitted before it, not    *)
(* even a message that was still in intake (_queueGeneration).             *)
THEOREM NothingQueuedBeforeClear == Spec => []QueuedSinceClear
  <1>1. MessageInv => QueuedSinceClear
    BY DEF MessageInv, SinceClear, QueuedSinceClear
  <1> QED BY <1>1, MessageAlways, PTL

(* What the owner sees waiting is what waits, in its order, but for what   *)
(* the run loop has taken and delivers next.                               *)
THEOREM DisplayTellsTheTruth == Spec => []DisplayIsQueue
  <1>1. ASSUME NEW q \in Seq(Msgs), NEW shown \in Seq(Msgs), Shown(shown, q, pending)
        PROVE  Shows(shown, q)
    <2>1. ASSUME NEW i \in DOMAIN shown, NEW j \in DOMAIN shown, i < j
          PROVE  /\ shown[i] # shown[j]
                 /\ shown[i] \in ToSet(q) =>
                      \E k, l \in DOMAIN q : k < l /\ q[k] = shown[i] /\ q[l] = shown[j]
      <3>1. i \in Nat /\ j \in Nat /\ ~(j < i) /\ i # j
        BY <2>1, SeqFacts
      <3>2. shown[i] # shown[j]
        BY <1>1, <3>1 DEF Shown, ShowsSet, IsInjective
      <3>3. ASSUME shown[i] \in ToSet(q)
            PROVE  \E k, l \in DOMAIN q : k < l /\ q[k] = shown[i] /\ q[l] = shown[j]
        <4>1. shown[j] \in ToSet(q)
          <5>1. shown[j] \in ToSet(q) \cup ToSet(pending)
            BY <1>1 DEF Shown, ShowsSet, ToSet
          <5> QED BY <1>1, <3>1, <3>3, <5>1 DEF Shown, HeldFirst
        <4>2. PICK k, l \in DOMAIN q : q[k] = shown[i] /\ q[l] = shown[j]
          BY <3>3, <4>1 DEF ToSet
        <4>3. k \in Nat /\ l \in Nat
          BY SeqFacts
        <4>4. ~(l < k)
          BY <1>1, <3>1, <4>2 DEF Shown, SameOrder
        <4>5. k # l
          BY <3>2, <4>2
        <4>6. k < l
          BY <4>3, <4>4, <4>5
        <4> QED BY <4>2, <4>6
      <3> QED BY <3>2, <3>3
    <2> QED BY <1>1, <2>1 DEF Shows, Shown, ShowsSet
  <1>2. TypeInv /\ MessageInv => DisplayIsQueue
    BY <1>1 DEF TypeInv, TypeOK, MessageInv, QueueInv, Displayed, DisplayIsQueue
  <1> QED BY <1>2, MessageAlways, PTL

(* A displayed message is delivered when it is the first one displayed, so *)
(* steering messages, and follow-ups, arrive in the order they were given. *)
THEOREM DeliveredOldestFirst == Spec => OldestFirst
  <1> DEFINE First ==
        delivered' # delivered =>
            LET m == delivered'[Len(delivered')] IN
            /\ Contains(steerShown, m) => m = Head(steerShown)
            /\ Contains(followShown, m) => m = Head(followShown)
  <1>1. ASSUME TypeInv, MessageInv, InjectPending
        PROVE  First
    <2>1. pending # <<>> /\ delivered' = Append(delivered, Head(pending))
      BY <1>1 DEF InjectPending, Deliver
    <2>2. /\ pending \in Seq(Msgs) /\ delivered \in Seq(Msgs)
          /\ steerQ \in Seq(Msgs) /\ followQ \in Seq(Msgs)
          /\ steerShown \in Seq(Msgs) /\ followShown \in Seq(Msgs)
      BY <1>1 DEF TypeInv, TypeOK
    <2>3. delivered'[Len(delivered')] = Head(pending)
      <3>1. Head(pending) \in Msgs
        BY <2>1, <2>2, HeadTailProperties
      <3> QED BY <2>1, <2>2, <3>1, AppendProperties
    <2>4. /\ Shown(steerShown, steerQ, pending) /\ Shown(followShown, followQ, pending)
      BY <1>1 DEF MessageInv, QueueInv, Displayed
    <2> QED BY <2>1, <2>2, <2>3, <2>4, ShownFirst
  <1>2. ASSUME [Next]_vars, ~InjectPending, \A m \in Msgs : ~AppendCustom(m)
        PROVE  delivered' = delivered
    <2> USE DEF contextVars
    <2>1. ASSUME NEW m \in Msgs, SubmitStep(m)
          PROVE  delivered' = delivered
      BY <1>2, <2>1
         DEF SubmitStep, Submit, Call, Block, Admit, AdmitIdle, PreflightFail,
             BeginPreCompaction, PreCompacted, StartOperation, SendCustom,
             SendForNextTurn
    <2>2. AgentStep => delivered' = delivered
      BY <1>2 DEF AgentStep, EnterLoop, CallProvider, Respond, ToolsDone, NextTurn,
                  TurnEnd, BeforeStop, AgentEnd
    <2>3. ASSUME NEW o \in Starters, OperationStep(o)
          PROVE  delivered' = delivered
      BY <2>3 DEF OperationStep, RetryElapsed, RetryCancelled, Recovered, Compacted,
                  HoldReleased, HoldExpired, Settled
    <2>4. StopStep \/ StartSubmit => delivered' = delivered
      BY DEF StopStep, Stop, CallAbort, CallClearQueue, StartSubmit
    <2>5. UNCHANGED vars => delivered' = delivered
      BY DEF vars
    <2> QED BY <1>2, <2>1, <2>2, <2>3, <2>4, <2>5 DEF Next, Quiet
  <1>4. ASSUME TypeInv, MessageInv, NEW m \in Msgs, AppendCustom(m)
        PROVE  First
    <2>1. /\ m \in Customs /\ delivered' = Append(delivered, m)
          /\ delivered \in Seq(Msgs)
          /\ steerShown \in Seq(Msgs) /\ followShown \in Seq(Msgs)
      BY <1>4 DEF AppendCustom, TypeInv, TypeOK
    <2>2. delivered'[Len(delivered')] = m
      BY <2>1, AppendProperties
    <2>3. m \notin UserMsgs
      BY <2>1, DisjointMessages DEF UserMsgs
    <2>4. m \notin ToSet(steerShown) /\ m \notin ToSet(followShown)
      BY <1>4, <2>3 DEF MessageInv, QueueInv, Displayed, Shown, ShowsSet
    <2>5. ~Contains(steerShown, m) /\ ~Contains(followShown, m)
      BY <2>1, <2>4, SeqFacts
    <2> QED BY <2>2, <2>5
  <1>3. TypeInv /\ MessageInv /\ [Next]_vars => [First]_vars
    BY <1>1, <1>2, <1>4
  <1> QED BY <1>3, MessageAlways, PTL DEF Spec, OldestFirst

=============================================================================

-------------------------- MODULE FlattenTheorems --------------------------
(***************************************************************************)
(* The stream of what was sent ahead is FlattenSeq of the pieces, which is *)
(* a recursive function: what it returns for one piece more at the end,    *)
(* and for the first piece apart, is proved here, by induction on the      *)
(* number of pieces.  The induction is one on a set of numbers, and rests  *)
(* on the well-foundedness of <.                                           *)
(***************************************************************************)
EXTENDS Integers, SequencesExt, SequenceTheorems, WellFoundedInduction, TLAPS

\* Induction on a set of numbers.
LEMMA SetInduction ==
    ASSUME NEW T, 0 \in T, \A n \in Nat : n \in T => n + 1 \in T
    PROVE  Nat \subseteq T
<1>. SUFFICES ASSUME Nat \ T # {} PROVE FALSE
  OBVIOUS
<1>1. PICK m \in Nat \ T : \A y \in Nat \ T : ~(<<y, m>> \in OpToRel(<, Nat))
  BY NatLessThanWellFounded, WFMin, Zenon
<1>2. m # 0 /\ m - 1 \in Nat
  OBVIOUS
<1>3. <<m - 1, m>> \in OpToRel(<, Nat)
  BY <1>2 DEF OpToRel
<1>4. m - 1 \in T
  BY <1>1, <1>2, <1>3
<1>. QED
  BY <1>2, <1>4
-----------------------------------------------------------------------------
(***************************************************************************)
(* Sequences of sequences, one after the other.                            *)
(***************************************************************************)

Join(s, t) == s \o t

LEMMA JoinAssociative ==
    ASSUME NEW S, NEW s \in Seq(S), NEW t \in Seq(S), NEW u \in Seq(S)
    PROVE  Join(Join(s, t), u) = Join(s, Join(t, u))
BY ConcatAssociative DEF Join

\* f has the first i sequences of t in one, for each i up to n.
Flattens(f, t, n) ==
    /\ f = [i \in 1..n |-> f[i]]
    /\ n >= 1 => f[1] = t[1]
    /\ \A i \in 1..(n - 1) : f[i + 1] = Join(f[i], t[i + 1])

LEMMA FlatteningTypes ==
    ASSUME NEW S, NEW n \in Nat, NEW t, NEW f, Flattens(f, t, n),
           \A i \in 1..n : t[i] \in Seq(S)
    PROVE  \A i \in 1..n : f[i] \in Seq(S)
<1>. DEFINE T == {k \in Nat : k \in 1..n => f[k] \in Seq(S)}
<1>1. 0 \in T
  OBVIOUS
<1>2. ASSUME NEW k \in Nat, k \in T
      PROVE  k + 1 \in T
  <2>. SUFFICES ASSUME k + 1 \in 1..n PROVE f[k + 1] \in Seq(S)
    OBVIOUS
  <2>1. t[k + 1] \in Seq(S)
    OBVIOUS
  <2>2. CASE k = 0
    <3>1. f[1] = t[1]
      BY DEF Flattens
    <3>. QED
      BY <2>1, <2>2, <3>1
  <2>3. CASE k # 0
    <3>1. k \in 1..(n - 1)
      BY <2>3
    <3>2. f[k + 1] = Join(f[k], t[k + 1])
      BY <3>1, Zenon DEF Flattens
    <3>3. f[k] \in Seq(S)
      BY <1>2, <3>1
    <3>. QED
      BY <2>1, <3>2, <3>3, ConcatProperties DEF Join
  <2>. QED
    BY <2>2, <2>3
<1>3. Nat \subseteq T
  <2>. HIDE DEF T
  <2>. QED
    BY <1>1, <1>2, SetInduction
<1>. QED
  BY <1>3

\* There is one such f and no other.
LEMMA FlatteningExists ==
    ASSUME NEW n \in Nat, NEW t
    PROVE  \E f : Flattens(f, t, n)
<1>. DEFINE T == {k \in Nat : \E f : Flattens(f, t, k)}
<1>1. 0 \in T
  <2>1. Flattens([i \in 1..0 |-> t], t, 0)
    BY DEF Flattens
  <2>. QED
    BY <2>1
<1>2. ASSUME NEW k \in Nat, k \in T
      PROVE  k + 1 \in T
  <2>1. PICK f : Flattens(f, t, k)
    BY <1>2
  <2>. DEFINE last == IF k = 0 THEN t[1] ELSE Join(f[k], t[k + 1])
              g    == [i \in 1..(k + 1) |-> IF i = k + 1 THEN last ELSE f[i]]
  <2>2. g = [i \in 1..(k + 1) |-> g[i]]
    OBVIOUS
  <2>3. g[1] = t[1]
    BY <2>1 DEF Flattens
  <2>4. ASSUME NEW i \in 1..k
        PROVE  g[i + 1] = Join(g[i], t[i + 1])
    <3>1. CASE i = k
      BY <3>1
    <3>2. CASE i < k
      <4>1. f[i + 1] = Join(f[i], t[i + 1])
        BY <2>1, <3>2 DEF Flattens
      <4>2. g[i + 1] = f[i + 1] /\ g[i] = f[i]
        BY <3>2
      <4>. QED
        BY <4>1, <4>2
    <3>. QED
      BY <3>1, <3>2
  <2>5. Flattens(g, t, k + 1)
    <3>. HIDE DEF g
    <3>. QED
      <4>1. (k + 1) - 1 = k
        OBVIOUS
      <4>. QED
        BY <2>2, <2>3, <2>4, <4>1, Zenon DEF Flattens
  <2>. QED
    BY <2>5
<1>3. Nat \subseteq T
  <2>. HIDE DEF T
  <2>. QED
    BY <1>1, <1>2, SetInduction
<1>. QED
  BY <1>3

LEMMA FlatteningUnique ==
    ASSUME NEW n \in Nat, NEW m \in Nat, n <= m, NEW t, NEW u, NEW f, NEW g,
           Flattens(f, t, n), Flattens(g, u, m), \A i \in 1..n : t[i] = u[i]
    PROVE  \A i \in 1..n : f[i] = g[i]
<1>. DEFINE T == {k \in Nat : k \in 1..n => f[k] = g[k]}
<1>1. 0 \in T
  OBVIOUS
<1>2. ASSUME NEW k \in Nat, k \in T
      PROVE  k + 1 \in T
  <2>. SUFFICES ASSUME k + 1 \in 1..n PROVE f[k + 1] = g[k + 1]
    OBVIOUS
  <2>1. t[k + 1] = u[k + 1]
    OBVIOUS
  <2>2. CASE k = 0
    <3>1. f[1] = t[1] /\ g[1] = u[1]
      BY DEF Flattens
    <3>. QED
      BY <2>1, <2>2, <3>1
  <2>3. CASE k # 0
    <3>1. k \in 1..(n - 1) /\ k \in 1..(m - 1)
      BY <2>3
    <3>2. f[k + 1] = Join(f[k], t[k + 1]) /\ g[k + 1] = Join(g[k], u[k + 1])
      BY <3>1, Zenon DEF Flattens
    <3>3. f[k] = g[k]
      BY <1>2, <3>1
    <3>. QED
      BY <2>1, <3>2, <3>3
  <2>. QED
    BY <2>2, <2>3
<1>3. Nat \subseteq T
  <2>. HIDE DEF T
  <2>. QED
    BY <1>1, <1>2, SetInduction
<1>. QED
  BY <1>3

\* FlattenSeq is defined by a recursive function.
LEMMA FlattenSeqIs ==
    ASSUME NEW t, NEW n \in Nat \ {0}, Len(t) = n, NEW f, Flattens(f, t, n)
    PROVE  FlattenSeq(t) = f[n]
<1>. DEFINE Rule(g) == [i \in 1..Len(t) |-> IF i = 1 THEN t[i] ELSE g[i - 1] \o t[i]]
<1>1. f = Rule(f)
  <2>1. ASSUME NEW i \in 1..n
        PROVE  f[i] = IF i = 1 THEN t[i] ELSE Join(f[i - 1], t[i])
    <3>1. CASE i = 1
      BY <3>1 DEF Flattens
    <3>2. CASE i # 1
      <4>1. PICK j \in 1..(n - 1) : j = i - 1 /\ i = j + 1
        BY <3>2
      <4>2. f[j + 1] = Join(f[j], t[j + 1])
        BY DEF Flattens
      <4>. QED
        BY <3>2, <4>1, <4>2
    <3>. QED
      BY <3>1, <3>2
  <2>2. f = [i \in 1..n |-> IF i = 1 THEN t[i] ELSE Join(f[i - 1], t[i])]
    BY <2>1 DEF Flattens
  <2>. QED
    BY <2>2, Zenon DEF Join
<1>2. PICK g : g = Rule(g) /\ FlattenSeq(t) = g[Len(t)]
  BY <1>1 DEF FlattenSeq
<1>3. Flattens(g, t, n)
  <2>1. \A i \in 1..n : g[i] = IF i = 1 THEN t[i] ELSE Join(g[i - 1], t[i])
    BY <1>2, Zenon DEF Join
  <2>2. ASSUME NEW i \in 1..(n - 1)
        PROVE  g[i + 1] = Join(g[i], t[i + 1])
    <3>1. i + 1 \in 1..n /\ i + 1 # 1 /\ (i + 1) - 1 = i
      OBVIOUS
    <3>. QED
      BY <2>1, <3>1
  <2>3. g = [i \in 1..n |-> g[i]]
    BY <1>2
  <2>4. g[1] = t[1]
    BY <2>1
  <2>. QED
    BY <2>2, <2>3, <2>4, Zenon DEF Flattens
<1>4. g[n] = f[n]
  <2>1. \A i \in 1..n : g[i] = f[i]
    <3>1. n <= n /\ n \in Nat /\ \A i \in 1..n : t[i] = t[i]
      OBVIOUS
    <3>. HIDE DEF Rule
    <3>. QED
      BY <1>3, <3>1, FlatteningUnique
  <2>. QED
    BY <2>1
<1>. QED
  BY <1>2, <1>4

LEMMA FlattenEmpty == FlattenSeq(<<>>) = <<>>
BY DEF FlattenSeq

LEMMA FlattenType ==
    ASSUME NEW S, NEW t \in Seq(Seq(S))
    PROVE  FlattenSeq(t) \in Seq(S)
<1>1. CASE t = <<>>
  BY <1>1, FlattenEmpty, EmptySeq
<1>2. CASE t # <<>>
  <2>1. PICK n \in Nat \ {0} : n = Len(t)
    BY <1>2, EmptySeq
  <2>2. PICK f : Flattens(f, t, n)
    BY FlatteningExists
  <2>3. FlattenSeq(t) = f[n]
    BY <2>1, <2>2, FlattenSeqIs
  <2>4. \A i \in 1..n : t[i] \in Seq(S)
    BY <2>1
  <2>5. \A i \in 1..n : f[i] \in Seq(S)
    BY <2>2, <2>4, FlatteningTypes
  <2>. QED
    BY <2>3, <2>5
<1>. QED
  BY <1>1, <1>2

\* One more sequence at the end.
LEMMA FlattenAppend ==
    ASSUME NEW S, NEW t \in Seq(Seq(S)), NEW w \in Seq(S)
    PROVE  FlattenSeq(Append(t, w)) = FlattenSeq(t) \o w
<1>1. PICK n \in Nat, u \in Seq(Seq(S)) :
          /\ n = Len(t) /\ u = Append(t, w) /\ Len(u) = n + 1
          /\ u[n + 1] = w /\ \A i \in 1..n : t[i] = u[i]
  <2>1. /\ Append(t, w) \in Seq(Seq(S)) /\ Len(t) \in Nat
        /\ Len(Append(t, w)) = Len(t) + 1
        /\ Append(t, w)[Len(t) + 1] = w
        /\ \A i \in 1..Len(t) : t[i] = Append(t, w)[i]
    BY AppendProperties
  <2>. QED
    BY <2>1, Zenon
<1>2. PICK f : Flattens(f, u, n + 1)
  BY n + 1 \in Nat, FlatteningExists
<1>3. FlattenSeq(u) = f[n + 1]
  <2>1. n + 1 \in Nat \ {0}
    OBVIOUS
  <2>. QED
    BY <1>1, <1>2, <2>1, FlattenSeqIs
<1>4. CASE n = 0
  <2>1. t = <<>>
    BY <1>1, <1>4
  <2>2. f[1] = w
    BY <1>1, <1>2, <1>4 DEF Flattens
  <2>. QED
    BY <1>1, <1>3, <1>4, <2>1, <2>2, FlattenEmpty, ConcatEmptySeq
<1>5. CASE n # 0
  <2>1. PICK g : Flattens(g, t, n)
    BY FlatteningExists
  <2>2. FlattenSeq(t) = g[n]
    BY <1>1, <1>5, <2>1, FlattenSeqIs
  <2>3. \A i \in 1..n : g[i] = f[i]
    <3>1. PICK m \in Nat : m = n + 1
      OBVIOUS
    <3>2. n <= m /\ Flattens(f, u, m)
      BY <1>2, <3>1
    <3>3. \A i \in 1..n : t[i] = u[i]
      BY <1>1
    <3>. QED
      BY <2>1, <3>2, <3>3, FlatteningUnique
  <2>4. g[n] = f[n]
    BY <1>5, <2>3
  <2>5. f[n + 1] = Join(f[n], u[n + 1])
    <3>1. n \in 1..((n + 1) - 1)
      BY <1>5
    <3>. QED
      BY <1>2, <3>1, Zenon DEF Flattens
  <2>. QED
    BY <1>1, <1>3, <2>2, <2>4, <2>5 DEF Join
<1>. QED
  BY <1>4, <1>5

\* The first sequence, and the others.
LEMMA FlattenHeadTail ==
    ASSUME NEW S, NEW t \in Seq(Seq(S)), t # <<>>
    PROVE  FlattenSeq(t) = Head(t) \o FlattenSeq(Tail(t))
<1>1. PICK n \in Nat, u \in Seq(Seq(S)), h \in Seq(S) :
          /\ n + 1 = Len(t) /\ u = Tail(t) /\ h = Head(t) /\ h = t[1]
          /\ Len(u) = n /\ \A i \in 1..n : u[i] = t[i + 1]
  <2>1. /\ Tail(t) \in Seq(Seq(S)) /\ Head(t) \in Seq(S) /\ Head(t) = t[1]
        /\ Len(t) - 1 \in Nat /\ (Len(t) - 1) + 1 = Len(t)
        /\ Len(Tail(t)) = Len(t) - 1
        /\ \A i \in 1..(Len(t) - 1) : Tail(t)[i] = t[i + 1]
    BY HeadTailProperties
  <2>. QED
    BY <2>1, Zenon
<1>2. PICK f : Flattens(f, t, n + 1)
  BY n + 1 \in Nat, FlatteningExists
<1>3. FlattenSeq(t) = f[n + 1] /\ f[1] = h
  <2>1. n + 1 \in Nat \ {0}
    OBVIOUS
  <2>2. FlattenSeq(t) = f[n + 1]
    BY <1>1, <1>2, <2>1, FlattenSeqIs
  <2>. QED
    BY <1>1, <1>2, <2>1, <2>2 DEF Flattens
<1>4. CASE n = 0
  <2>1. u = <<>>
    BY <1>1, <1>4, EmptySeq
  <2>2. FlattenSeq(u) = <<>>
    BY <2>1, FlattenEmpty
  <2>3. FlattenSeq(t) = h
    BY <1>3, <1>4
  <2>4. h \o <<>> = h
    BY ConcatEmptySeq
  <2>. QED
    BY <1>1, <2>2, <2>3, <2>4
<1>5. CASE n # 0
  <2>1. PICK g : Flattens(g, u, n)
    BY FlatteningExists
  <2>2. FlattenSeq(u) = g[n]
    BY <1>1, <1>5, <2>1, FlattenSeqIs
  <2>3. \A i \in 1..n : u[i] \in Seq(S)
    BY <1>1
  <2>4. \A i \in 1..n : g[i] \in Seq(S)
    BY <2>1, <2>3, FlatteningTypes
  <2>5. ASSUME NEW i \in 1..n PROVE f[i + 1] = Join(f[i], u[i])
    <3>1. i \in 1..((n + 1) - 1)
      OBVIOUS
    <3>2. f[i + 1] = Join(f[i], t[i + 1])
      BY <1>2, <3>1, Zenon DEF Flattens
    <3>. QED
      BY <1>1, <3>2
  <2>. DEFINE T == {k \in Nat : k \in 1..n => f[k + 1] = Join(h, g[k])}
  <2>6. 0 \in T
    OBVIOUS
  <2>7. ASSUME NEW k \in Nat, k \in T
        PROVE  k + 1 \in T
    <3>. SUFFICES ASSUME k + 1 \in 1..n PROVE f[(k + 1) + 1] = Join(h, g[k + 1])
      OBVIOUS
    <3>1. f[(k + 1) + 1] = Join(f[k + 1], u[k + 1])
      BY <2>5
    <3>2. CASE k = 0
      <4>1. f[k + 1] = h
        BY <1>3, <3>2
      <4>2. g[k + 1] = u[k + 1]
        BY <2>1, <3>2 DEF Flattens
      <4>. QED
        BY <3>1, <4>1, <4>2
    <3>3. CASE k # 0
      <4>1. k \in 1..n /\ k \in 1..(n - 1)
        BY <3>3
      <4>2. f[k + 1] = Join(h, g[k])
        BY <2>7, <4>1
      <4>3. g[k + 1] = Join(g[k], u[k + 1])
        BY <2>1, <4>1, Zenon DEF Flattens
      <4>4. h \in Seq(S) /\ g[k] \in Seq(S) /\ u[k + 1] \in Seq(S)
        BY <2>3, <2>4, <4>1
      <4>5. Join(Join(h, g[k]), u[k + 1]) = Join(h, Join(g[k], u[k + 1]))
        BY <4>4, JoinAssociative
      <4>. QED
        BY <3>1, <4>2, <4>3, <4>5
    <3>. QED
      BY <3>2, <3>3
  <2>8. Nat \subseteq T
    <3>. HIDE DEF T
    <3>. QED
      BY <2>6, <2>7, SetInduction
  <2>9. f[n + 1] = Join(h, g[n])
    BY <1>5, <2>8
  <2>. QED
    BY <1>1, <1>3, <2>2, <2>9 DEF Join
<1>. QED
  BY <1>4, <1>5

\* A sequence that begins with b.
LEMMA FirstElement ==
    ASSUME NEW S, NEW b \in S, NEW w \in Seq(S)
    PROVE  /\ <<b>> \o w # <<>> /\ <<b>> \o w \in Seq(S)
           /\ Head(<<b>> \o w) = b /\ Tail(<<b>> \o w) = w
<1>1. <<b>> \in Seq(S) /\ Len(<<b>>) = 1 /\ <<b>>[1] = b
  OBVIOUS
<1>2. PICK u \in Seq(S) : u = <<b>> \o w
  BY <1>1, ConcatProperties
<1>3. /\ Len(u) = 1 + Len(w)
      /\ \A k \in 1..(1 + Len(w)) : u[k] = IF k <= 1 THEN b ELSE w[k - 1]
  BY <1>1, <1>2, ConcatProperties
<1>4. Len(w) \in Nat
  OBVIOUS
<1>5. u # <<>> /\ Head(u) = b
  BY <1>3, <1>4
<1>6. Tail(u) = w
  <2>1. /\ Tail(u) \in Seq(S) /\ Len(Tail(u)) = Len(w)
        /\ \A k \in 1..Len(w) : Tail(u)[k] = u[k + 1]
    BY <1>3, <1>4, <1>5, HeadTailProperties
  <2>2. \A k \in 1..Len(w) : Tail(u)[k] = w[k]
    BY <1>3, <1>4, <2>1
  <2>. QED
    BY <2>1, <2>2, SeqEqual
<1>. QED
  BY <1>2, <1>5, <1>6

-----------------------------------------------------------------------------
(***************************************************************************)
(* A stream: the pieces that a function w gives for the elements of s, one *)
(* after the other.                                                        *)
(***************************************************************************)

\* w gives each element of R a sequence of elements of S.
Gives(w, R, S) == \A r \in R : w[r] \in Seq(S)

Pieces(w, s) == [k \in DOMAIN s |-> w[s[k]]]

FlatMap(w, s) == FlattenSeq(Pieces(w, s))

LEMMA PiecesType ==
    ASSUME NEW S, NEW R, NEW w, Gives(w, R, S), NEW s \in Seq(R)
    PROVE  Pieces(w, s) \in Seq(Seq(S)) /\ Len(Pieces(w, s)) = Len(s)
<1>1. PICK n \in Nat : n = Len(s) /\ DOMAIN s = 1..n
  OBVIOUS
<1>2. PICK t : t = [k \in 1..n |-> w[s[k]]]
  OBVIOUS
<1>3. \A k \in 1..n : w[s[k]] \in Seq(S)
  BY <1>1 DEF Gives
<1>4. t \in Seq(Seq(S)) /\ Len(t) = n
  BY <1>2, <1>3, IsASeq
<1>. QED
  BY <1>1, <1>2, <1>4 DEF Pieces

LEMMA FlatMapEmpty ==
    ASSUME NEW w
    PROVE  FlatMap(w, <<>>) = <<>>
<1>1. Pieces(w, <<>>) = <<>>
  BY DEF Pieces
<1>. QED
  BY <1>1, FlattenEmpty DEF FlatMap

LEMMA FlatMapType ==
    ASSUME NEW S, NEW R, NEW w, Gives(w, R, S), NEW s \in Seq(R)
    PROVE  FlatMap(w, s) \in Seq(S)
BY PiecesType, FlattenType DEF FlatMap

\* One more element comes behind the others.
LEMMA FlatMapAppend ==
    ASSUME NEW S, NEW R, NEW w, Gives(w, R, S), NEW s \in Seq(R), NEW r \in R
    PROVE  FlatMap(w, Append(s, r)) = FlatMap(w, s) \o w[r]
<1>1. PICK n \in Nat : n = Len(s) /\ DOMAIN s = 1..n
  OBVIOUS
<1>2. PICK t \in Seq(Seq(S)) : t = Pieces(w, s) /\ Len(t) = n
  <2>1. Pieces(w, s) \in Seq(Seq(S)) /\ Len(Pieces(w, s)) = Len(s)
    BY PiecesType
  <2>. QED
    BY <1>1, <2>1
<1>3. PICK q \in Seq(R) : /\ q = Append(s, r) /\ Len(q) = n + 1 /\ DOMAIN q = 1..(n + 1)
                          /\ q[n + 1] = r /\ \A k \in 1..n : q[k] = s[k]
  <2>1. /\ Append(s, r) \in Seq(R) /\ Len(Append(s, r)) = n + 1
        /\ Append(s, r)[n + 1] = r
        /\ \A k \in 1..n : Append(s, r)[k] = s[k]
    BY <1>1, AppendProperties
  <2>2. DOMAIN Append(s, r) = 1..(n + 1)
    BY <2>1
  <2>. QED
    BY <2>1, <2>2, Zenon
<1>4. PICK u \in Seq(Seq(S)) : u = Pieces(w, q) /\ Len(u) = n + 1
  <2>1. Pieces(w, q) \in Seq(Seq(S)) /\ Len(Pieces(w, q)) = Len(q)
    BY PiecesType
  <2>. QED
    BY <1>3, <2>1
<1>5. PICK v \in Seq(S) : v = w[r]
  BY DEF Gives
<1>6. u = Append(t, v)
  <2>1. /\ Append(t, v) \in Seq(Seq(S)) /\ Len(Append(t, v)) = n + 1
        /\ Append(t, v)[n + 1] = v
        /\ \A k \in 1..n : Append(t, v)[k] = t[k]
    BY <1>2, AppendProperties
  <2>2. u[n + 1] = v
    BY <1>3, <1>4, <1>5 DEF Pieces
  <2>3. \A k \in 1..n : u[k] = t[k]
    BY <1>1, <1>2, <1>3, <1>4 DEF Pieces
  <2>4. \A k \in 1..(n + 1) : u[k] = Append(t, v)[k]
    BY <2>1, <2>2, <2>3
  <2>. QED
    BY <1>4, <2>1, <2>4, SeqEqual
<1>7. FlattenSeq(Append(t, v)) = FlattenSeq(t) \o v
  BY FlattenAppend
<1>. QED
  BY <1>2, <1>3, <1>4, <1>5, <1>6, <1>7 DEF FlatMap

\* The first element and the others.
LEMMA FlatMapHeadTail ==
    ASSUME NEW S, NEW R, NEW w, Gives(w, R, S), NEW s \in Seq(R), s # <<>>
    PROVE  FlatMap(w, s) = w[Head(s)] \o FlatMap(w, Tail(s))
<1>1. PICK n \in Nat : n + 1 = Len(s) /\ DOMAIN s = 1..(n + 1)
  <2>1. PICK m \in Nat \ {0} : m = Len(s) /\ DOMAIN s = 1..m
    BY EmptySeq
  <2>2. m - 1 \in Nat /\ (m - 1) + 1 = m
    OBVIOUS
  <2>. QED
    BY <2>1, <2>2
<1>2. PICK t \in Seq(Seq(S)) : t = Pieces(w, s) /\ Len(t) = n + 1
  <2>1. Pieces(w, s) \in Seq(Seq(S)) /\ Len(Pieces(w, s)) = Len(s)
    BY PiecesType
  <2>. QED
    BY <1>1, <2>1
<1>3. PICK q \in Seq(R) : /\ q = Tail(s) /\ Len(q) = n /\ DOMAIN q = 1..n
                          /\ \A k \in 1..n : q[k] = s[k + 1]
  <2>1. Tail(s) \in Seq(R) /\ Len(Tail(s)) = n
    BY <1>1, HeadTailProperties
  <2>2. \A k \in 1..n : Tail(s)[k] = s[k + 1]
    BY <2>1, HeadTailProperties
  <2>3. DOMAIN Tail(s) = 1..n
    BY <2>1
  <2>. QED
    BY <2>1, <2>2, <2>3, Zenon
<1>4. PICK u \in Seq(Seq(S)) : u = Pieces(w, q) /\ Len(u) = n
  <2>1. Pieces(w, q) \in Seq(Seq(S)) /\ Len(Pieces(w, q)) = Len(q)
    BY PiecesType
  <2>. QED
    BY <1>3, <2>1
<1>5. t # <<>> /\ Head(t) = w[Head(s)]
  <2>1. 1 \in DOMAIN s /\ Head(s) = s[1]
    BY <1>1
  <2>2. t[1] = w[s[1]]
    BY <1>2, <2>1 DEF Pieces
  <2>. QED
    BY <1>2, <2>1, <2>2
<1>6. Tail(t) = u
  <2>1. /\ Tail(t) \in Seq(Seq(S)) /\ Len(Tail(t)) = n
        /\ \A k \in 1..n : Tail(t)[k] = t[k + 1]
    BY <1>2, <1>5, HeadTailProperties
  <2>2. \A k \in 1..n : u[k] = Tail(t)[k]
    <3>. TAKE k \in 1..n
    <3>1. Tail(t)[k] = t[k + 1] /\ k + 1 \in DOMAIN s
      BY <1>1, <2>1
    <3>2. t[k + 1] = w[s[k + 1]]
      BY <1>2, <3>1 DEF Pieces
    <3>3. u[k] = w[q[k]] /\ q[k] = s[k + 1]
      BY <1>3, <1>4 DEF Pieces
    <3>. QED
      BY <3>1, <3>2, <3>3
  <2>. QED
    BY <1>4, <2>1, <2>2, SeqEqual
<1>7. FlattenSeq(t) = Head(t) \o FlattenSeq(Tail(t))
  BY <1>5, FlattenHeadTail
<1>. QED
  BY <1>2, <1>3, <1>4, <1>5, <1>6, <1>7 DEF FlatMap

-----------------------------------------------------------------------------
(***************************************************************************)
(* A loop: its variable begins with b, and its k-th turn makes of v what   *)
(* the function f gives for v and k.                                       *)
(***************************************************************************)

Turn(f, b, v, k) == IF k = 0 THEN b ELSE f[<<v[k - 1], k>>]

Loop(f, b, n, v) == v = [k \in 0..n |-> Turn(f, b, v, k)]

LEMMA LoopExists ==
    ASSUME NEW T, NEW b \in T, NEW f \in [T \X Nat -> T], NEW n \in Nat
    PROVE  \E v : Loop(f, b, n, v)
<1>. DEFINE N == {k \in Nat : \E v \in [0..k -> T] : Loop(f, b, k, v)}
<1>1. 0 \in N
  <2>1. [k \in 0..0 |-> b] \in [0..0 -> T]
    OBVIOUS
  <2>2. PICK v \in [0..0 -> T] : v = [k \in 0..0 |-> b]
    BY <2>1
  <2>3. Loop(f, b, 0, v)
    BY <2>2 DEF Loop, Turn
  <2>. QED
    BY <2>3
<1>2. ASSUME NEW k \in Nat, k \in N
      PROVE  k + 1 \in N
  <2>1. PICK v \in [0..k -> T] : Loop(f, b, k, v)
    BY <1>2
  <2>2. PICK t \in T : t = f[<<v[k], k + 1>>]
    <3>1. v[k] \in T /\ k + 1 \in Nat
      OBVIOUS
    <3>. QED
      BY <3>1
  <2>3. PICK u \in [0..(k + 1) -> T] :
            u = [j \in 0..(k + 1) |-> IF j = k + 1 THEN t ELSE v[j]]
    <3>1. \A j \in 0..(k + 1) : (IF j = k + 1 THEN t ELSE v[j]) \in T
      OBVIOUS
    <3>. QED
      BY <3>1
  <2>4. ASSUME NEW j \in 0..(k + 1)
        PROVE  u[j] = Turn(f, b, u, j)
    <3>1. CASE j = k + 1
      <4>1. u[k + 1] = t /\ u[k] = v[k] /\ (k + 1) - 1 = k /\ k + 1 # 0
        BY <2>3
      <4>. QED
        BY <2>2, <3>1, <4>1 DEF Turn
    <3>2. CASE j # k + 1
      <4>1. j \in 0..k
        BY <3>2
      <4>2. v[j] = Turn(f, b, v, j)
        BY <2>1, <4>1, Zenon DEF Loop
      <4>3. u[j] = v[j] /\ (j # 0 => u[j - 1] = v[j - 1])
        BY <2>3, <4>1
      <4>. QED
        BY <4>2, <4>3 DEF Turn
    <3>. QED
      BY <3>1, <3>2
  <2>5. Loop(f, b, k + 1, u)
    BY <2>4 DEF Loop
  <2>. QED
    BY <2>5
<1>3. Nat \subseteq N
  <2>. HIDE DEF N
  <2>. QED
    BY <1>1, <1>2, SetInduction
<1>. QED
  BY <1>3

LEMMA LoopType ==
    ASSUME NEW T, NEW b \in T, NEW f \in [T \X Nat -> T], NEW n \in Nat,
           NEW v, Loop(f, b, n, v)
    PROVE  /\ v[0] = b
           /\ \A k \in 1..n : v[k] = f[<<v[k - 1], k>>]
           /\ \A k \in 0..n : v[k] \in T
<1>1. \A k \in 0..n : v[k] = Turn(f, b, v, k)
  BY Zenon DEF Loop
<1>2. v[0] = b
  <2>1. 0 \in 0..n
    OBVIOUS
  <2>. QED
    BY <1>1, <2>1, Zenon DEF Turn
<1>3. \A k \in 1..n : v[k] = f[<<v[k - 1], k>>]
  BY <1>1 DEF Turn
<1>. DEFINE N == {k \in Nat : k \in 0..n => v[k] \in T}
<1>4. 0 \in N
  BY <1>2
<1>5. ASSUME NEW k \in Nat, k \in N
      PROVE  k + 1 \in N
  <2>. SUFFICES ASSUME k + 1 \in 0..n PROVE v[k + 1] \in T
    OBVIOUS
  <2>1. v[k] \in T
    BY <1>5
  <2>2. k + 1 \in 1..n /\ (k + 1) - 1 = k /\ k + 1 \in Nat
    OBVIOUS
  <2>3. v[k + 1] = f[<<v[k], k + 1>>]
    BY <1>3, <2>2
  <2>. QED
    BY <2>1, <2>2, <2>3
<1>6. Nat \subseteq N
  <2>. HIDE DEF N
  <2>. QED
    BY <1>4, <1>5, SetInduction
<1>. QED
  BY <1>2, <1>3, <1>6
=============================================================================

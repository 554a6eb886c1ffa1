------------------------ MODULE RtpPacketizerProofs ------------------------
(* Proofs about RtpPacketizer, for every MTU, set of access units, refresh    *)
(* interval and sequence number width.                                        *)
EXTENDS RtpPacketizer, SequenceTheorems, FiniteSetTheorems, WellFoundedInduction, TLAPS

-----------------------------------------------------------------------------
(* Induction, with the set of what is proved in place of a predicate.          *)
LEMMA UpTo ==
  ASSUME NEW n \in Nat, NEW T, 0 \in T, \A m \in Nat : m \in T /\ m < n => m + 1 \in T
  PROVE  n \in T
<1> SUFFICES ASSUME n \notin T PROVE FALSE
  OBVIOUS
<1> DEFINE Bad == {m \in Nat : m \notin T /\ m <= n}
<1>1. Bad \subseteq Nat /\ Bad # {}
  OBVIOUS
<1>2. PICK x \in Bad : \A y \in Bad : ~(<<y, x>> \in OpToRel(<, Nat))
  BY <1>1, NatLessThanWellFounded, WFMin
<1>3. \A y \in Bad : ~(y < x)
  BY <1>1, <1>2 DEF OpToRel
<1>4. x \in Nat /\ x # 0 /\ x <= n
  BY <1>2
<1>5. x - 1 \in Nat /\ x - 1 < n
  BY <1>4
<1>6. x - 1 \in T
  BY <1>3, <1>4, <1>5
<1>7. (x - 1) + 1 = x
  BY <1>4
<1>8. x \in T
  BY <1>5, <1>6, <1>7
<1> QED
  BY <1>2, <1>8

(* The largest of some numbers up to n.                                        *)
LEMMA MaxExists ==
  ASSUME NEW n \in Nat, NEW S, S \subseteq 1..n, S # {}
  PROVE  Max(S) \in S /\ \A y \in S : y <= Max(S)
<1> DEFINE T == {m \in Nat : \A R \in SUBSET (1..m) : R # {} =>
                                \E x \in R : \A y \in R : y <= x}
<1>1. 0 \in T
  <2>1. \A R \in SUBSET (1..0) : R = {}
    OBVIOUS
  <2> QED
    BY <2>1
<1>2. ASSUME NEW m \in Nat, m \in T PROVE m + 1 \in T
  <2> SUFFICES ASSUME NEW R \in SUBSET (1..(m + 1)), R # {}
               PROVE  \E x \in R : \A y \in R : y <= x
    OBVIOUS
  <2>1. CASE m + 1 \in R
    BY <2>1
  <2>2. CASE m + 1 \notin R
    <3>1. R \in SUBSET (1..m)
      BY <2>2
    <3> QED
      BY <1>2, <3>1
  <2> QED
    BY <2>1, <2>2
<1>3. n \in T
  <2> HIDE DEF T
  <2> QED
    BY <1>1, <1>2, UpTo
<1>4. \E x \in S : \A y \in S : x >= y
  BY <1>3
<1> QED
  BY <1>4, Zenon DEF Max

LEMMA MaxPrefix == ASSUME NEW n \in Nat PROVE Max(1..(n + 1)) = n + 1
<1>1. 1..(n + 1) # {} /\ n + 1 \in 1..(n + 1) /\ n + 1 \in Nat
  OBVIOUS
<1>2. Max(1..(n + 1)) \in 1..(n + 1) /\ n + 1 <= Max(1..(n + 1))
  BY <1>1, MaxExists
<1> QED
  BY <1>2

-----------------------------------------------------------------------------
(* Folds over sequences.  The community modules fold a sequence by a recursive   *)
(* function of sets of indices, which takes the largest index first.  F is what   *)
(* is folded, as a function of pairs.                                            *)
Folds(g, F, base, s) ==
  \A S \in SUBSET (1..Len(s)) :
    g[S] = IF S = {} THEN base ELSE F[<<g[S \ {Max(S)}], s[Max(S)]>>]

LEMMA Smaller ==
  ASSUME NEW n \in Nat, NEW S \in SUBSET (1..n), S # {}
  PROVE  Max(S) \in 1..n /\ S \ {Max(S)} \in SUBSET (1..n)
         /\ \A m \in Nat : S \in SUBSET (1..(m + 1)) => S \ {Max(S)} \in SUBSET (1..m)
<1>1. Max(S) \in S /\ \A y \in S : y <= Max(S)
  BY MaxExists
<1>2. Max(S) \in 1..n /\ S \ {Max(S)} \in SUBSET (1..n)
  BY <1>1
<1>3. ASSUME NEW m \in Nat, S \in SUBSET (1..(m + 1)) PROVE S \ {Max(S)} \in SUBSET (1..m)
  <2>1. ASSUME NEW y \in S \ {Max(S)} PROVE y \in 1..m
    <3>1. y \in 1..(m + 1) /\ Max(S) \in 1..(m + 1) /\ y <= Max(S) /\ y # Max(S)
      BY <1>1, <1>3, <2>1
    <3> QED
      BY <3>1
  <2> QED
    BY <2>1
<1> QED
  BY <1>2, <1>3

LEMMA FoldExists ==
  ASSUME NEW A, NEW X, NEW F \in [A \X X -> A], NEW base \in A, NEW s \in Seq(X)
  PROVE  \E g \in [SUBSET (1..Len(s)) -> A] : Folds(g, F, base, s)
<1> DEFINE n == Len(s)
           Upto(g, m) == \A S \in SUBSET (1..m) :
                           g[S] = IF S = {} THEN base ELSE F[<<g[S \ {Max(S)}], s[Max(S)]>>]
           T == {m \in Nat : m <= n => \E g \in [SUBSET (1..m) -> A] : Upto(g, m)}
<1>0. n \in Nat /\ \A i \in 1..n : s[i] \in X
  BY ElementOfSeq, LenProperties
<1>1. 0 \in T
  <2> DEFINE g == [S \in SUBSET (1..0) |-> base]
  <2>1. g \in [SUBSET (1..0) -> A] /\ \A S \in SUBSET (1..0) : S = {} /\ g[S] = base
    OBVIOUS
  <2> QED
    BY <2>1
<1>2. ASSUME NEW m \in Nat, m \in T, m < n PROVE m + 1 \in T
  <2>0. m <= n
    BY <1>0, <1>2
  <2>1. PICK g \in [SUBSET (1..m) -> A] : Upto(g, m)
    BY <1>2, <2>0
  <2> DEFINE h == [S \in SUBSET (1..(m + 1)) |->
                     IF m + 1 \in S THEN F[<<g[S \ {m + 1}], s[m + 1]>>] ELSE g[S]]
  <2>2. m + 1 \in 1..n /\ s[m + 1] \in X
    BY <1>0, <1>2
  <2>3. ASSUME NEW S \in SUBSET (1..(m + 1))
        PROVE  S \ {m + 1} \in SUBSET (1..m) /\ (m + 1 \notin S => S \in SUBSET (1..m))
    <3>1. \A y \in S : y # m + 1 => y \in 1..m
      OBVIOUS
    <3> QED
      BY <3>1
  <2>4. ASSUME NEW S \in SUBSET (1..(m + 1)), m + 1 \in S PROVE Max(S) = m + 1
    <3>1. m + 1 \in Nat /\ S # {}
      BY <2>4
    <3>2. Max(S) \in S /\ m + 1 <= Max(S)
      BY <2>4, <3>1, MaxExists
    <3>3. Max(S) \in 1..(m + 1)
      BY <3>2
    <3> QED
      BY <3>2, <3>3
  <2>5. h \in [SUBSET (1..(m + 1)) -> A]
    <3>1. ASSUME NEW S \in SUBSET (1..(m + 1)), m + 1 \in S
          PROVE  F[<<g[S \ {m + 1}], s[m + 1]>>] \in A
      <4>1. <<g[S \ {m + 1}], s[m + 1]>> \in A \X X
        BY <2>2, <2>3, <3>1
      <4> QED
        BY <4>1
    <3>2. ASSUME NEW S \in SUBSET (1..(m + 1)), m + 1 \notin S PROVE g[S] \in A
      BY <2>3, <3>2
    <3> QED
      BY <3>1, <3>2
  <2>6. ASSUME NEW S \in SUBSET (1..(m + 1))
        PROVE  h[S] = IF S = {} THEN base ELSE F[<<h[S \ {Max(S)}], s[Max(S)]>>]
    <3>1. CASE m + 1 \in S
      <4>1. Max(S) = m + 1 /\ S \ {m + 1} \in SUBSET (1..(m + 1)) /\ S # {}
        BY <2>4, <3>1
      <4>2. h[S \ {m + 1}] = g[S \ {m + 1}]
        BY <4>1
      <4> QED
        BY <3>1, <4>1, <4>2
    <3>2. CASE m + 1 \notin S /\ S # {}
      <4>1. S \in SUBSET (1..m) /\ S \ {Max(S)} \in SUBSET (1..(m + 1))
            /\ m + 1 \notin S \ {Max(S)}
        BY <2>3, <3>2
      <4>2. h[S] = g[S] /\ h[S \ {Max(S)}] = g[S \ {Max(S)}]
        BY <3>2, <4>1
      <4>3. g[S] = F[<<g[S \ {Max(S)}], s[Max(S)]>>]
        BY <2>1, <3>2, <4>1
      <4> QED
        BY <3>2, <4>2, <4>3
    <3>3. CASE S = {}
      <4>1. h[S] = g[S] /\ g[S] = base
        BY <2>1, <3>3
      <4> QED
        BY <3>3, <4>1
    <3> QED
      BY <3>1, <3>2, <3>3
  <2>7. Upto(h, m + 1)
    BY <2>6
  <2> HIDE DEF h
  <2>8. \E f \in [SUBSET (1..(m + 1)) -> A] : Upto(f, m + 1)
    BY <2>5, <2>7, Zenon
  <2> HIDE DEF Upto
  <2> QED
    BY <2>8
<1>3. n \in T
  <2> HIDE DEF T, n
  <2> QED
    BY <1>0, <1>1, <1>2, UpTo
<1>4. \E g \in [SUBSET (1..n) -> A] : Upto(g, n)
  <2>1. n <= n
    BY <1>0
  <2> HIDE DEF Upto, n
  <2> QED
    BY <1>3, <2>1
<1> QED
  BY <1>4, Zenon DEF Folds

LEMMA SameFold ==
  ASSUME NEW n \in Nat, NEW g, NEW h, g[{}] = h[{}],
         \A S \in SUBSET (1..n) :
           S # {} /\ g[S \ {Max(S)}] = h[S \ {Max(S)}] => g[S] = h[S]
  PROVE  g[1..n] = h[1..n]
<1> DEFINE T == {m \in Nat : m <= n => \A S \in SUBSET (1..m) : g[S] = h[S]}
<1>1. 0 \in T
  <2>1. \A S \in SUBSET (1..0) : S = {}
    OBVIOUS
  <2> QED
    BY <2>1
<1>2. ASSUME NEW m \in Nat, m \in T, m < n PROVE m + 1 \in T
  <2> SUFFICES ASSUME NEW S \in SUBSET (1..(m + 1)), S # {} PROVE g[S] = h[S]
    OBVIOUS
  <2>1. m <= n /\ m + 1 \in Nat
    BY <1>2
  <2>2. S \ {Max(S)} \in SUBSET (1..m)
    BY <2>1, Smaller
  <2>3. g[S \ {Max(S)}] = h[S \ {Max(S)}]
    BY <1>2, <2>1, <2>2
  <2>4. S \in SUBSET (1..n)
    BY <1>2
  <2> QED
    BY <2>3, <2>4
<1>3. n \in T
  <2> HIDE DEF T
  <2> QED
    BY <1>1, <1>2, UpTo
<1> QED
  BY <1>3

(* y is the fold of s by F.                                                    *)
IsFold(y, F, base, A, s) ==
  \E g \in [SUBSET (1..Len(s)) -> A] : Folds(g, F, base, s) /\ y = g[1..Len(s)]

LEMMA FoldEmpty ==
  ASSUME NEW A, NEW F, NEW base, NEW y, IsFold(y, F, base, A, << >>)
  PROVE  y = base
<1>1. 1..Len(<< >>) = {}
  BY EmptySeq
<1> QED
  BY <1>1 DEF IsFold, Folds

LEMMA FoldAppend ==
  ASSUME NEW A, NEW X, NEW F, NEW base, NEW s \in Seq(X), NEW x \in X, NEW y, NEW z,
         IsFold(y, F, base, A, s), IsFold(z, F, base, A, Append(s, x))
  PROVE  y \in A /\ z = F[<<y, x>>]
<1> DEFINE n == Len(s)
<1>1. /\ n \in Nat /\ Len(Append(s, x)) = n + 1 /\ Append(s, x)[n + 1] = x
      /\ \A i \in 1..n : Append(s, x)[i] = s[i]
  BY LenProperties, AppendProperties
<1>2. PICK g \in [SUBSET (1..n) -> A] : Folds(g, F, base, s) /\ y = g[1..n]
  BY DEF IsFold
<1>3. PICK h : Folds(h, F, base, Append(s, x)) /\ z = h[1..(n + 1)]
  BY <1>1 DEF IsFold
<1>4. g[1..n] = h[1..n]
  <2>1. SUBSET (1..n) \subseteq SUBSET (1..Len(Append(s, x))) /\ {} \in SUBSET (1..n)
    BY <1>1
  <2>2. g[{}] = h[{}]
    BY <1>2, <1>3, <2>1 DEF Folds
  <2>3. ASSUME NEW S \in SUBSET (1..n), S # {}, g[S \ {Max(S)}] = h[S \ {Max(S)}]
        PROVE  g[S] = h[S]
    <3>1. Max(S) \in 1..n
      BY <1>1, <2>3, Smaller
    <3>2. g[S] = F[<<g[S \ {Max(S)}], s[Max(S)]>>]
      BY <1>2, <2>3 DEF Folds
    <3>3. h[S] = F[<<h[S \ {Max(S)}], Append(s, x)[Max(S)]>>]
      BY <1>3, <2>1, <2>3 DEF Folds
    <3> QED
      BY <1>1, <2>3, <3>1, <3>2, <3>3
  <2> HIDE DEF n
  <2> QED
    BY <1>1, <2>2, <2>3, SameFold
<1>5. h[1..(n + 1)] = F[<<h[1..n], x>>]
  <2>1. 1..(n + 1) \in SUBSET (1..Len(Append(s, x))) /\ 1..(n + 1) # {}
    <3>1. n + 1 \in 1..(n + 1)
      BY <1>1
    <3>2. 1..(n + 1) \in SUBSET (1..Len(Append(s, x)))
      BY <1>1
    <3> QED
      BY <3>1, <3>2
  <2>2. Max(1..(n + 1)) = n + 1
    BY <1>1, MaxPrefix
  <2>3. (1..(n + 1)) \ {n + 1} = 1..n
    BY <1>1
  <2>4. h[1..(n + 1)] = F[<<h[(1..(n + 1)) \ {n + 1}], Append(s, x)[n + 1]>>]
    BY <1>3, <2>1, <2>2 DEF Folds
  <2> QED
    BY <1>1, <2>3, <2>4
<1> QED
  BY <1>2, <1>3, <1>4, <1>5

(* What a recursion over sets of indices computes is the fold.                  *)
LEMMA IsTheFold ==
  ASSUME NEW A, NEW X, NEW F \in [A \X X -> A], NEW base \in A, NEW s \in Seq(X), NEW h,
         h[{}] = base,
         \A S \in SUBSET (1..Len(s)) :
           S # {} /\ h[S \ {Max(S)}] \in A
          => h[S] = F[<<h[S \ {Max(S)}], s[Max(S)]>>]
  PROVE  IsFold(h[1..Len(s)], F, base, A, s)
<1> DEFINE n == Len(s)
<1>1. n \in Nat
  BY LenProperties
<1>2. PICK g \in [SUBSET (1..n) -> A] : Folds(g, F, base, s)
  BY FoldExists
<1>3. g[{}] = h[{}]
  BY <1>2 DEF Folds
<1>4. ASSUME NEW S \in SUBSET (1..n), S # {}, g[S \ {Max(S)}] = h[S \ {Max(S)}]
      PROVE  g[S] = h[S]
  <2>1. S \ {Max(S)} \in SUBSET (1..n)
    BY <1>4
  <2>2. h[S \ {Max(S)}] \in A
    BY <1>2, <1>4, <2>1
  <2>3. h[S] = F[<<h[S \ {Max(S)}], s[Max(S)]>>]
    BY <1>4, <2>2
  <2>4. g[S] = F[<<g[S \ {Max(S)}], s[Max(S)]>>]
    BY <1>2, <1>4 DEF Folds
  <2> QED
    BY <1>4, <2>3, <2>4
<1>5. g[1..n] = h[1..n]
  <2> HIDE DEF n
  <2> QED
    BY <1>1, <1>3, <1>4, SameFold
<1> QED
  BY <1>2, <1>5, Zenon DEF IsFold

-----------------------------------------------------------------------------
(* The three folds of the model.  The records of a sequence with one of some     *)
(* values,                                                                       *)
Keep(X, field, values) ==
  [z \in Seq(X) \X X |-> IF z[2][field] \in values THEN Append(z[1], z[2]) ELSE z[1]]

LEMMA OnlyFolds ==
  ASSUME NEW X, NEW s \in Seq(X), NEW field, NEW values
  PROVE  IsFold(Only(s, field, values), Keep(X, field, values), << >>, Seq(X), s)
<1> DEFINE n == Len(s)
           Op(a, x) == IF x[field] \in values THEN Append(a, x) ELSE a
           Eq(h) == h = [S \in SUBSET (DOMAIN s) |->
                           IF S = {} THEN << >>
                           ELSE LET x == Max(S) IN Op(h[S \ {x}], s[x])]
<1>1. n \in Nat /\ DOMAIN s = 1..n /\ \A i \in 1..n : s[i] \in X
  BY LenProperties, ElementOfSeq
<1>2. Keep(X, field, values) \in [Seq(X) \X X -> Seq(X)] /\ << >> \in Seq(X)
  BY AppendProperties, EmptySeq DEF Keep
<1>3. ASSUME NEW a \in Seq(X), NEW x \in X PROVE Op(a, x) = Keep(X, field, values)[<<a, x>>]
  BY DEF Keep
<1>4. PICK g \in [SUBSET (1..n) -> Seq(X)] : Folds(g, Keep(X, field, values), << >>, s)
  BY <1>2, FoldExists
<1>5. Eq(g)
  <2>1. g = [S \in SUBSET (1..n) |-> g[S]]
    OBVIOUS
  <2>2. ASSUME NEW S \in SUBSET (1..n)
        PROVE  g[S] = IF S = {} THEN << >> ELSE Op(g[S \ {Max(S)}], s[Max(S)])
    <3> HIDE DEF Op
    <3>1. S # {} => g[S \ {Max(S)}] \in Seq(X) /\ s[Max(S)] \in X
      BY <1>1, Smaller
    <3>2. S # {} =>
            Op(g[S \ {Max(S)}], s[Max(S)])
              = Keep(X, field, values)[<<g[S \ {Max(S)}], s[Max(S)]>>]
      BY <1>3, <3>1
    <3> QED
      BY <1>4, <3>2 DEF Folds
  <2> HIDE DEF Op
  <2> QED
    BY <1>1, <2>1, <2>2
<1> DEFINE h == CHOOSE h : Eq(h)
<1>6. Eq(h)
  <2> HIDE DEF Eq
  <2> QED
    BY <1>5
<1>7. Only(s, field, values) = h[1..n]
  BY <1>1, Zenon DEF Only, FoldLeft, MapThenFoldSet
<1>8. h[{}] = << >>
      /\ \A S \in SUBSET (1..n) : S # {} =>
           h[S] = Op(h[S \ {Max(S)}], s[Max(S)])
  <2> HIDE DEF h, Op
  <2> QED
    BY <1>1, <1>6
<1>9. \A S \in SUBSET (1..n) :
        S # {} /\ h[S \ {Max(S)}] \in Seq(X)
          => h[S] = Keep(X, field, values)[<<h[S \ {Max(S)}], s[Max(S)]>>]
  <2> HIDE DEF h, Op
  <2> QED
    BY <1>1, <1>3, <1>8, Smaller
<1>10. IsFold(h[1..n], Keep(X, field, values), << >>, Seq(X), s)
  <2> HIDE DEF h, Op
  <2> QED
    BY <1>2, <1>8, <1>9, IsTheFold
<1> QED
  BY <1>7, <1>10, Zenon

(* the state of a receiver,                                                      *)
Receivers == [ok : BOOLEAN, open : Int, done : Seq(Int)]
NewReceiver == [ok |-> TRUE, open |-> 0, done |-> << >>]
Accepting == [z \in Receivers \X PacketType |-> Accept(z[1], z[2])]

LEMMA AcceptType ==
  ASSUME NEW r \in Receivers, NEW p \in PacketType
  PROVE  Accept(r, p) \in Receivers
<1>1. p.size - HeaderSize \in Int /\ p.size - HeaderSize - 2 \in Int
  BY DEF PacketType, HeaderSize
<1>2. p.type \in {"stap", "single", "fu"} /\ p.start \in BOOLEAN /\ p.end \in BOOLEAN
  BY DEF PacketType
<1>3. r.ok \in BOOLEAN /\ r.open \in Int /\ r.done \in Seq(Int)
  BY DEF Receivers
<1>4. CASE p.type = "stap"
  BY <1>3, <1>4 DEF Accept, Receivers
<1>5. CASE p.type = "single"
  <2>1. Append(r.done, p.size - HeaderSize) \in Seq(Int)
    BY <1>1, <1>3, AppendProperties
  <2>2. Accept(r, p) = [r EXCEPT !.ok = r.ok /\ r.open = 0,
                                 !.done = Append(r.done, p.size - HeaderSize)]
    BY <1>5, Zenon DEF Accept
  <2> QED
    BY <1>3, <2>1, <2>2 DEF Receivers
<1>6. CASE p.type = "fu"
  <2> DEFINE payload == p.size - HeaderSize - 2
             total == payload + IF p.start THEN 1 ELSE r.open
  <2>1. total \in Int
    BY <1>1, <1>3
  <2> HIDE DEF total, payload
  <2>2. Append(r.done, total) \in Seq(Int)
    BY <1>3, <2>1, AppendProperties
  <2>3. Accept(r, p) = [ok |-> r.ok /\ p.start = (r.open = 0) /\ ~(p.start /\ p.end) /\ payload > 0,
              open |-> IF p.end THEN 0 ELSE total,
              done |-> IF p.end THEN Append(r.done, total) ELSE r.done]
    BY <1>6, Zenon DEF Accept, total, payload
  <2> QED
    BY <1>3, <2>1, <2>2, <2>3 DEF Receivers
<1> QED
  BY <1>2, <1>4, <1>5, <1>6

LEMMA AcceptFolds ==
  ASSUME NEW s \in Seq(PacketType)
  PROVE  IsFold(Depacketize(s), Accepting, NewReceiver, Receivers, s)
<1> DEFINE n == Len(s)
           Op(a, x) == Accept(a, x)
           Eq(h) == h = [S \in SUBSET (DOMAIN s) |->
                           IF S = {} THEN NewReceiver
                           ELSE LET x == Max(S) IN Op(h[S \ {x}], s[x])]
<1>1. n \in Nat /\ DOMAIN s = 1..n /\ \A i \in 1..n : s[i] \in PacketType
  BY LenProperties, ElementOfSeq
<1>2. Accepting \in [Receivers \X PacketType -> Receivers] /\ NewReceiver \in Receivers
  BY AcceptType, EmptySeq DEF Accepting, NewReceiver, Receivers
<1>3. ASSUME NEW a \in Receivers, NEW x \in PacketType PROVE Op(a, x) = Accepting[<<a, x>>]
  BY DEF Accepting
<1>4. PICK g \in [SUBSET (1..n) -> Receivers] : Folds(g, Accepting, NewReceiver, s)
  BY <1>2, FoldExists
<1>5. Eq(g)
  <2>1. g = [S \in SUBSET (1..n) |-> g[S]]
    OBVIOUS
  <2>2. ASSUME NEW S \in SUBSET (1..n)
        PROVE  g[S] = IF S = {} THEN NewReceiver ELSE Op(g[S \ {Max(S)}], s[Max(S)])
    <3> HIDE DEF Op
    <3>1. S # {} => g[S \ {Max(S)}] \in Receivers /\ s[Max(S)] \in PacketType
      BY <1>1, Smaller
    <3>2. S # {} => Op(g[S \ {Max(S)}], s[Max(S)]) = Accepting[<<g[S \ {Max(S)}], s[Max(S)]>>]
      BY <1>3, <3>1
    <3> QED
      BY <1>4, <3>2 DEF Folds
  <2> HIDE DEF Op
  <2> QED
    BY <1>1, <2>1, <2>2
<1> DEFINE h == CHOOSE h : Eq(h)
<1>6. Eq(h)
  <2> HIDE DEF Eq
  <2> QED
    BY <1>5
<1>7. Depacketize(s) = h[1..n]
  BY <1>1, Zenon DEF Depacketize, NewReceiver, FoldLeft, MapThenFoldSet
<1>8. h[{}] = NewReceiver
      /\ \A S \in SUBSET (1..n) : S # {} =>
           h[S] = Op(h[S \ {Max(S)}], s[Max(S)])
  <2> HIDE DEF h, Op
  <2> QED
    BY <1>1, <1>6
<1>9. \A S \in SUBSET (1..n) :
        S # {} /\ h[S \ {Max(S)}] \in Receivers
          => h[S] = Accepting[<<h[S \ {Max(S)}], s[Max(S)]>>]
  <2> HIDE DEF h, Op
  <2> QED
    BY <1>1, <1>3, <1>8, Smaller
<1>10. IsFold(h[1..n], Accepting, NewReceiver, Receivers, s)
  <2> HIDE DEF h, Op
  <2> QED
    BY <1>2, <1>8, <1>9, IsTheFold
<1> QED
  BY <1>7, <1>10, Zenon

(* and the packets offered to UDP with each aggregate doubled.                     *)
Doubling == [z \in Seq(PacketType) \X PacketType |-> Doubled(z[1], z[2])]
Twice(s) == FoldLeft(Doubled, << >>, s)

LEMMA DoubledType ==
  ASSUME NEW s \in Seq(PacketType), NEW p \in PacketType
  PROVE  Doubled(s, p) \in Seq(PacketType)
<1>1. <<p, p>> \in Seq(PacketType)
  OBVIOUS
<1> HIDE DEF PacketType
<1>2. s \o <<p, p>> \in Seq(PacketType)
  BY <1>1, ConcatProperties
<1> QED
  BY <1>2, AppendProperties DEF Doubled

LEMMA DoubleFolds ==
  ASSUME NEW s \in Seq(PacketType)
  PROVE  IsFold(Twice(s), Doubling, << >>, Seq(PacketType), s)
<1> DEFINE n == Len(s)
           Op(a, x) == Doubled(a, x)
           Eq(h) == h = [S \in SUBSET (DOMAIN s) |->
                           IF S = {} THEN << >>
                           ELSE LET x == Max(S) IN Op(h[S \ {x}], s[x])]
<1>1. n \in Nat /\ DOMAIN s = 1..n /\ \A i \in 1..n : s[i] \in PacketType
  BY LenProperties, ElementOfSeq
<1>2. Doubling \in [Seq(PacketType) \X PacketType -> Seq(PacketType)] /\ << >> \in Seq(PacketType)
  BY DoubledType, EmptySeq DEF Doubling
<1>3. ASSUME NEW a \in Seq(PacketType), NEW x \in PacketType PROVE Op(a, x) = Doubling[<<a, x>>]
  BY DEF Doubling
<1>4. PICK g \in [SUBSET (1..n) -> Seq(PacketType)] : Folds(g, Doubling, << >>, s)
  BY <1>2, FoldExists
<1>5. Eq(g)
  <2>1. g = [S \in SUBSET (1..n) |-> g[S]]
    OBVIOUS
  <2>2. ASSUME NEW S \in SUBSET (1..n)
        PROVE  g[S] = IF S = {} THEN << >> ELSE Op(g[S \ {Max(S)}], s[Max(S)])
    <3> HIDE DEF Op
    <3>1. S # {} => g[S \ {Max(S)}] \in Seq(PacketType) /\ s[Max(S)] \in PacketType
      BY <1>1, Smaller
    <3>2. S # {} => Op(g[S \ {Max(S)}], s[Max(S)]) = Doubling[<<g[S \ {Max(S)}], s[Max(S)]>>]
      BY <1>3, <3>1
    <3> QED
      BY <1>4, <3>2 DEF Folds
  <2> HIDE DEF Op
  <2> QED
    BY <1>1, <2>1, <2>2
<1> DEFINE h == CHOOSE h : Eq(h)
<1>6. Eq(h)
  <2> HIDE DEF Eq
  <2> QED
    BY <1>5
<1>7. Twice(s) = h[1..n]
  BY <1>1, Zenon DEF Twice, FoldLeft, MapThenFoldSet
<1>8. h[{}] = << >>
      /\ \A S \in SUBSET (1..n) : S # {} =>
           h[S] = Op(h[S \ {Max(S)}], s[Max(S)])
  <2> HIDE DEF h, Op
  <2> QED
    BY <1>1, <1>6
<1>9. \A S \in SUBSET (1..n) :
        S # {} /\ h[S \ {Max(S)}] \in Seq(PacketType)
          => h[S] = Doubling[<<h[S \ {Max(S)}], s[Max(S)]>>]
  <2> HIDE DEF h, Op
  <2> QED
    BY <1>1, <1>3, <1>8, Smaller
<1>10. IsFold(h[1..n], Doubling, << >>, Seq(PacketType), s)
  <2> HIDE DEF h, Op
  <2> QED
    BY <1>2, <1>8, <1>9, IsTheFold
<1> QED
  BY <1>7, <1>10, Zenon

-----------------------------------------------------------------------------
(* What the folds of the empty sequence and of an appended one are.              *)
LEMMA OnlyEmpty == ASSUME NEW field, NEW values PROVE Only(<< >>, field, values) = << >>
<1>1. << >> \in Seq({})
  BY EmptySeq
<1>2. IsFold(Only(<< >>, field, values), Keep({}, field, values), << >>, Seq({}), << >>)
  BY <1>1, OnlyFolds
<1> QED
  BY <1>2, FoldEmpty

LEMMA OnlyAppend ==
  ASSUME NEW X, NEW s \in Seq(X), NEW x \in X, NEW field, NEW values
  PROVE  /\ Only(s, field, values) \in Seq(X)
         /\ Only(Append(s, x), field, values)
              = IF x[field] \in values THEN Append(Only(s, field, values), x)
                ELSE Only(s, field, values)
<1> DEFINE y == Only(s, field, values)
           z == Only(Append(s, x), field, values)
<1>1. Append(s, x) \in Seq(X)
  BY AppendProperties
<1>2. /\ IsFold(y, Keep(X, field, values), << >>, Seq(X), s)
      /\ IsFold(z, Keep(X, field, values), << >>, Seq(X), Append(s, x))
  BY <1>1, OnlyFolds
<1>3. y \in Seq(X) /\ z = Keep(X, field, values)[<<y, x>>]
  <2> HIDE DEF y, z
  <2> QED
    BY <1>2, FoldAppend
<1> QED
  <2> HIDE DEF y, z
  <2>1. z = IF x[field] \in values THEN Append(y, x) ELSE y
    BY <1>3 DEF Keep
  <2> QED
    BY <1>3, <2>1 DEF y, z

LEMMA OnlyKeeps ==
  ASSUME NEW X, NEW s \in Seq(X), NEW x \in X, NEW field, NEW values, x[field] \in values
  PROVE  Only(Append(s, x), field, values) = Append(Only(s, field, values), x)
BY OnlyAppend

LEMMA OnlyDrops ==
  ASSUME NEW X, NEW s \in Seq(X), NEW x \in X, NEW field, NEW values, x[field] \notin values
  PROVE  Only(Append(s, x), field, values) = Only(s, field, values)
BY OnlyAppend

LEMMA DepacketizeEmpty == Depacketize(<< >>) = NewReceiver
<1>1. << >> \in Seq(PacketType)
  BY EmptySeq
<1>2. IsFold(Depacketize(<< >>), Accepting, NewReceiver, Receivers, << >>)
  BY <1>1, AcceptFolds
<1> QED
  BY <1>2, FoldEmpty

LEMMA DepacketizeAppend ==
  ASSUME NEW s \in Seq(PacketType), NEW p \in PacketType
  PROVE  /\ Depacketize(s) \in Receivers
         /\ Depacketize(Append(s, p)) = Accept(Depacketize(s), p)
<1>1. Append(s, p) \in Seq(PacketType)
  BY AppendProperties
<1>2. /\ IsFold(Depacketize(s), Accepting, NewReceiver, Receivers, s)
      /\ IsFold(Depacketize(Append(s, p)), Accepting, NewReceiver, Receivers, Append(s, p))
  BY <1>1, AcceptFolds
<1>3. /\ Depacketize(s) \in Receivers
      /\ Depacketize(Append(s, p)) = Accepting[<<Depacketize(s), p>>]
  BY <1>2, FoldAppend
<1> QED
  BY <1>3 DEF Accepting

LEMMA DoubleEmpty == Twice(<< >>) = << >>
<1>1. << >> \in Seq(PacketType)
  BY EmptySeq
<1>2. IsFold(Twice(<< >>), Doubling, << >>, Seq(PacketType), << >>)
  BY <1>1, DoubleFolds
<1> QED
  BY <1>2, FoldEmpty

LEMMA DoubleAppend ==
  ASSUME NEW s \in Seq(PacketType), NEW p \in PacketType
  PROVE  /\ Twice(s) \in Seq(PacketType)
         /\ Twice(Append(s, p)) = Doubled(Twice(s), p)
<1>1. Append(s, p) \in Seq(PacketType)
  BY AppendProperties
<1>2. /\ IsFold(Twice(s), Doubling, << >>, Seq(PacketType), s)
      /\ IsFold(Twice(Append(s, p)), Doubling, << >>, Seq(PacketType), Append(s, p))
  BY <1>1, DoubleFolds
<1>3. /\ Twice(s) \in Seq(PacketType)
      /\ Twice(Append(s, p)) = Doubling[<<Twice(s), p>>]
  BY <1>2, FoldAppend
<1> QED
  BY <1>3 DEF Doubling

LEMMA OneMore ==
  ASSUME NEW X, NEW s \in Seq(X), NEW m \in Nat, m < Len(s)
  PROVE  /\ SubSeq(s, 1, m) \in Seq(X) /\ s[m + 1] \in X
         /\ SubSeq(s, 1, m + 1) = Append(SubSeq(s, 1, m), s[m + 1])
<1>1. Len(s) \in Nat /\ \A i \in 1..Len(s) : s[i] \in X
  BY LenProperties, ElementOfSeq
<1>2. m + 1 \in 1..Len(s) /\ \A i \in 1..m : s[i] \in X
  BY <1>1
<1>3. SubSeq(s, 1, m) \in Seq(X) /\ s[m + 1] \in X
  BY <1>1, <1>2, SubSeqProperties
<1>4. SubSeq(s, 1, m + 1) = Append(SubSeq(s, 1, m), s[m + 1])
  BY <1>1, <1>2
<1> QED
  BY <1>3, <1>4

(* The kept records, all of a sequence of X, have the field among the values.     *)
LEMMA OnlyType ==
  ASSUME NEW X, NEW s \in Seq(X), NEW field, NEW values
  PROVE  Only(s, field, values) \in Seq({x \in X : x[field] \in values})
<1> DEFINE n == Len(s)
           Y == {x \in X : x[field] \in values}
           K(m) == Only(SubSeq(s, 1, m), field, values)
           T == {m \in Nat : m <= n => K(m) \in Seq(Y)}
<1>1. n \in Nat
  BY LenProperties
<1>2. 0 \in T
  <2>1. SubSeq(s, 1, 0) = << >>
    BY SubSeqEmpty
  <2>2. K(0) \in Seq(Y)
    BY <2>1, OnlyEmpty, EmptySeq
  <2> HIDE DEF K, Y
  <2> QED
    BY <2>2
<1>3. ASSUME NEW m \in Nat, m \in T, m < n PROVE m + 1 \in T
  <2> DEFINE t == SubSeq(s, 1, m)
             x == s[m + 1]
  <2>1. t \in Seq(X) /\ x \in X /\ SubSeq(s, 1, m + 1) = Append(t, x)
    BY <1>3, OneMore
  <2>2. K(m) \in Seq(Y)
    BY <1>1, <1>3
  <2>3. K(m + 1) = IF x[field] \in values THEN Append(K(m), x) ELSE K(m)
    <3> HIDE DEF t, x
    <3>1. Only(Append(t, x), field, values) = IF x[field] \in values
               THEN Append(Only(t, field, values), x) ELSE Only(t, field, values)
      BY <2>1, OnlyAppend
    <3> QED
      BY <2>1, <3>1 DEF t
  <2>4. K(m + 1) \in Seq(Y)
    <3> HIDE DEF t, K
    <3>1. CASE x[field] \in values
      <4>1. x \in Y
        BY <2>1, <3>1
      <4> QED
        BY <2>2, <2>3, <3>1, <4>1, AppendProperties, SMTT(40)
    <3> QED
      BY <2>2, <2>3, <3>1
  <2> HIDE DEF K
  <2> QED
    BY <1>3, <2>4
<1>4. n \in T
  <2> HIDE DEF T, n
  <2> QED
    BY <1>1, <1>2, <1>3, UpTo
<1>5. K(n) \in Seq(Y)
  <2> HIDE DEF K, Y, n
  <2> QED
    BY <1>1, <1>4
<1>6. SubSeq(s, 1, n) = s
  BY SubSeqFull
<1> QED
  BY <1>5, <1>6

-----------------------------------------------------------------------------
(* Sums over finite sets.                                                        *)
LEMMA FiniteUpTo ==
  ASSUME NEW S, IsFiniteSet(S), NEW P, {} \in P,
         \A R \in SUBSET S, x \in S : x \notin R /\ R \in P => R \cup {x} \in P
  PROVE  S \in P
<1> DEFINE T == {m \in Nat : \A R \in SUBSET S : Cardinality(R) = m => R \in P}
<1>1. \A R \in SUBSET S : IsFiniteSet(R) /\ Cardinality(R) \in Nat
  BY FS_Subset, FS_CardinalityType
<1>2. 0 \in T
  BY <1>1, FS_EmptySet
<1>3. ASSUME NEW m \in Nat, m \in T PROVE m + 1 \in T
  <2> SUFFICES ASSUME NEW R \in SUBSET S, Cardinality(R) = m + 1 PROVE R \in P
    OBVIOUS
  <2>0. Cardinality({}) = 0 /\ m + 1 # 0
    BY FS_EmptySet
  <2>1. R # {}
    BY <2>0
  <2>2. PICK x \in R : TRUE
    BY <2>1
  <2>3. Cardinality(R \ {x}) = m
    <3>1. Cardinality(R \ {x}) = Cardinality(R) - 1
      BY <1>1, <2>2, FS_RemoveElement
    <3> QED
      BY <3>1
  <2>4. R \ {x} \in P
    BY <1>3, <2>3
  <2>5. (R \ {x}) \cup {x} = R
    BY <2>2
  <2>6. R \ {x} \in SUBSET S /\ x \in S /\ x \notin R \ {x}
    BY <2>2
  <2>7. (R \ {x}) \cup {x} \in P
    BY <2>4, <2>6
  <2> QED
    BY <2>5, <2>7
<1>4. Cardinality(S) \in T
  <2> HIDE DEF T
  <2> QED
    BY <1>1, <1>2, <1>3, UpTo
<1> QED
  BY <1>4

(* g sums f over the subsets of S, whatever the order.                           *)
Sums(g, f, S) ==
  /\ g[{}] = 0
  /\ \A R \in SUBSET S : g[R] \in Nat /\ \A x \in R : g[R] = f[x] + g[R \ {x}]

LEMMA SumsExist ==
  ASSUME NEW S, IsFiniteSet(S), NEW f, \A x \in S : f[x] \in Nat
  PROVE  \E g : Sums(g, f, S)
<1> DEFINE P == {R \in SUBSET S : \E g : Sums(g, f, R)}
<1>1. {} \in P
  <2>1. [R \in {{}} |-> 0][{}] = 0 /\ \A R \in SUBSET {} : R = {}
    OBVIOUS
  <2>2. Sums([R \in {{}} |-> 0], f, {})
    BY <2>1 DEF Sums
  <2> QED
    BY <2>2
<1>2. ASSUME NEW R \in SUBSET S, NEW x \in S, x \notin R, R \in P PROVE R \cup {x} \in P
  <2>1. PICK g : Sums(g, f, R)
    BY <1>2
  <2> DEFINE h == [Q \in SUBSET (R \cup {x}) |->
                     IF x \in Q THEN f[x] + g[Q \ {x}] ELSE g[Q]]
  <2>2. h[{}] = 0
    BY <2>1 DEF Sums
  <2>3. ASSUME NEW Q \in SUBSET (R \cup {x}), x \notin Q
        PROVE  h[Q] = g[Q] /\ Q \in SUBSET R
    BY <2>3
  <2>4. ASSUME NEW Q \in SUBSET (R \cup {x}), x \in Q
        PROVE  h[Q] = f[x] + g[Q \ {x}] /\ Q \ {x} \in SUBSET R
    BY <2>4
  <2> HIDE DEF h
  <2>5. ASSUME NEW Q \in SUBSET (R \cup {x})
        PROVE  h[Q] \in Nat /\ \A y \in Q : h[Q] = f[y] + h[Q \ {y}]
    <3>1. CASE x \notin Q
      <4>1. g[Q] \in Nat /\ \A y \in Q : g[Q] = f[y] + g[Q \ {y}]
        BY <2>1, <2>3, <3>1 DEF Sums
      <4>2. \A y \in Q : h[Q \ {y}] = g[Q \ {y}]
        BY <2>3, <3>1
      <4> QED
        BY <2>3, <3>1, <4>1, <4>2
    <3>2. CASE x \in Q
      <4>1. h[Q] = f[x] + g[Q \ {x}] /\ Q \ {x} \in SUBSET R /\ g[Q \ {x}] \in Nat
        BY <2>1, <2>4, <3>2 DEF Sums
      <4>2. h[Q] \in Nat
        BY <4>1
      <4>3. h[Q \ {x}] = g[Q \ {x}]
        BY <2>3
      <4>4. ASSUME NEW y \in Q, y # x PROVE h[Q] = f[y] + h[Q \ {y}]
        <5>1. g[Q \ {x}] = f[y] + g[(Q \ {x}) \ {y}]
          BY <2>1, <4>1, <4>4 DEF Sums
        <5>2. h[Q \ {y}] = f[x] + g[(Q \ {y}) \ {x}]
          BY <2>4, <3>2, <4>4
        <5>3. (Q \ {y}) \ {x} = (Q \ {x}) \ {y} /\ (Q \ {x}) \ {y} \in SUBSET R
          BY <4>1
        <5>4. g[(Q \ {x}) \ {y}] \in Nat /\ f[x] \in Nat /\ f[y] \in Nat
          BY <1>2, <2>1, <4>4, <5>3 DEF Sums
        <5>5. h[Q] = f[x] + (f[y] + g[(Q \ {x}) \ {y}])
          BY <4>1, <5>1
        <5>6. h[Q \ {y}] = f[x] + g[(Q \ {x}) \ {y}]
          BY <5>2, <5>3
        <5> HIDE DEF Sums
        <5> QED
          BY <5>4, <5>5, <5>6
      <4> QED
        BY <4>1, <4>2, <4>3, <4>4
    <3> QED
      BY <3>1, <3>2
  <2>6. Sums(h, f, R \cup {x})
    BY <2>2, <2>5 DEF Sums
  <2> QED
    BY <2>6
<1>3. S \in P
  <2> HIDE DEF P
  <2> QED
    BY <1>1, <1>2, FiniteUpTo
<1> QED
  BY <1>3

LEMMA SumIs ==
  ASSUME NEW S, IsFiniteSet(S), NEW f, NEW g, Sums(g, f, S)
  PROVE  SumFunctionOnSet(f, S) = g[S]
<1> DEFINE Pick(R) == CHOOSE x \in R : TRUE
           Eq(h) == h = [R \in SUBSET S |-> IF R = {} THEN 0
                                            ELSE LET x == Pick(R) IN f[x] + h[R \ {x}]]
           g0 == [R \in SUBSET S |-> g[R]]
           h == CHOOSE h : Eq(h)
<1>1. \A R \in SUBSET S : R # {} => Pick(R) \in R /\ R \ {Pick(R)} \in SUBSET S
  OBVIOUS
<1>2. Eq(g0)
  <2>1. ASSUME NEW R \in SUBSET S
        PROVE  g0[R] = IF R = {} THEN 0 ELSE f[Pick(R)] + g0[R \ {Pick(R)}]
    <3> HIDE DEF Pick
    <3> QED
      BY <1>1 DEF Sums
  <2> HIDE DEF Pick
  <2> QED
    BY <2>1
<1>3. Eq(h)
  <2> HIDE DEF Eq
  <2> QED
    BY <1>2
<1>4. SumFunctionOnSet(f, S) = h[S]
  BY Zenon DEF SumFunctionOnSet, FoldFunctionOnSet, MapThenFoldSet
<1>5. h[{}] = 0 /\ \A R \in SUBSET S : R # {} => h[R] = f[Pick(R)] + h[R \ {Pick(R)}]
  <2> HIDE DEF h, Pick
  <2> QED
    BY <1>3
<1> HIDE DEF h, Pick
<1> DEFINE T == {m \in Nat : \A R \in SUBSET S : Cardinality(R) = m => h[R] = g[R]}
<1>6. \A R \in SUBSET S : IsFiniteSet(R) /\ Cardinality(R) \in Nat
  BY FS_Subset, FS_CardinalityType
<1>7. 0 \in T
  BY <1>5, <1>6, FS_EmptySet DEF Sums
<1>8. ASSUME NEW m \in Nat, m \in T PROVE m + 1 \in T
  <2> SUFFICES ASSUME NEW R \in SUBSET S, Cardinality(R) = m + 1 PROVE h[R] = g[R]
    OBVIOUS
  <2>1. R # {}
    BY FS_EmptySet
  <2>2. Cardinality(R \ {Pick(R)}) = m
    BY <1>1, <1>6, <2>1, FS_RemoveElement
  <2>3. h[R \ {Pick(R)}] = g[R \ {Pick(R)}]
    BY <1>1, <1>8, <2>1, <2>2
  <2>4. g[R] = f[Pick(R)] + g[R \ {Pick(R)}]
    BY <1>1, <2>1 DEF Sums
  <2> QED
    BY <1>5, <2>1, <2>3, <2>4
<1>9. Cardinality(S) \in T
  <2> HIDE DEF T
  <2> QED
    BY <1>6, <1>7, <1>8, UpTo
<1> QED
  BY <1>4, <1>9

LEMMA SumEmpty == ASSUME NEW f PROVE SumFunctionOnSet(f, {}) = 0
<1>1. IsFiniteSet({})
  BY FS_EmptySet
<1>2. PICK g : Sums(g, f, {})
  BY <1>1, SumsExist
<1> QED
  BY <1>1, <1>2, SumIs DEF Sums

(* A sum of naturals is a natural, and no less than the sum over a part.          *)
LEMMA SumNatural ==
  ASSUME NEW S, IsFiniteSet(S), NEW f, \A x \in S : f[x] \in Nat, NEW R \in SUBSET S
  PROVE  /\ SumFunctionOnSet(f, S) \in Nat /\ SumFunctionOnSet(f, R) \in Nat
         /\ SumFunctionOnSet(f, R) <= SumFunctionOnSet(f, S)
<1>1. PICK g : Sums(g, f, S)
  BY SumsExist
<1>2. \A Q \in SUBSET S : IsFiniteSet(Q) /\ Sums(g, f, Q)
  BY <1>1, FS_Subset DEF Sums
<1>3. \A Q \in SUBSET S : SumFunctionOnSet(f, Q) = g[Q]
  BY <1>2, SumIs
<1>4. \A Q \in SUBSET S : g[Q] \in Nat /\ \A x \in Q : g[Q] = f[x] + g[Q \ {x}]
  BY <1>1 DEF Sums
<1> DEFINE P == {D \in SUBSET (S \ R) : g[R] <= g[R \cup D]}
<1>5. {} \in P
  <2>1. R \cup {} = R
    OBVIOUS
  <2> QED
    BY <1>4, <2>1
<1>6. ASSUME NEW D \in SUBSET (S \ R), NEW x \in S \ R, x \notin D, D \in P
      PROVE  D \cup {x} \in P
  <2>1. R \cup (D \cup {x}) \in SUBSET S /\ R \cup D \in SUBSET S
    OBVIOUS
  <2>2. (R \cup (D \cup {x})) \ {x} = R \cup D
    BY <1>6
  <2>3. g[R \cup (D \cup {x})] = f[x] + g[R \cup D]
    BY <1>4, <2>1, <2>2
  <2>4. f[x] \in Nat /\ g[R] \in Nat /\ g[R \cup D] \in Nat /\ g[R] <= g[R \cup D]
    BY <1>4, <1>6, <2>1
  <2> QED
    BY <2>3, <2>4
<1>7. S \ R \in P
  <2>1. IsFiniteSet(S \ R)
    BY FS_Subset
  <2> HIDE DEF P
  <2> QED
    BY <1>5, <1>6, <2>1, FiniteUpTo
<1>8. R \cup (S \ R) = S
  OBVIOUS
<1>9. g[R] <= g[S]
  BY <1>7, <1>8
<1> QED
  BY <1>3, <1>4, <1>9

LEMMA MinExists ==
  ASSUME NEW S, S \subseteq Nat, S # {}
  PROVE  Min(S) \in S /\ \A y \in S : Min(S) <= y
<1>1. PICK x \in S : \A y \in S : ~(<<y, x>> \in OpToRel(<, Nat))
  BY NatLessThanWellFounded, WFMin
<1>2. \A y \in S : x <= y
  <2>1. ASSUME NEW y \in S, y < x PROVE FALSE
    <3>1. y \in Nat /\ x \in Nat
      OBVIOUS
    <3>2. <<y, x>> \in OpToRel(<, Nat)
      BY <2>1, <3>1 DEF OpToRel
    <3> QED
      BY <1>1, <3>2
  <2> QED
    BY <2>1
<1>3. \E z \in S : \A y \in S : z =< y
  BY <1>2
<1> QED
  BY <1>3, Zenon DEF Min

LEMMA FiniteMaxExists ==
  ASSUME NEW S, S \subseteq Nat, IsFiniteSet(S), S # {}
  PROVE  Max(S) \in S /\ \A y \in S : y <= Max(S)
<1> DEFINE P == {R \in SUBSET S : R # {} => \E x \in R : \A y \in R : x >= y}
<1>1. {} \in P
  OBVIOUS
<1>2. ASSUME NEW R \in SUBSET S, NEW x \in S, x \notin R, R \in P PROVE R \cup {x} \in P
  <2>1. CASE R = {}
    BY <2>1
  <2>2. CASE R # {}
    <3>1. PICK z \in R : \A y \in R : z >= y
      BY <1>2, <2>2
    <3>2. CASE z >= x
      BY <3>1, <3>2
    <3>3. CASE x >= z
      BY <3>1, <3>3
    <3> QED
      BY <3>2, <3>3
  <2> QED
    BY <2>1, <2>2
<1>3. S \in P
  <2> HIDE DEF P
  <2> QED
    BY <1>1, <1>2, FiniteUpTo
<1>4. \E x \in S : \A y \in S : x >= y
  BY <1>3
<1>5. Max(S) \in S /\ \A y \in S : Max(S) >= y
  BY <1>4, Zenon DEF Max
<1> QED
  BY <1>5

-----------------------------------------------------------------------------
(* Types.                                                                        *)
UnitType == [kind : ParameterKinds \cup MediaKinds, id : Ids, size : Nat \ {0}]

LEMMA Sizes ==
  /\ MaxRtpPacket \in Nat /\ MaxRtpPacket > 14 /\ HeaderSize = 12
  /\ MaxSinglePayload = MaxRtpPacket - 13 /\ MaxStapPayload = MaxRtpPacket - 13
  /\ MaxFragPayload = MaxRtpPacket - 14
BY RtpAssumption DEF HeaderSize, MaxSinglePayload, MaxStapPayload, MaxFragPayload

LEMMA UnitSizeNatural ==
  ASSUME NEW au \in Seq(Nal), NEW i \in 1..Len(au)
  PROVE  UnitSize(au, i) \in Nat
<1>0. Len(au) \in Nat /\ \A k \in 1..Len(au) : au[k] \in Nal
  BY LenProperties, ElementOfSeq
<1>1. Len(au) \in Nat /\ \A k \in 1..Len(au) : au[k].size \in Nat
  BY <1>0 DEF Nal
<1>2. NextStart(au, i) \in Nat /\ NextStart(au, i) <= Len(au) + 1
  <2> DEFINE starts == {k \in (i + 1)..Len(au) : au[k].code = 4} \cup {Len(au) + 1}
  <2>1. starts \subseteq Nat /\ starts # {} /\ \A k \in starts : k <= Len(au) + 1
    BY <1>1
  <2>2. Min(starts) \in starts
    <3> HIDE DEF starts
    <3> QED
      BY <2>1, MinExists
  <2> QED
    BY <2>1, <2>2 DEF NextStart
<1>3. Span(au, i) \in Nat
  <2> DEFINE D == i..(NextStart(au, i) - 1)
             f == [k \in D |-> au[k].size + IF k = i THEN 0 ELSE 3]
  <2>1. IsFiniteSet(D)
    BY <1>2, FS_Interval
  <2>2. \A k \in D : f[k] \in Nat
    BY <1>1, <1>2
  <2>3. SumFunctionOnSet(f, D) \in Nat
    <3> HIDE DEF D, f
    <3> QED
      BY <2>1, <2>2, SumNatural
  <2>4. Span(au, i) = SumFunctionOnSet(f, D)
    BY DEF Span, SumFunction
  <2> QED
    BY <2>3, <2>4
<1>4. Max({0, Span(au, i) - 4}) \in Nat
  <2> DEFINE S == {0, Span(au, i) - 4}
  <2>1. \E x \in S : \A y \in S : x >= y
    BY <1>3
  <2>2. Max(S) \in S /\ \A y \in S : Max(S) >= y
    <3> HIDE DEF S
    <3> QED
      BY <2>1, Zenon DEF Max
  <2> QED
    BY <1>3, <2>2
<1> QED
  BY <1>3, <1>4 DEF UnitSize

(* When every start code has four bytes, the first pass finds each unit where it  *)
(* is, and takes four bytes off the last one only.                                 *)
LEMMA OneSummand ==
  ASSUME NEW i \in Nat, NEW f, f[i] \in Nat
  PROVE  SumFunctionOnSet(f, {i}) = f[i]
<1>1. IsFiniteSet({i})
  BY FS_Singleton
<1>2. PICK g : Sums(g, f, {i})
  BY <1>1, SumsExist
<1>3. g[{}] = 0 /\ g[{i}] = f[i] + g[{i} \ {i}] /\ {i} \ {i} = {}
  BY <1>2 DEF Sums
<1> QED
  BY <1>1, <1>2, <1>3, SumIs

LEMMA SizeOfUnit ==
  ASSUME NEW au \in Seq(Nal), \A k \in 1..Len(au) : au[k].code = 4, NEW i \in 1..Len(au)
  PROVE  UnitSize(au, i) = IF i = Len(au) THEN Max({0, au[i].size - 4}) ELSE au[i].size
<1>0. Len(au) \in Nat /\ i \in Nat /\ au[i] \in Nal
  BY LenProperties, ElementOfSeq
<1>1. Len(au) \in Nat /\ i \in Nat /\ au[i].size \in Nat
  BY <1>0 DEF Nal
<1>2. NextStart(au, i) = i + 1
  <2> DEFINE starts == {k \in (i + 1)..Len(au) : au[k].code = 4} \cup {Len(au) + 1}
  <2>1. starts \subseteq Nat /\ i + 1 \in starts /\ \A k \in starts : k >= i + 1
    BY <1>1
  <2>2. Min(starts) \in starts /\ Min(starts) <= i + 1
    <3> HIDE DEF starts
    <3> QED
      BY <2>1, MinExists
  <2>3. Min(starts) = i + 1
    <3> HIDE DEF starts
    <3>1. Min(starts) \in Nat /\ Min(starts) >= i + 1
      BY <2>1, <2>2
    <3> QED
      BY <1>1, <2>2, <3>1
  <2> QED
    BY <2>3 DEF NextStart
<1>3. Span(au, i) = au[i].size
  <2> DEFINE f == [k \in i..(NextStart(au, i) - 1) |-> au[k].size + IF k = i THEN 0 ELSE 3]
  <2>1. DOMAIN f = {i} /\ f[i] = au[i].size
    BY <1>1, <1>2
  <2>2. Span(au, i) = SumFunctionOnSet(f, DOMAIN f)
    BY DEF Span, SumFunction
  <2> HIDE DEF f
  <2> QED
    BY <1>1, <2>1, <2>2, OneSummand
<1>4. au[i].code = 4 /\ (NextStart(au, i) <= Len(au) <=> i # Len(au))
  BY <1>1, <1>2
<1> QED
  BY <1>3, <1>4 DEF UnitSize

LEMMA UnitsLoseFour ==
  ASSUME NEW au \in AccessUnits \cup {<< >>}, \A k \in 1..Len(au) : au[k].code = 4
  PROVE  NalUnits(au) = Only(LosesFour(au), "size", Nat \ {0})
<1>1. au \in Seq(Nal)
  BY RtpAssumption, EmptySeq
<1> DEFINE all == [i \in 1..Len(au) |->
                     [kind |-> au[i].kind, id |-> au[i].id, size |-> UnitSize(au, i)]]
<1>2. ASSUME NEW i \in 1..Len(au) PROVE all[i] = LosesFour(au)[i]
  <2> DEFINE size == IF i = Len(au) THEN Max({0, au[i].size - 4}) ELSE au[i].size
  <2>1. UnitSize(au, i) = size
    BY <1>1, SizeOfUnit
  <2> HIDE DEF size
  <2>2. all[i] = [kind |-> au[i].kind, id |-> au[i].id, size |-> size]
    BY <2>1
  <2>3. WholeUnits(au)[i] = [kind |-> au[i].kind, id |-> au[i].id, size |-> au[i].size]
    BY DEF WholeUnits
  <2>4. LosesFour(au)[i] = [WholeUnits(au)[i] EXCEPT !.size = size]
    <3>1. LosesFour(au)[i] =
            [WholeUnits(au)[i] EXCEPT
               !.size = IF i = Len(au) THEN Max({0, WholeUnits(au)[i].size - 4})
                                       ELSE WholeUnits(au)[i].size]
      BY Zenon DEF LosesFour
    <3>2. WholeUnits(au)[i].size = au[i].size
      BY <2>3
    <3> QED
      BY <3>1, <3>2, Zenon DEF size
  <2>5. [[kind |-> au[i].kind, id |-> au[i].id, size |-> au[i].size] EXCEPT !.size = size]
          = [kind |-> au[i].kind, id |-> au[i].id, size |-> size]
    OBVIOUS
  <2> QED
    BY <2>2, <2>3, <2>4, <2>5, Zenon
<1>3. all = LosesFour(au)
  BY <1>2 DEF LosesFour
<1> QED
  BY <1>3, Zenon DEF NalUnits

(* The first pass keeps the non-empty units.                                     *)
LEMMA NalUnitsType == ASSUME NEW au \in AccessUnits PROVE NalUnits(au) \in Seq(UnitType)
<1> DEFINE all == [i \in 1..Len(au) |->
                     [kind |-> au[i].kind, id |-> au[i].id, size |-> UnitSize(au, i)]]
           X == [kind : ParameterKinds \cup MediaKinds, id : Ids, size : Nat]
           Y == {x \in X : x["size"] \in Nat \ {0}}
<1>1. au \in Seq(Nal) /\ Len(au) \in Nat /\ \A i \in 1..Len(au) : au[i] \in Nal
  BY RtpAssumption, LenProperties, ElementOfSeq
<1>2. \A i \in 1..Len(au) : all[i] \in X
  BY <1>1, UnitSizeNatural DEF Nal
<1>3. all \in Seq(X)
  <2> HIDE DEF X
  <2> QED
    BY <1>1, <1>2, IsASeq
<1>4. Only(all, "size", Nat \ {0}) \in Seq(Y)
  <2> HIDE DEF all, X
  <2> QED
    BY <1>3, OnlyType
<1>5. Y \subseteq UnitType
  BY DEF UnitType
<1>6. Only(all, "size", Nat \ {0}) \in Seq(UnitType)
  <2> HIDE DEF all, Y
  <2> QED
    BY <1>4, <1>5, SeqMonotonic
<1> QED
  BY <1>6, Zenon DEF NalUnits

SizeTables == [ParameterKinds -> [Ids -> Nat]]

LEMMA StoreType ==
  ASSUME NEW old \in SizeTables, NEW X, NEW s \in Seq(X), \A x \in X : x.size \in Nat
  PROVE  Store(old, s) \in SizeTables
<1>1. Len(s) \in Nat /\ \A i \in 1..Len(s) : s[i].size \in Nat
  BY LenProperties, ElementOfSeq
<1>2. ASSUME NEW k \in ParameterKinds, NEW d \in Ids
      PROVE  LET hits == {i \in 1..Len(s) : s[i].kind = k /\ IdOf(s[i]) = d}
             IN  (IF hits = {} THEN old[k][d] ELSE s[Max(hits)].size) \in Nat
  <2> DEFINE hits == {i \in 1..Len(s) : s[i].kind = k /\ IdOf(s[i]) = d}
  <2>1. old[k][d] \in Nat
    BY DEF SizeTables
  <2>2. hits # {} => Max(hits) \in 1..Len(s)
    <3>1. hits \subseteq 1..Len(s)
      OBVIOUS
    <3> HIDE DEF hits
    <3> QED
      BY <1>1, <3>1, MaxExists
  <2> HIDE DEF hits
  <2>3. (IF hits = {} THEN old[k][d] ELSE s[Max(hits)].size) \in Nat
    BY <1>1, <2>1, <2>2
  <2> QED
    BY <2>3 DEF hits
<1> QED
  BY <1>2, ZenonT(60) DEF Store, SizeTables

LEMMA WholeUnitsType ==
  ASSUME NEW au \in AccessUnits
  PROVE  /\ WholeUnits(au) \in Seq(UnitType)
         /\ Len(WholeUnits(au)) = Len(au)
<1>1. au \in Seq(Nal) /\ Len(au) \in Nat /\ \A i \in 1..Len(au) : au[i] \in Nal
  BY RtpAssumption, LenProperties, ElementOfSeq
<1>2. \A i \in 1..Len(au) : WholeUnits(au)[i] \in UnitType
  BY <1>1 DEF WholeUnits, UnitType, Nal
<1>3. DOMAIN WholeUnits(au) = 1..Len(au)
  BY DEF WholeUnits
<1>4. WholeUnits(au) = [i \in 1..Len(au) |-> WholeUnits(au)[i]]
  BY DEF WholeUnits
<1> QED
  BY <1>1, <1>2, <1>4, IsASeq

LEMMA KnownIdsProperties ==
  ASSUME NEW m \in SizeTables, NEW k \in ParameterKinds
  PROVE  /\ KnownIds(m, k) \subseteq Ids /\ IsFiniteSet(KnownIds(m, k))
         /\ KnownIds(m, k) # {} => Min(KnownIds(m, k)) \in KnownIds(m, k)
<1>1. KnownIds(m, k) \in SUBSET Ids
  BY DEF KnownIds
<1>2. IsFiniteSet(KnownIds(m, k)) /\ KnownIds(m, k) \subseteq Nat
  BY <1>1, RtpAssumption, FS_Subset
<1> QED
  BY <1>1, <1>2, MinExists

LEMMA SdpType ==
  ASSUME NEW m \in SizeTables, Complete(m)
  PROVE  SdpOf(m) \in [sps : Nat, pps : [Ids -> Nat]]
<1>1. "sps" \in ParameterKinds /\ "pps" \in ParameterKinds
  BY DEF ParameterKinds
<1>2. Min(KnownIds(m, "sps")) \in Ids
  BY <1>1, KnownIdsProperties DEF Complete
<1> QED
  BY <1>1, <1>2 DEF SdpOf, SizeTables

(* The bytes of some parameter sets in an aggregate.                             *)
LEMMA BytesNatural ==
  ASSUME NEW m \in SizeTables, NEW k \in ParameterKinds, NEW ds \in SUBSET Ids,
         NEW es \in SUBSET ds
  PROVE  Bytes(m, k, ds) \in Nat /\ Bytes(m, k, es) \in Nat /\ Bytes(m, k, es) <= Bytes(m, k, ds)
<1> DEFINE f == [d \in Ids |-> 2 + m[k][d]]
<1>1. \A d \in ds : f[d] \in Nat
  BY DEF SizeTables
<1>2. IsFiniteSet(ds)
  BY RtpAssumption, FS_Subset
<1>3. /\ SumFunctionOnSet(f, ds) \in Nat /\ SumFunctionOnSet(f, es) \in Nat
      /\ SumFunctionOnSet(f, es) <= SumFunctionOnSet(f, ds)
  <2> HIDE DEF f
  <2> QED
    BY <1>1, <1>2, SumNatural
<1> QED
  BY <1>3 DEF Bytes

(* The parameter sets an aggregate takes do fit in it.                           *)
LEMMA FittingFits ==
  ASSUME NEW m \in SizeTables, NEW k \in ParameterKinds, NEW used \in Nat
  PROVE  /\ Fitting(m, k, used) \subseteq KnownIds(m, k)
         /\ Bytes(m, k, Fitting(m, k, used)) \in Nat
         /\ used <= MaxStapPayload =>
              used + Bytes(m, k, Fitting(m, k, used)) <= MaxStapPayload
<1> DEFINE F == Fitting(m, k, used)
<1>1. F \subseteq KnownIds(m, k) /\ KnownIds(m, k) \subseteq Ids
  BY DEF Fitting, KnownIds
<1>2. F \in SUBSET Ids
  BY <1>1
<1>3. Bytes(m, k, F) \in Nat
  BY <1>2, BytesNatural
<1>4. CASE F = {}
  <2>1. Bytes(m, k, F) = 0
    BY <1>4, SumEmpty DEF Bytes
  <2> QED
    BY <1>1, <2>1
<1>5. CASE F # {}
  <2>1. F \subseteq Nat /\ IsFiniteSet(F)
    BY <1>2, RtpAssumption, FS_Subset
  <2>2. Max(F) \in F /\ \A e \in F : e <= Max(F)
    <3> HIDE DEF F
    <3> QED
      BY <1>5, <2>1, FiniteMaxExists
  <2> DEFINE upto == {e \in KnownIds(m, k) : e <= Max(F)}
  <2>3. F \in SUBSET upto /\ upto \in SUBSET Ids
    BY <1>1, <2>2
  <2>4. Bytes(m, k, F) <= Bytes(m, k, upto) /\ Bytes(m, k, upto) \in Nat
    <3> HIDE DEF F, upto
    <3> QED
      BY <2>3, BytesNatural
  <2>5. used + Bytes(m, k, upto) <= MaxStapPayload
    BY <2>2 DEF Fitting, Prefix
  <2>6. MaxStapPayload \in Nat
    BY Sizes
  <2> HIDE DEF F, upto
  <2>7. used + Bytes(m, k, F) <= MaxStapPayload
    BY <1>3, <2>4, <2>5, <2>6
  <2> QED
    BY <1>1, <1>3, <2>7 DEF F
<1> QED
  BY <1>1, <1>3, <1>4, <1>5

LEMMA PacketIs ==
  ASSUME sequence \in 0..(SequenceModulus - 1), timestamp \in Nat,
         NEW type \in {"stap", "single", "fu"}, NEW size \in Nat
  PROVE  /\ Packet(type, size) \in PacketType
         /\ Packet(type, size).type = type /\ Packet(type, size).size = size
         /\ Packet(type, size).ts = timestamp /\ Packet(type, size).marker = FALSE
BY DEF Packet, PacketType

LEMMA StapPacketFits ==
  ASSUME sizes \in SizeTables, sequence \in 0..(SequenceModulus - 1), timestamp \in Nat
  PROVE  /\ StapPacket \in PacketType /\ StapPacket.type = "stap"
         /\ StapPacket.size <= MaxRtpPacket /\ StapPacket.ts = timestamp
         /\ StapPacket.marker = FALSE
         /\ StapPacket.sps = Fitting(sizes, "sps", 1)
         /\ StapPacket.pps = Fitting(sizes, "pps",
                                     1 + Bytes(sizes, "sps", Fitting(sizes, "sps", 1)))
<1> DEFINE sps  == Fitting(sizes, "sps", 1)
           used == 1 + Bytes(sizes, "sps", sps)
           pps  == Fitting(sizes, "pps", used)
           size == HeaderSize + used + Bytes(sizes, "pps", pps)
<1>1. "sps" \in ParameterKinds /\ "pps" \in ParameterKinds /\ 1 <= MaxStapPayload /\ 1 \in Nat
  BY Sizes DEF ParameterKinds
<1>2. used \in Nat /\ used <= MaxStapPayload /\ sps \subseteq Ids
  <2>1. sps \subseteq KnownIds(sizes, "sps") /\ Bytes(sizes, "sps", sps) \in Nat
        /\ 1 + Bytes(sizes, "sps", sps) <= MaxStapPayload
    BY <1>1, FittingFits
  <2> QED
    BY <2>1 DEF KnownIds
<1>3. pps \subseteq Ids /\ Bytes(sizes, "pps", pps) \in Nat
      /\ used + Bytes(sizes, "pps", pps) <= MaxStapPayload
  <2> HIDE DEF used
  <2>1. pps \subseteq KnownIds(sizes, "pps") /\ Bytes(sizes, "pps", pps) \in Nat
        /\ used + Bytes(sizes, "pps", pps) <= MaxStapPayload
    BY <1>1, <1>2, FittingFits
  <2> QED
    BY <2>1 DEF KnownIds
<1>5. size \in Nat /\ size <= MaxRtpPacket
  <2> HIDE DEF used, pps
  <2> QED
    BY <1>2, <1>3, Sizes
<1>4. StapPacket = [Packet("stap", size) EXCEPT !.sps = sps, !.pps = pps]
  BY DEF StapPacket
<1> HIDE DEF size, sps, used, pps
<1>6. /\ Packet("stap", size) \in PacketType
      /\ Packet("stap", size).type = "stap" /\ Packet("stap", size).size = size
      /\ Packet("stap", size).ts = timestamp /\ Packet("stap", size).marker = FALSE
  BY <1>5, PacketIs
<1>7. /\ StapPacket \in PacketType
      /\ StapPacket.type = "stap" /\ StapPacket.size = size
      /\ StapPacket.ts = timestamp /\ StapPacket.marker = FALSE
      /\ StapPacket.sps = sps /\ StapPacket.pps = pps
  BY <1>2, <1>3, <1>4, <1>6 DEF PacketType
<1> QED
  BY <1>5, <1>7, Zenon DEF sps, used, pps

LEMMA SinglePacketFits ==
  ASSUME sequence \in 0..(SequenceModulus - 1), timestamp \in Nat, NEW u,
         u.size \in Nat, u.size <= MaxSinglePayload
  PROVE  /\ SinglePacket(u) \in PacketType /\ SinglePacket(u).type = "single"
         /\ SinglePacket(u).size <= MaxRtpPacket
         /\ SinglePacket(u).size = HeaderSize + u.size /\ SinglePacket(u).ts = timestamp
         /\ SinglePacket(u).marker = IsLast
<1>1. HeaderSize + u.size \in Nat /\ HeaderSize + u.size <= MaxRtpPacket /\ IsLast \in BOOLEAN
  BY Sizes DEF IsLast
<1> DEFINE p == Packet("single", HeaderSize + u.size)
<1>2. SinglePacket(u) = [p EXCEPT !.marker = IsLast]
  BY DEF SinglePacket
<1>3. p \in PacketType /\ p.type = "single" /\ p.size = HeaderSize + u.size /\ p.ts = timestamp
  BY <1>1, PacketIs
<1> HIDE DEF p
<1> QED
  BY <1>1, <1>2, <1>3 DEF PacketType

LEMMA FragmentPacketFits ==
  ASSUME sequence \in 0..(SequenceModulus - 1), timestamp \in Nat, remaining \in Nat,
         NEW u, NEW payload \in Nat, payload <= MaxFragPayload
  PROVE  /\ FragmentPacket(u, payload) \in PacketType /\ FragmentPacket(u, payload).type = "fu"
         /\ FragmentPacket(u, payload).size <= MaxRtpPacket
         /\ FragmentPacket(u, payload).size = HeaderSize + 2 + payload
         /\ FragmentPacket(u, payload).ts = timestamp
         /\ FragmentPacket(u, payload).start = (remaining = u.size - 1)
         /\ FragmentPacket(u, payload).end = (remaining <= payload)
         /\ FragmentPacket(u, payload).marker = (remaining <= payload /\ IsLast)
<1>1. HeaderSize + 2 + payload \in Nat /\ HeaderSize + 2 + payload <= MaxRtpPacket
  BY Sizes
<1> DEFINE p == Packet("fu", HeaderSize + 2 + payload)
           first == remaining = u.size - 1
           last == remaining <= payload
           mark == remaining <= payload /\ IsLast
<1>2. FragmentPacket(u, payload) = [p EXCEPT !.start = first, !.end = last, !.marker = mark]
  BY DEF FragmentPacket
<1>3. p \in PacketType /\ p.type = "fu" /\ p.size = HeaderSize + 2 + payload
      /\ p.ts = timestamp
  BY <1>1, PacketIs
<1>4. first \in BOOLEAN /\ last \in BOOLEAN /\ mark \in BOOLEAN
  OBVIOUS
<1> HIDE DEF p, first, last, mark
<1>5. /\ FragmentPacket(u, payload) \in PacketType /\ FragmentPacket(u, payload).type = "fu"
      /\ FragmentPacket(u, payload).size = HeaderSize + 2 + payload
      /\ FragmentPacket(u, payload).ts = timestamp
      /\ FragmentPacket(u, payload).start = first /\ FragmentPacket(u, payload).end = last
      /\ FragmentPacket(u, payload).marker = mark
  BY <1>2, <1>3, <1>4 DEF PacketType
<1> QED
  BY <1>1, <1>5, Zenon DEF first, last, mark

LEMMA InitTypes == Init => TypeOK
<1> SUFFICES ASSUME Init PROVE TypeOK
  OBVIOUS
<1>1. sizes \in [ParameterKinds -> [Ids -> Nat]] /\ sdp \in [sps : Nat, pps : [Ids -> Nat]]
  BY DEF Init, NoSdp
<1>2. << >> \in Seq(PacketType) /\ << >> \in Seq(UnitType)
  BY EmptySeq
<1>3. 0 \in 0..(RefreshInterval - 1) /\ FirstSequence \in 0..(SequenceModulus - 1)
  BY RtpAssumption
<1>4. udpOut \in Seq(PacketType) /\ rtspOut \in Seq(PacketType) /\ units \in Seq(UnitType)
  BY <1>2 DEF Init
<1>5. input \in AccessUnits \cup {<< >>}
  BY DEF Init
<1>6. /\ pc \in {"idle", "idr", "refresh", "units", "fragment"} /\ extracted \in BOOLEAN
      /\ next \in Nat \ {0} /\ remaining \in Nat /\ timestamp \in Nat /\ unrefreshed \in Nat
  <2>1. /\ pc = "idle" /\ extracted = FALSE /\ next = 1 /\ remaining = 0 /\ timestamp = 0
        /\ unrefreshed = 0
    BY Zenon DEF Init
  <2>2. extracted \in BOOLEAN
    BY <2>1, Zenon
  <2>3. pc \in {"idle", "idr", "refresh", "units", "fragment"}
    BY <2>1
  <2>4. /\ next \in Nat \ {0} /\ remaining \in Nat /\ timestamp \in Nat
        /\ unrefreshed \in Nat
    BY <2>1
  <2> QED
    BY <2>2, <2>3, <2>4, Zenon
<1>7. sequence \in 0..(SequenceModulus - 1) /\ refresh \in 0..(RefreshInterval - 1)
  BY <1>3 DEF Init
<1> QED
  BY <1>1, <1>4, <1>5, <1>6, <1>7 DEF TypeOK, UnitType

LEMMA NextNumber ==
  ASSUME sequence \in 0..(SequenceModulus - 1), NextSequence
  PROVE  sequence' \in 0..(SequenceModulus - 1)
BY RtpAssumption DEF NextSequence

LEMMA UnitsAre ==
  ASSUME TypeOK
  PROVE  /\ Len(units) \in Nat
         /\ \A i \in 1..Len(units) :
              /\ units[i] \in UnitType /\ units[i].size \in Nat \ {0}
              /\ units[i].kind \in ParameterKinds \cup MediaKinds
<1>1. units \in Seq(UnitType)
  BY DEF TypeOK, UnitType
<1>2. Len(units) \in Nat /\ \A i \in 1..Len(units) : units[i] \in UnitType
  BY <1>1, LenProperties, ElementOfSeq
<1> QED
  BY <1>2 DEF UnitType

(* The step that sends an aggregate, or does not.                                *)
LEMMA StapType ==
  ASSUME TypeOK
  PROVE  /\ StapPacket \in PacketType
         /\ SendStap(StapPacket) =>
              /\ udpOut' \in Seq(PacketType) /\ rtspOut' \in Seq(PacketType)
              /\ rtspOut' = Append(Append(rtspOut, StapPacket), StapPacket)
<1>1. StapPacket \in PacketType
  BY StapPacketFits DEF TypeOK, SizeTables
<1>2. udpOut \in Seq(PacketType) /\ rtspOut \in Seq(PacketType)
  BY DEF TypeOK
<1> HIDE DEF TypeOK
<1>3. ASSUME NEW p \in PacketType
      PROVE  /\ Append(udpOut, p) \in Seq(PacketType)
             /\ Append(Append(rtspOut, p), p) \in Seq(PacketType)
             /\ rtspOut \o <<p, p>> = Append(Append(rtspOut, p), p)
  <2>1. Append(udpOut, p) \in Seq(PacketType) /\ Append(rtspOut, p) \in Seq(PacketType)
        /\ Append(Append(rtspOut, p), p) \in Seq(PacketType)
    BY <1>2, AppendProperties
  <2>2. rtspOut \o <<p, p>> = Append(Append(rtspOut, p), p)
    BY <1>2
  <2> QED
    BY <2>1, <2>2
<1> QED
  BY <1>1, <1>3 DEF SendStap

LEMMA ReceiveTypes == ASSUME TypeOK, NEW au \in AccessUnits, Receive(au) PROVE TypeOK'
<1>1. NalUnits(au) \in Seq(UnitType) /\ WholeUnits(au) \in Seq(UnitType)
  BY NalUnitsType, WholeUnitsType
<1>2. \A x \in UnitType : x.size \in Nat
  BY DEF UnitType
<1> DEFINE first  == IF extracted THEN sizes ELSE Store(sizes, WholeUnits(au))
           latest == Store(first, NalUnits(au))
<1>3. first \in SizeTables
  <2>1. sizes \in SizeTables
    BY DEF TypeOK, SizeTables
  <2>2. Store(sizes, WholeUnits(au)) \in SizeTables
    BY <1>1, <1>2, <2>1, StoreType
  <2> QED
    BY <2>1, <2>2
<1>4. latest \in SizeTables
  <2> HIDE DEF first
  <2> QED
    BY <1>1, <1>2, <1>3, StoreType
<1>5. Complete(latest) => SdpOf(latest) \in [sps : Nat, pps : [Ids -> Nat]]
  <2> HIDE DEF latest
  <2> QED
    BY <1>4, SdpType
<1>6. /\ sizes' = latest /\ (sdp' = sdp \/ (Complete(latest) /\ sdp' = SdpOf(latest)))
      /\ input' = au /\ units' = NalUnits(au) /\ next' = 1 /\ remaining' = 0
      /\ extracted' = TRUE /\ pc' = "idr"
      /\ UNCHANGED <<sequence, timestamp, refresh, udpOut, rtspOut, unrefreshed>>
  BY DEF Receive, headerVars, outVars
<1> HIDE DEF first, latest
<1>7. sdp' \in [sps : Nat, pps : [Ids -> Nat]] /\ sizes' \in SizeTables
  BY <1>4, <1>5, <1>6 DEF TypeOK
<1> QED
  BY <1>1, <1>6, <1>7 DEF TypeOK, UnitType, SizeTables

LEMMA BeforeIdrTypes == ASSUME TypeOK, BeforeIdr PROVE TypeOK'
<1>1. /\ pc' = "refresh"
      /\ UNCHANGED <<input, units, next, remaining, timestamp, refresh, extracted, sizes, sdp>>
  BY DEF BeforeIdr, inputVars, paramVars
<1>2. unrefreshed' \in Nat
  BY DEF BeforeIdr, TypeOK
<1>3. /\ udpOut' \in Seq(PacketType) /\ rtspOut' \in Seq(PacketType)
      /\ sequence' \in 0..(SequenceModulus - 1)
  <2>1. CASE SendStap(StapPacket) /\ NextSequence
    BY <2>1, StapType, NextNumber DEF TypeOK
  <2>2. CASE UNCHANGED <<outVars, sequence>>
    BY <2>2 DEF TypeOK, outVars
  <2> QED
    BY <2>1, <2>2 DEF BeforeIdr
<1> QED
  BY <1>1, <1>2, <1>3 DEF TypeOK

LEMMA RefreshTypes == ASSUME TypeOK, Refresh PROVE TypeOK'
<1>1. /\ pc' = "units"
      /\ UNCHANGED <<input, units, next, remaining, timestamp, extracted, sizes, sdp>>
  BY DEF Refresh, inputVars
<1>2. unrefreshed' \in Nat /\ refresh' \in 0..(RefreshInterval - 1)
  BY RtpAssumption DEF Refresh, TypeOK
<1>3. /\ udpOut' \in Seq(PacketType) /\ rtspOut' \in Seq(PacketType)
      /\ sequence' \in 0..(SequenceModulus - 1)
  <2>1. CASE SendStap(StapPacket) /\ NextSequence
    BY <2>1, StapType, NextNumber DEF TypeOK
  <2>2. CASE UNCHANGED <<outVars, sequence>>
    BY <2>2 DEF TypeOK, outVars
  <2> QED
    BY <2>1, <2>2 DEF Refresh
<1> QED
  BY <1>1, <1>2, <1>3 DEF TypeOK

LEMMA SendToAllTypes ==
  ASSUME TypeOK, NEW p \in PacketType, SendToAll(p)
  PROVE  udpOut' \in Seq(PacketType) /\ rtspOut' \in Seq(PacketType)
BY AppendProperties DEF SendToAll, TypeOK

LEMMA SendSingleTypes == ASSUME TypeOK, SendSingle PROVE TypeOK'
<1>1. next \in 1..Len(units)
  BY UnitsAre DEF SendSingle, AtUnit, TypeOK
<1>2. SinglePacket(units[next]) \in PacketType
  BY <1>1, UnitsAre, SinglePacketFits DEF SendSingle, TypeOK
<1>3. /\ udpOut' \in Seq(PacketType) /\ rtspOut' \in Seq(PacketType)
      /\ sequence' \in 0..(SequenceModulus - 1)
  BY <1>2, SendToAllTypes, NextNumber DEF SendSingle, TypeOK
<1>4. /\ next' = next + 1
      /\ UNCHANGED <<pc, input, units, remaining, timestamp, refresh, extracted, sizes, sdp,
                     unrefreshed>>
  BY DEF SendSingle, paramVars
<1> QED
  BY <1>3, <1>4 DEF TypeOK

Payload == IF remaining > MaxFragPayload THEN MaxFragPayload ELSE remaining

LEMMA PayloadFits ==
  ASSUME TypeOK
  PROVE  Payload \in Nat /\ Payload <= remaining /\ Payload <= MaxFragPayload
         /\ (remaining > 0 => Payload > 0)
BY Sizes DEF Payload, TypeOK

LEMMA SendFragmentTypes == ASSUME TypeOK, SendFragment PROVE TypeOK'
<1>1. FragmentPacket(units[next], Payload) \in PacketType
  BY PayloadFits, FragmentPacketFits DEF TypeOK
<1>2. /\ SendToAll(FragmentPacket(units[next], Payload)) /\ NextSequence
      /\ remaining' = remaining - Payload
      /\ \/ pc' = "units" /\ next' = next + 1
         \/ UNCHANGED <<pc, next>>
      /\ UNCHANGED <<input, units, timestamp, refresh, extracted, sizes, sdp, unrefreshed>>
  BY DEF SendFragment, paramVars, Payload
<1>3. /\ udpOut' \in Seq(PacketType) /\ rtspOut' \in Seq(PacketType)
      /\ sequence' \in 0..(SequenceModulus - 1)
  BY <1>1, <1>2, SendToAllTypes, NextNumber DEF TypeOK
<1>4. remaining' \in Nat
  BY <1>2, PayloadFits DEF TypeOK
<1>5. next' \in Nat \ {0} /\ pc' \in {"idle", "idr", "refresh", "units", "fragment"}
  BY <1>2, SMTT(40) DEF TypeOK
<1>6. UNCHANGED <<input, units, timestamp, refresh, extracted, sizes, sdp, unrefreshed>>
  BY <1>2
<1> QED
  BY <1>3, <1>4, <1>5, <1>6, SMTT(60) DEF TypeOK

LEMMA StepTypes == TypeOK /\ [Next]_vars => TypeOK'
<1> SUFFICES ASSUME TypeOK, [Next]_vars PROVE TypeOK'
  OBVIOUS
<1>1. ASSUME NEW au \in AccessUnits, Receive(au) PROVE TypeOK'
  BY <1>1, ReceiveTypes
<1>2. CASE SkipParameterSet
  BY <1>2, SMTT(40) DEF SkipParameterSet, TypeOK, headerVars, paramVars, outVars
<1>3. CASE StartFragments
  <2>1. next \in 1..Len(units)
    BY <1>3, UnitsAre DEF StartFragments, AtUnit, TypeOK
  <2>2. units[next].size - 1 \in Nat
    BY <2>1, UnitsAre
  <2> QED
    BY <1>3, <2>2 DEF StartFragments, TypeOK, headerVars, paramVars, outVars
<1>4. CASE Finish
  BY <1>4 DEF Finish, TypeOK, inputVars, paramVars, outVars, TimestampStep
<1>5. CASE UNCHANGED vars
  BY <1>5 DEF TypeOK, vars, inputVars, headerVars, paramVars, outVars
<1> QED
  BY <1>1, <1>2, <1>3, <1>4, <1>5, BeforeIdrTypes, RefreshTypes, SendSingleTypes,
     SendFragmentTypes, Zenon DEF Next

(* The variables of sendRTPData have their types.                                *)
THEOREM TypeCorrect == Spec => []TypeOK
<1> QED
  BY InitTypes, StepTypes, PTL DEF Spec

-----------------------------------------------------------------------------
(* Packet sizes.                                                                 *)
LEMMA AppendKeepsSizes ==
  ASSUME TypeOK, PacketsFitMtu, NEW p \in PacketType, p.size <= MaxRtpPacket,
         udpOut' = Append(udpOut, p)
  PROVE  PacketsFitMtu'
<1>1. udpOut \in Seq(PacketType) /\ Len(udpOut) \in Nat
  BY LenProperties DEF TypeOK
<1> HIDE DEF TypeOK
<1>2. /\ Len(udpOut') = Len(udpOut) + 1 /\ udpOut'[Len(udpOut) + 1] = p
      /\ \A i \in 1..Len(udpOut) : udpOut'[i] = udpOut[i]
  BY <1>1, AppendProperties
<1> QED
  BY <1>1, <1>2 DEF PacketsFitMtu

LEMMA StepSizes == TypeOK /\ PacketsFitMtu /\ [Next]_vars => PacketsFitMtu'
<1> SUFFICES ASSUME TypeOK, PacketsFitMtu, [Next]_vars PROVE PacketsFitMtu'
  OBVIOUS
<1>1. CASE UNCHANGED udpOut
  BY <1>1 DEF PacketsFitMtu
<1>2. CASE udpOut' = Append(udpOut, StapPacket)
  <2>1. StapPacket \in PacketType /\ StapPacket.size <= MaxRtpPacket
    BY StapPacketFits DEF TypeOK, SizeTables
  <2> QED
    BY <1>2, <2>1, AppendKeepsSizes
<1>3. CASE SendSingle
  <2>1. next \in 1..Len(units)
    BY <1>3, UnitsAre DEF SendSingle, AtUnit, TypeOK
  <2>2. SinglePacket(units[next]) \in PacketType
        /\ SinglePacket(units[next]).size <= MaxRtpPacket
    BY <1>3, <2>1, UnitsAre, SinglePacketFits DEF SendSingle, TypeOK
  <2> QED
    BY <1>3, <2>2, AppendKeepsSizes DEF SendSingle, SendToAll
<1>4. CASE SendFragment
  <2>1. FragmentPacket(units[next], Payload) \in PacketType
        /\ FragmentPacket(units[next], Payload).size <= MaxRtpPacket
    BY PayloadFits, FragmentPacketFits DEF TypeOK
  <2> QED
    BY <1>4, <2>1, AppendKeepsSizes DEF SendFragment, SendToAll, Payload
<1>5. CASE BeforeIdr \/ Refresh
  BY <1>1, <1>2, <1>5, Zenon DEF BeforeIdr, Refresh, SendStap, outVars
<1>6. CASE (\E au \in AccessUnits : Receive(au)) \/ SkipParameterSet \/ StartFragments \/ Finish
           \/ UNCHANGED vars
  BY <1>1, <1>6 DEF Receive, SkipParameterSet, StartFragments, Finish, outVars, vars
<1> QED
  BY <1>3, <1>4, <1>5, <1>6, Zenon DEF Next

(* No packet given to the UDP queue is larger than MAX_RTP_PACKET, whatever      *)
(* sizes the encoder's units and parameter sets have.                            *)
THEOREM PacketsWithinMtu == Spec => []PacketsFitMtu
<1>1. Init => PacketsFitMtu
  <2>1. Len(<< >>) = 0
    BY EmptySeq
  <2> QED
    BY <2>1 DEF Init, PacketsFitMtu
<1>2. TypeOK /\ PacketsFitMtu /\ [Next]_vars => PacketsFitMtu'
  BY StepSizes
<1> QED
  BY <1>1, <1>2, InitTypes, StepTypes, PTL DEF Spec

-----------------------------------------------------------------------------
(* The UDP output is a sequence, and the counter is one past its last packet. *)
SequenceInv ==
  /\ sequence \in 0..(SequenceModulus - 1)
  /\ \E S : udpOut \in Seq(S)
  /\ udpOut # << >> => sequence = (udpOut[Len(udpOut)].seq + 1) % SequenceModulus
  /\ UdpSequenceGapless

(* Whatever its kind, a packet takes the number in the counter.                *)
LEMMA PacketSequence ==
  /\ StapPacket.seq = sequence
  /\ \A u : SinglePacket(u).seq = sequence
  /\ \A u, n : FragmentPacket(u, n).seq = sequence
BY DEF StapPacket, SinglePacket, FragmentPacket, Packet

(* Appending a packet with the number in the counter, and counting on, keeps   *)
(* the invariant.                                                              *)
LEMMA AppendKeepsSequence ==
  ASSUME SequenceInv, NEW p, p.seq = sequence, udpOut' = Append(udpOut, p), NextSequence
  PROVE  SequenceInv'
<1>1. PICK S : udpOut \in Seq(S)
  BY DEF SequenceInv
<1>2. udpOut \in Seq(S \cup {p})
  BY <1>1, SeqMonotonic
<1>3. /\ udpOut' \in Seq(S \cup {p})
      /\ Len(udpOut') = Len(udpOut) + 1
      /\ \A i \in 1..Len(udpOut) : udpOut'[i] = udpOut[i]
      /\ udpOut'[Len(udpOut) + 1] = p
  BY <1>2, AppendProperties
<1>4. Len(udpOut) \in Nat /\ (udpOut # << >> => Len(udpOut) > 0)
  BY <1>1, LenProperties, EmptySeq
<1>5. sequence' \in 0..(SequenceModulus - 1) /\ sequence' = (p.seq + 1) % SequenceModulus
  BY RtpAssumption DEF SequenceInv, NextSequence
<1>6. UdpSequenceGapless'
  <2> SUFFICES ASSUME NEW i \in 2..Len(udpOut')
               PROVE  udpOut'[i].seq = (udpOut'[i - 1].seq + 1) % SequenceModulus
    BY DEF UdpSequenceGapless, FollowsInSequence
  <2>1. CASE i <= Len(udpOut)
    BY <1>3, <1>4, <2>1 DEF SequenceInv, UdpSequenceGapless, FollowsInSequence
  <2>2. CASE i = Len(udpOut) + 1
    <3>1. udpOut # << >> /\ i - 1 = Len(udpOut) /\ i - 1 \in 1..Len(udpOut)
      BY <1>1, <1>4, <2>2, EmptySeq
    <3> QED
      BY <1>3, <2>2, <3>1 DEF SequenceInv
  <2> QED
    BY <1>3, <1>4, <2>1, <2>2
<1> QED
  BY <1>3, <1>4, <1>5, <1>6 DEF SequenceInv

LEMMA InitSequence == Init => SequenceInv
<1> SUFFICES ASSUME Init PROVE SequenceInv
  OBVIOUS
<1>1. udpOut = << >> /\ sequence = FirstSequence
  BY DEF Init
<1>2. udpOut \in Seq({}) /\ Len(udpOut) = 0
  BY <1>1, EmptySeq
<1> QED
  BY <1>1, <1>2, RtpAssumption DEF SequenceInv, UdpSequenceGapless, FollowsInSequence

LEMMA StepSequence == SequenceInv /\ [Next]_vars => SequenceInv'
<1> SUFFICES ASSUME SequenceInv, [Next]_vars PROVE SequenceInv'
  OBVIOUS
<1>1. CASE BeforeIdr \/ Refresh
  <2>1. CASE UNCHANGED <<udpOut, sequence>>
    BY <2>1 DEF SequenceInv, UdpSequenceGapless, FollowsInSequence
  <2>2. CASE udpOut' = Append(udpOut, StapPacket) /\ NextSequence
    BY <2>2, PacketSequence, AppendKeepsSequence
  <2> QED
    BY <1>1, <2>1, <2>2 DEF BeforeIdr, Refresh, SendStap, outVars
<1>2. CASE SendSingle
  BY <1>2, PacketSequence, AppendKeepsSequence DEF SendSingle, SendToAll
<1>3. CASE SendFragment
  BY <1>3, PacketSequence, AppendKeepsSequence DEF SendFragment, SendToAll
<1>4. CASE UNCHANGED <<udpOut, sequence>>
  BY <1>4 DEF SequenceInv, UdpSequenceGapless, FollowsInSequence
<1>5. CASE \E au \in AccessUnits : Receive(au)
  BY <1>4, <1>5 DEF Receive, headerVars, outVars
<1>6. CASE SkipParameterSet \/ StartFragments \/ Finish \/ UNCHANGED vars
  BY <1>4, <1>6 DEF SkipParameterSet, StartFragments, Finish, headerVars, outVars, vars
<1> QED
  BY <1>1, <1>2, <1>3, <1>5, <1>6 DEF Next

(* Every RTP packet on UDP is numbered one more than the packet before it,     *)
(* modulo the width of the counter.                                            *)
THEOREM UdpPacketsNumbered == Spec => []UdpSequenceGapless
<1>1. Init => SequenceInv
  BY InitSequence
<1>2. SequenceInv /\ [Next]_vars => SequenceInv'
  BY StepSequence
<1>3. SequenceInv => UdpSequenceGapless
  BY DEF SequenceInv
<1> QED
  BY <1>1, <1>2, <1>3, PTL DEF Spec

-----------------------------------------------------------------------------
(* The RTSP clients' packets and SDP.  The SDP shows the parameter sets that are   *)
(* stored as soon as both kinds are known.                                       *)
SdpInv == Complete(sizes) => sdp = SdpOf(sizes)
MirrorInv == rtspOut = Twice(udpOut) /\ SdpInv

LEMMA StoreNothing ==
  ASSUME NEW old \in SizeTables, NEW s, ~HasParameterSet(s)
  PROVE  Store(old, s) = old
<1>1. ASSUME NEW k \in ParameterKinds, NEW d \in Ids
      PROVE  {i \in 1..Len(s) : s[i].kind = k /\ IdOf(s[i]) = d} = {}
  BY DEF HasParameterSet
<1>2. Store(old, s) = [k \in ParameterKinds |-> [d \in Ids |-> old[k][d]]]
  BY <1>1, Zenon DEF Store
<1>3. \A k \in ParameterKinds : old[k] = [d \in Ids |-> old[k][d]]
  BY DEF SizeTables
<1>4. old = [k \in ParameterKinds |-> old[k]]
  BY DEF SizeTables
<1> QED
  BY <1>2, <1>3, <1>4

LEMMA ReceiveMirrors ==
  ASSUME TypeOK, MirrorInv, NEW au \in AccessUnits, Receive(au)
  PROVE  MirrorInv'
<1> DEFINE first  == IF extracted THEN sizes ELSE Store(sizes, WholeUnits(au))
           latest == Store(first, NalUnits(au))
           stored == HasParameterSet(NalUnits(au)) \/ (~extracted /\ HasParameterSet(au))
<1>1. /\ sizes' = latest
      /\ sdp' = IF stored /\ Complete(latest) THEN SdpOf(latest) ELSE sdp
      /\ UNCHANGED <<udpOut, rtspOut>>
  BY DEF Receive, outVars
<1>2. sizes \in SizeTables
  BY DEF TypeOK, SizeTables
<1>3. ~stored => latest = sizes
  <2> SUFFICES ASSUME ~stored PROVE latest = sizes
    OBVIOUS
  <2>1. first = sizes
    <3>1. CASE extracted
      BY <3>1
    <3>2. CASE ~extracted
      <4>1. ~HasParameterSet(WholeUnits(au))
        <5>1. Len(WholeUnits(au)) = Len(au)
          BY WholeUnitsType
        <5>2. \A i \in 1..Len(au) : WholeUnits(au)[i].kind = au[i].kind
          BY DEF WholeUnits
        <5> QED
          BY <3>2, <5>1, <5>2 DEF HasParameterSet
      <4> QED
        BY <1>2, <3>2, <4>1, StoreNothing
    <3> QED
      BY <3>1, <3>2
  <2>2. Store(sizes, NalUnits(au)) = sizes
    BY <1>2, StoreNothing
  <2> QED
    BY <2>1, <2>2
<1> HIDE DEF first, latest, stored
<1>4. SdpInv'
  <2>1. CASE stored /\ Complete(latest)
    BY <1>1, <2>1 DEF SdpInv
  <2>2. CASE stored /\ ~Complete(latest)
    BY <1>1, <2>2 DEF SdpInv
  <2>3. CASE ~stored
    BY <1>1, <1>3, <2>3 DEF SdpInv, MirrorInv
  <2> QED
    BY <2>1, <2>2, <2>3
<1> QED
  BY <1>1, <1>4 DEF MirrorInv, Twice

(* An aggregate goes out twice, any other packet once.                             *)
LEMMA StapMirrors ==
  ASSUME TypeOK, MirrorInv, SendStap(StapPacket)
  PROVE  rtspOut' = Twice(udpOut')
<1> DEFINE p == StapPacket
<1>1. /\ p \in PacketType /\ p.type = "stap"
      /\ rtspOut' = rtspOut \o <<p, p>> /\ udpOut' = Append(udpOut, p)
  BY StapType, StapPacketFits DEF TypeOK, SizeTables, SendStap
<1>2. udpOut \in Seq(PacketType) /\ rtspOut = Twice(udpOut)
  BY DEF TypeOK, MirrorInv
<1> HIDE DEF p
<1>3. Twice(udpOut') = Doubled(rtspOut, p)
  BY <1>1, <1>2, DoubleAppend
<1> QED
  BY <1>1, <1>3 DEF Doubled

LEMMA MediaMirrors ==
  ASSUME TypeOK, MirrorInv, NEW p \in PacketType, p.type # "stap", SendToAll(p)
  PROVE  rtspOut' = Twice(udpOut')
<1>1. udpOut \in Seq(PacketType) /\ rtspOut = Twice(udpOut)
  BY DEF TypeOK, MirrorInv
<1>2. Twice(Append(udpOut, p)) = Doubled(rtspOut, p)
  BY <1>1, DoubleAppend
<1> QED
  BY <1>2 DEF SendToAll, Doubled

LEMMA StepMirrors == TypeOK /\ MirrorInv /\ [Next]_vars => MirrorInv'
<1> SUFFICES ASSUME TypeOK, MirrorInv, [Next]_vars PROVE MirrorInv'
  OBVIOUS
<1>1. ASSUME rtspOut' = Twice(udpOut'), UNCHANGED <<sizes, sdp>> PROVE MirrorInv'
  <2>1. SdpInv'
    BY <1>1 DEF SdpInv, MirrorInv
  <2>2. rtspOut' = Twice(udpOut)'
    BY <1>1 DEF Twice
  <2> QED
    BY <2>1, <2>2, Zenon DEF MirrorInv
<1>2. ASSUME UNCHANGED <<udpOut, rtspOut, sizes, sdp>> PROVE MirrorInv'
  BY <1>1, <1>2 DEF MirrorInv, Twice
<1>3. ASSUME NEW au \in AccessUnits, Receive(au) PROVE MirrorInv'
  BY <1>3, ReceiveMirrors
<1>4. CASE BeforeIdr \/ Refresh
  <2>1. UNCHANGED <<sizes, sdp>> /\ (SendStap(StapPacket) \/ UNCHANGED <<udpOut, rtspOut>>)
    BY <1>4 DEF BeforeIdr, Refresh, paramVars, outVars
  <2> QED
    BY <1>1, <1>2, <2>1, StapMirrors
<1>5. CASE SendSingle
  <2>1. next \in 1..Len(units)
    BY <1>5, UnitsAre DEF SendSingle, AtUnit, TypeOK
  <2>2. SinglePacket(units[next]) \in PacketType /\ SinglePacket(units[next]).type = "single"
    BY <1>5, <2>1, UnitsAre, SinglePacketFits DEF SendSingle, TypeOK
  <2>3. SendToAll(SinglePacket(units[next])) /\ UNCHANGED <<sizes, sdp>>
    BY <1>5 DEF SendSingle, paramVars
  <2> QED
    BY <1>1, <2>2, <2>3, MediaMirrors
<1>6. CASE SendFragment
  <2>1. FragmentPacket(units[next], Payload) \in PacketType
        /\ FragmentPacket(units[next], Payload).type = "fu"
    BY PayloadFits, FragmentPacketFits DEF TypeOK
  <2>2. SendToAll(FragmentPacket(units[next], Payload)) /\ UNCHANGED <<sizes, sdp>>
    BY <1>6 DEF SendFragment, paramVars, Payload
  <2> QED
    BY <1>1, <2>1, <2>2, MediaMirrors
<1>7. CASE SkipParameterSet \/ StartFragments \/ Finish \/ UNCHANGED vars
  BY <1>2, <1>7 DEF SkipParameterSet, StartFragments, Finish, paramVars, outVars, vars
<1> QED
  BY <1>3, <1>4, <1>5, <1>6, <1>7, Zenon DEF Next

(* RTSP clients are sent what UDP receivers are, in the same order, each aggregate *)
(* exactly twice in a row with one number, and the SDP shows the latest parameter  *)
(* sets whenever no access unit is being handled and both kinds are known.          *)
THEOREM RtspClientsSeeTheStream == Spec => []RtspMirrorsUdp
<1>1. Init => MirrorInv
  <2> SUFFICES ASSUME Init PROVE MirrorInv
    OBVIOUS
  <2>1. rtspOut = << >> /\ udpOut = << >>
    BY DEF Init
  <2>2. ~Complete(sizes)
    <3>1. "sps" \in ParameterKinds
      BY DEF ParameterKinds
    <3>2. sizes = [k \in ParameterKinds |-> [d \in Ids |-> 0]]
      BY Zenon DEF Init
    <3>3. KnownIds(sizes, "sps") = {}
      BY <3>1, <3>2 DEF KnownIds
    <3> QED
      BY <3>1, <3>3 DEF Complete
  <2> QED
    BY <2>1, <2>2, DoubleEmpty DEF MirrorInv, SdpInv
<1>2. TypeOK /\ MirrorInv /\ [Next]_vars => MirrorInv'
  BY StepMirrors
<1>3. MirrorInv => RtspMirrorsUdp
  BY Zenon DEF MirrorInv, SdpInv, Twice, RtspMirrorsUdp
<1> QED
  BY <1>1, <1>2, <1>3, InitTypes, StepTypes, PTL DEF Spec

-----------------------------------------------------------------------------
(* The access unit being sent.                                                   *)
CurrentAU == Only(udpOut, "ts", {timestamp})

(* What a step does to the UDP output.                                           *)
Sends(p) ==
  /\ p \in PacketType /\ p.ts = timestamp
  /\ udpOut' = Append(udpOut, p)
  /\ pc \in {"idr", "refresh", "units", "fragment"}
  /\ pc' \in {"refresh", "units", "fragment"}
  /\ UNCHANGED <<timestamp, sizes, units>>

LEMMA StapSends ==
  ASSUME TypeOK, BeforeIdr \/ Refresh
  PROVE  UNCHANGED udpOut \/ Sends(StapPacket)
<1>1. StapPacket \in PacketType /\ StapPacket.ts = timestamp
  BY StapPacketFits DEF TypeOK, SizeTables
<1>2. udpOut' = Append(udpOut, StapPacket) \/ UNCHANGED udpOut
  BY Zenon DEF BeforeIdr, Refresh, SendStap, outVars
<1>3. /\ pc \in {"idr", "refresh"} /\ pc' \in {"refresh", "units"}
      /\ UNCHANGED <<timestamp, sizes, units>>
  BY DEF BeforeIdr, Refresh, inputVars, paramVars
<1> QED
  BY <1>1, <1>2, <1>3 DEF Sends

LEMMA SingleSends ==
  ASSUME TypeOK, SendSingle
  PROVE  /\ next \in 1..Len(units) /\ units[next].kind \in MediaKinds
         /\ units[next].size \in Nat \ {0}
         /\ Sends(SinglePacket(units[next])) /\ next' = next + 1
         /\ pc = "units" /\ pc' = "units" /\ remaining' = remaining
         /\ SinglePacket(units[next]).type = "single"
         /\ SinglePacket(units[next]).size = HeaderSize + units[next].size
         /\ SinglePacket(units[next]).marker = IsLast
<1>1. next \in 1..Len(units)
  BY UnitsAre DEF SendSingle, AtUnit, TypeOK
<1>2. units[next].kind \in MediaKinds /\ units[next].size \in Nat \ {0}
  BY <1>1, UnitsAre DEF SendSingle
<1>3. /\ SinglePacket(units[next]) \in PacketType /\ SinglePacket(units[next]).ts = timestamp
      /\ SinglePacket(units[next]).type = "single"
      /\ SinglePacket(units[next]).size = HeaderSize + units[next].size
      /\ SinglePacket(units[next]).marker = IsLast
  BY <1>2, SinglePacketFits DEF SendSingle, TypeOK
<1>4. /\ udpOut' = Append(udpOut, SinglePacket(units[next])) /\ next' = next + 1
      /\ pc = "units" /\ UNCHANGED <<pc, timestamp, sizes, units, remaining>>
  BY DEF SendSingle, SendToAll, AtUnit, paramVars
<1>5. Sends(SinglePacket(units[next]))
  BY <1>3, <1>4 DEF Sends
<1> QED
  BY <1>1, <1>2, <1>3, <1>4, <1>5

LEMMA FragmentSends ==
  ASSUME TypeOK, SendFragment
  PROVE  LET p == FragmentPacket(units[next], Payload)
         IN  /\ Sends(p) /\ pc = "fragment" /\ remaining' = remaining - Payload
             /\ IF remaining = Payload THEN pc' = "units" /\ next' = next + 1
                                       ELSE pc' = "fragment" /\ next' = next
             /\ p.type = "fu" /\ p.size = HeaderSize + 2 + Payload
             /\ p.start = (remaining = units[next].size - 1)
             /\ p.end = (remaining <= Payload)
             /\ p.marker = (remaining <= Payload /\ IsLast)
<1> DEFINE p == FragmentPacket(units[next], Payload)
<1>1. /\ p \in PacketType /\ p.ts = timestamp /\ p.type = "fu" /\ p.size = HeaderSize + 2 + Payload
      /\ p.start = (remaining = units[next].size - 1) /\ p.end = (remaining <= Payload)
      /\ p.marker = (remaining <= Payload /\ IsLast)
  <2>1. /\ sequence \in 0..(SequenceModulus - 1) /\ timestamp \in Nat /\ remaining \in Nat
        /\ Payload \in Nat /\ Payload <= MaxFragPayload
    BY PayloadFits DEF TypeOK
  <2> QED
    BY <2>1, FragmentPacketFits, Zenon
<1>2. /\ udpOut' = Append(udpOut, p) /\ pc = "fragment" /\ remaining' = remaining - Payload
      /\ IF remaining = Payload THEN pc' = "units" /\ next' = next + 1
                                ELSE UNCHANGED <<pc, next>>
      /\ UNCHANGED <<timestamp, sizes, units>>
  BY DEF SendFragment, SendToAll, paramVars, Payload
<1> HIDE DEF p
<1>3. Sends(p)
  BY <1>1, <1>2 DEF Sends
<1> QED
  BY <1>1, <1>2, <1>3, Zenon DEF p

LEMMA StepSends ==
  ASSUME TypeOK, [Next]_vars
  PROVE  UNCHANGED udpOut \/ \E p : Sends(p)
<1>1. CASE BeforeIdr \/ Refresh
  BY <1>1, StapSends
<1>2. CASE SendSingle
  BY <1>2, SingleSends
<1>3. CASE SendFragment
  BY <1>3, FragmentSends
<1>4. CASE (\E au \in AccessUnits : Receive(au)) \/ SkipParameterSet \/ StartFragments \/ Finish
           \/ UNCHANGED vars
  BY <1>4 DEF Receive, SkipParameterSet, StartFragments, Finish, outVars, vars
<1> QED
  BY <1>1, <1>2, <1>3, <1>4, Zenon DEF Next

LEMMA SendsAppends ==
  ASSUME TypeOK, NEW p, Sends(p)
  PROVE  /\ CurrentAU \in Seq(PacketType) /\ CurrentAU' = Append(CurrentAU, p)
         /\ Len(udpOut) \in Nat /\ Len(udpOut') = Len(udpOut) + 1
         /\ udpOut'[Len(udpOut) + 1] = p
         /\ \A i \in 1..Len(udpOut) : udpOut'[i] = udpOut[i]
<1>1. udpOut \in Seq(PacketType) /\ p \in PacketType /\ p["ts"] \in {timestamp}
      /\ udpOut' = Append(udpOut, p) /\ timestamp' = timestamp
  BY DEF TypeOK, Sends
<1>2. /\ Only(udpOut, "ts", {timestamp}) \in Seq(PacketType)
      /\ Only(Append(udpOut, p), "ts", {timestamp}) = Append(Only(udpOut, "ts", {timestamp}), p)
  <2>1. Only(Append(udpOut, p), "ts", {timestamp}) = Append(Only(udpOut, "ts", {timestamp}), p)
    BY <1>1, OnlyKeeps
  <2>2. Only(udpOut, "ts", {timestamp}) \in Seq(PacketType)
    BY <1>1, OnlyAppend, Zenon
  <2> QED
    BY <1>1, <2>1, <2>2, Zenon
<1>3. /\ Len(udpOut) \in Nat /\ Len(udpOut') = Len(udpOut) + 1
      /\ udpOut'[Len(udpOut) + 1] = p
      /\ \A i \in 1..Len(udpOut) : udpOut'[i] = udpOut[i]
  BY <1>1, LenProperties, AppendProperties
<1> QED
  BY <1>1, <1>2, <1>3 DEF CurrentAU

(* Where the second pass is, and which timestamps have been used.                *)
Progress ==
  /\ next <= Len(units) + 1
  /\ pc \in {"idr", "refresh"} => next = 1
  /\ pc = "idle" => next = Len(units) + 1
  /\ pc = "fragment" => /\ next <= Len(units) /\ units[next].kind \in MediaKinds
                        /\ units[next].size > MaxSinglePayload
                        /\ remaining \in 1..(units[next].size - 1)
  /\ \A i \in 1..Len(udpOut) :
       udpOut[i].ts <= timestamp /\ (pc \in {"idle", "idr"} => udpOut[i].ts < timestamp)

LEMMA InitProgress == Init => Progress
<1> SUFFICES ASSUME Init PROVE Progress
  OBVIOUS
<1>1. udpOut = << >> /\ units = << >> /\ next = 1 /\ pc = "idle"
  BY Zenon DEF Init
<1>2. Len(udpOut) = 0 /\ Len(units) = 0
  BY <1>1, EmptySeq
<1> QED
  BY <1>1, <1>2 DEF Progress

LEMMA Timestamps ==
  ASSUME [Next]_vars
  PROVE  \/ timestamp' = timestamp /\ (pc' \in {"idle", "idr"} => pc \in {"idle", "idr"})
         \/ timestamp' = timestamp + 3000
<1> DEFINE Goal == \/ timestamp' = timestamp
                      /\ (pc' \in {"idle", "idr"} => pc \in {"idle", "idr"})
                   \/ timestamp' = timestamp + 3000
<1>1. ASSUME Finish PROVE Goal
  BY <1>1 DEF Finish, TimestampStep
<1>2. ASSUME NEW au \in AccessUnits, Receive(au) PROVE Goal
  BY <1>2 DEF Receive, headerVars
<1>3. ASSUME BeforeIdr \/ Refresh \/ SkipParameterSet \/ SendSingle PROVE Goal
  BY <1>3 DEF BeforeIdr, Refresh, SkipParameterSet, SendSingle, headerVars, AtUnit
<1>4. ASSUME StartFragments \/ SendFragment PROVE Goal
  BY <1>4 DEF StartFragments, SendFragment, headerVars, AtUnit
<1>5. ASSUME UNCHANGED vars PROVE Goal
  BY <1>5 DEF vars, headerVars
<1> HIDE DEF Goal
<1>6. Goal
  BY <1>1, <1>2, <1>3, <1>4, <1>5, Zenon DEF Next
<1> QED
  BY <1>6 DEF Goal

LEMMA StepProgress == TypeOK /\ Progress /\ [Next]_vars => Progress'
<1> SUFFICES ASSUME TypeOK, Progress, [Next]_vars PROVE Progress'
  OBVIOUS
<1> DEFINE Place == /\ next <= Len(units) + 1
                    /\ pc \in {"idr", "refresh"} => next = 1
                    /\ pc = "idle" => next = Len(units) + 1
                    /\ pc = "fragment" => /\ next <= Len(units)
                                          /\ units[next].kind \in MediaKinds
                                          /\ units[next].size > MaxSinglePayload
                                          /\ remaining \in 1..(units[next].size - 1)
           Stamps == \A i \in 1..Len(udpOut) :
                       /\ udpOut[i].ts <= timestamp
                       /\ pc \in {"idle", "idr"} => udpOut[i].ts < timestamp
<1>1. Place /\ Stamps
  BY DEF Progress
<1>2. Len(units) \in Nat /\ next \in Nat \ {0}
  BY UnitsAre DEF TypeOK
<1>3. Place'
  <2>1. CASE \E au \in AccessUnits : Receive(au)
    <3>1. PICK au \in AccessUnits : Receive(au)
      BY <2>1
    <3>2. Len(units') \in Nat
      BY <3>1, NalUnitsType, LenProperties DEF Receive
    <3>3. next' = 1 /\ pc' = "idr"
      BY <3>1 DEF Receive
    <3> QED
      BY <3>2, <3>3
  <2>2. CASE BeforeIdr
    <3>1. pc = "idr" /\ pc' = "refresh" /\ UNCHANGED <<next, units>>
      BY <2>2 DEF BeforeIdr, inputVars
    <3> QED
      BY <1>1, <1>2, <3>1
  <2>3. CASE Refresh
    <3>1. pc' = "units" /\ UNCHANGED <<next, units>>
      BY <2>3 DEF Refresh, inputVars
    <3> QED
      BY <1>1, <1>2, <3>1
  <2>4. CASE SkipParameterSet
    <3>1. pc = "units" /\ next <= Len(units) /\ next' = next + 1 /\ UNCHANGED <<pc, units>>
      BY <2>4 DEF SkipParameterSet, AtUnit
    <3> QED
      BY <1>2, <3>1
  <2>5. CASE SendSingle
    <3>1. next \in 1..Len(units) /\ next' = next + 1 /\ pc' = "units" /\ units' = units
      BY <2>5, SingleSends DEF Sends
    <3> QED
      BY <1>2, <3>1
  <2>6. CASE StartFragments
    <3>1. /\ next <= Len(units) /\ units[next].kind \notin ParameterKinds
          /\ units[next].size > MaxSinglePayload
          /\ remaining' = units[next].size - 1 /\ pc' = "fragment" /\ UNCHANGED <<next, units>>
      BY <2>6 DEF StartFragments, AtUnit
    <3>2. units[next].kind \in MediaKinds /\ units[next].size \in Nat
      BY <1>2, <3>1, UnitsAre
    <3>3. remaining' \in 1..(units[next].size - 1)
      BY <3>1, <3>2, Sizes
    <3> QED
      BY <1>2, <3>1, <3>2, <3>3
  <2>7. CASE SendFragment
    <3>1. /\ pc = "fragment" /\ remaining' = remaining - Payload /\ units' = units
          /\ IF remaining = Payload THEN pc' = "units" /\ next' = next + 1
                                    ELSE pc' = "fragment" /\ next' = next
      BY <2>7, FragmentSends DEF Sends
    <3>2. /\ Payload \in Nat /\ Payload <= remaining /\ remaining \in Nat
          /\ Payload > 0 \/ remaining = 0
      BY PayloadFits DEF TypeOK
    <3>3. CASE remaining = Payload
      BY <1>1, <1>2, <3>1, <3>3
    <3>4. CASE remaining # Payload
      <4>1. units[next].size \in Nat
        BY <1>1, <1>2, <3>1, UnitsAre
      <4>2. remaining' \in 1..(units[next].size - 1)
        BY <1>1, <3>1, <3>2, <3>4, <4>1
      <4> QED
        BY <1>1, <1>2, <3>1, <3>4, <4>2
    <3> QED
      BY <3>3, <3>4
  <2>8. CASE Finish
    <3>1. next > Len(units) /\ pc' = "idle" /\ UNCHANGED <<next, units>>
      BY <2>8 DEF Finish, inputVars
    <3> QED
      BY <1>1, <1>2, <3>1
  <2>9. CASE UNCHANGED vars
    BY <1>1, <2>9 DEF vars, inputVars
  <2> HIDE DEF Place
  <2> QED
    BY <2>1, <2>2, <2>3, <2>4, <2>5, <2>6, <2>7, <2>8, <2>9, Zenon DEF Next
<1>4. Stamps'
  <2>1. CASE UNCHANGED udpOut
    <3>0. \A i \in 1..Len(udpOut) : udpOut[i].ts \in Nat
      <4>1. \A i \in 1..Len(udpOut) : udpOut[i] \in PacketType
        BY ElementOfSeq DEF TypeOK
      <4> QED
        BY <4>1 DEF PacketType
    <3>1. \/ timestamp' = timestamp /\ (pc' \in {"idle", "idr"} => pc \in {"idle", "idr"})
          \/ timestamp' = timestamp + 3000
      BY Timestamps
    <3>2. CASE timestamp' = timestamp /\ (pc' \in {"idle", "idr"} => pc \in {"idle", "idr"})
      BY <1>1, <2>1, <3>2
    <3>3. CASE timestamp' = timestamp + 3000
      <4>1. timestamp \in Nat
        BY DEF TypeOK
      <4> QED
        BY <1>1, <2>1, <3>0, <3>3, <4>1
    <3> QED
      BY <3>1, <3>2, <3>3
  <2>2. ASSUME NEW p, Sends(p) PROVE Stamps'
    <3>1. /\ Len(udpOut) \in Nat /\ Len(udpOut') = Len(udpOut) + 1
          /\ udpOut'[Len(udpOut) + 1] = p
          /\ \A i \in 1..Len(udpOut) : udpOut'[i] = udpOut[i]
      BY <2>2, SendsAppends
    <3>2. p.ts = timestamp /\ timestamp' = timestamp /\ timestamp \in Nat
          /\ pc' \notin {"idle", "idr"}
      BY <2>2 DEF Sends, TypeOK
    <3> QED
      BY <1>1, <3>1, <3>2
  <2> HIDE DEF Stamps
  <2> QED
    BY <2>1, <2>2, StepSends
<1> QED
  BY <1>3, <1>4 DEF Progress

-----------------------------------------------------------------------------
(* What a receiver makes of an access unit.                                      *)
LEMMA NonePicked ==
  ASSUME TypeOK, NEW t, \A i \in 1..Len(udpOut) : udpOut[i].ts # t
  PROVE  Only(udpOut, "ts", {t}) = << >>
<1> DEFINE X == {p \in PacketType : p.ts # t}
           y == Only(udpOut, "ts", {t})
<1>1. udpOut \in Seq(X)
  <2>1. Len(udpOut) \in Nat /\ udpOut = [i \in 1..Len(udpOut) |-> udpOut[i]]
    BY LenProperties DEF TypeOK
  <2>2. \A i \in 1..Len(udpOut) : udpOut[i] \in X
    BY ElementOfSeq DEF TypeOK
  <2> HIDE DEF X
  <2> QED
    BY <2>1, <2>2, IsASeq
<1>2. y \in Seq({x \in X : x["ts"] \in {t}})
  <2> HIDE DEF X
  <2> QED
    BY <1>1, OnlyType
<1>3. {x \in X : x["ts"] \in {t}} = {}
  OBVIOUS
<1>4. y \in Seq({})
  <2> HIDE DEF y, X
  <2> QED
    BY <1>2, <1>3
<1> HIDE DEF y
<1>5. Len(y) \in Nat /\ \A i \in 1..Len(y) : y[i] \in {}
  BY <1>4, LenProperties, ElementOfSeq
<1>6. Len(y) = 0
  BY <1>5
<1>7. y = << >>
  BY <1>4, <1>6, EmptySeq
<1> QED
  BY <1>7 DEF y

LEMMA NothingSentYet == TypeOK /\ Progress /\ pc \in {"idle", "idr"} => CurrentAU = << >>
<1> SUFFICES ASSUME TypeOK, Progress, pc \in {"idle", "idr"} PROVE CurrentAU = << >>
  OBVIOUS
<1>1. \A i \in 1..Len(udpOut) : udpOut[i].ts # timestamp
  <2>1. \A i \in 1..Len(udpOut) : udpOut[i].ts < timestamp /\ udpOut[i] \in PacketType
    BY ElementOfSeq DEF Progress, TypeOK
  <2>2. \A i \in 1..Len(udpOut) : udpOut[i].ts \in Nat
    BY <2>1 DEF PacketType
  <2> QED
    BY <2>1, <2>2 DEF TypeOK
<1> QED
  BY <1>1, NonePicked DEF CurrentAU

LEMMA AcceptStap ==
  ASSUME NEW r \in Receivers, NEW p, p.type = "stap", r.ok, r.open = 0
  PROVE  Accept(r, p).ok /\ Accept(r, p).open = 0 /\ Accept(r, p).done = r.done
<1>1. Accept(r, p) = [r EXCEPT !.ok = r.ok /\ r.open = 0]
  BY Zenon DEF Accept
<1>2. (r.ok /\ r.open = 0) = TRUE
  OBVIOUS
<1>3. Accept(r, p) = [r EXCEPT !.ok = TRUE]
  BY <1>1, <1>2
<1> QED
  BY <1>3 DEF Receivers

LEMMA AcceptSingle ==
  ASSUME NEW r \in Receivers, NEW p, p.type = "single", r.ok, r.open = 0
  PROVE  /\ Accept(r, p).ok /\ Accept(r, p).open = 0
         /\ Accept(r, p).done = Append(r.done, p.size - HeaderSize)
<1> DEFINE done == Append(r.done, p.size - HeaderSize)
<1>1. Accept(r, p) = [r EXCEPT !.ok = r.ok /\ r.open = 0, !.done = done]
  BY Zenon DEF Accept
<1>2. (r.ok /\ r.open = 0) = TRUE
  OBVIOUS
<1> HIDE DEF done
<1>3. Accept(r, p) = [r EXCEPT !.ok = TRUE, !.done = done]
  BY <1>1, <1>2
<1>4. Accept(r, p).ok /\ Accept(r, p).open = 0 /\ Accept(r, p).done = done
  BY <1>3 DEF Receivers
<1> QED
  BY <1>4 DEF done

LEMMA AcceptFragment ==
  ASSUME NEW r \in Receivers, NEW p, NEW payload, payload = p.size - HeaderSize - 2,
         NEW total, total = payload + IF p.start THEN 1 ELSE r.open,
         p.type = "fu", r.ok, p.start = (r.open = 0), ~(p.start /\ p.end), payload > 0
  PROVE  /\ Accept(r, p).ok
         /\ Accept(r, p).open = IF p.end THEN 0 ELSE total
         /\ Accept(r, p).done = IF p.end THEN Append(r.done, total) ELSE r.done
<1>1. Accept(r, p) = [ok |-> r.ok /\ p.start = (r.open = 0) /\ ~(p.start /\ p.end) /\ payload > 0,
                      open |-> IF p.end THEN 0 ELSE total,
                      done |-> IF p.end THEN Append(r.done, total) ELSE r.done]
  BY Zenon DEF Accept
<1>2. (r.ok /\ p.start = (r.open = 0) /\ ~(p.start /\ p.end) /\ payload > 0) = TRUE
  BY Zenon
<1>3. Accept(r, p) = [ok |-> TRUE, open |-> IF p.end THEN 0 ELSE total,
                      done |-> IF p.end THEN Append(r.done, total) ELSE r.done]
  BY <1>1, <1>2
<1> QED
  BY <1>3

SizesOf(s) == [i \in 1..Len(s) |-> s[i].size]

LEMMA SizesOfAppend ==
  ASSUME NEW s \in Seq(UnitType), NEW u \in UnitType
  PROVE  SizesOf(Append(s, u)) = Append(SizesOf(s), u.size)
<1> DEFINE t == Append(s, u)
           a == SizesOf(t)
           b == Append(SizesOf(s), u.size)
<1>1. /\ Len(s) \in Nat /\ t \in Seq(UnitType) /\ Len(t) = Len(s) + 1 /\ t[Len(s) + 1] = u
      /\ \A i \in 1..Len(s) : t[i] = s[i] /\ s[i] \in UnitType
  BY LenProperties, AppendProperties, ElementOfSeq
<1>2. SizesOf(s) \in Seq(Nat) /\ Len(SizesOf(s)) = Len(s)
      /\ \A i \in 1..Len(s) : SizesOf(s)[i] = s[i].size
  <2>1. \A i \in 1..Len(s) : s[i].size \in Nat
    BY <1>1 DEF UnitType
  <2> QED
    BY <1>1, <2>1 DEF SizesOf
<1>3. u.size \in Nat
  BY DEF UnitType
<1>4. b \in Seq(Nat) /\ Len(b) = Len(s) + 1 /\ b[Len(s) + 1] = u.size
      /\ \A i \in 1..Len(s) : b[i] = s[i].size
  BY <1>2, <1>3, AppendProperties
<1>5. a \in Seq(Nat) /\ Len(a) = Len(s) + 1 /\ \A i \in 1..(Len(s) + 1) : a[i] = t[i].size
  <2> HIDE DEF t
  <2>1. \A i \in 1..Len(t) : t[i] \in UnitType
    BY <1>1, ElementOfSeq
  <2>2. \A i \in 1..Len(t) : t[i].size \in Nat
    BY <2>1 DEF UnitType
  <2> QED
    BY <1>1, <2>2 DEF SizesOf
<1> HIDE DEF a, b, t
<1>6. ASSUME NEW i \in 1..Len(a) PROVE a[i] = b[i]
  <2>1. CASE i <= Len(s)
    <3>1. i \in 1..Len(s) /\ i \in 1..(Len(s) + 1)
      BY <1>1, <1>5, <2>1
    <3>2. a[i] = t[i].size /\ t[i] = s[i] /\ b[i] = s[i].size
      BY <1>1, <1>4, <1>5, <3>1
    <3> QED
      BY <3>2
  <2>2. CASE i = Len(s) + 1
    BY <1>1, <1>4, <1>5, <2>2
  <2> QED
    BY <1>1, <1>5, <2>1, <2>2
<1>7. a = b
  BY <1>4, <1>5, <1>6, SeqEqual
<1> QED
  BY <1>7 DEF a, b, t

(* The units sent so far.                                                        *)
Sent == Only(SubSeq(units, 1, next - 1), "kind", MediaKinds)

LEMMA SentNext ==
  ASSUME TypeOK, next \in 1..Len(units), units' = units, next' = next + 1
  PROVE  /\ units[next] \in UnitType
         /\ Sent \in Seq(UnitType)
         /\ units[next].kind \in MediaKinds => Sent' = Append(Sent, units[next])
         /\ units[next].kind \notin MediaKinds => Sent' = Sent
<1>1. units \in Seq(UnitType) /\ Len(units) \in Nat
  BY UnitsAre DEF TypeOK, UnitType
<1> DEFINE m == next - 1
           s == SubSeq(units, 1, m)
           u == units[next]
<1>2. m \in Nat /\ m < Len(units) /\ m + 1 = next
  BY <1>1
<1>3. s \in Seq(UnitType) /\ u \in UnitType /\ SubSeq(units, 1, next) = Append(s, u)
  <2> HIDE DEF m
  <2> QED
    BY <1>1, <1>2, OneMore
<1>4. Sent' = Only(SubSeq(units, 1, next), "kind", MediaKinds)
  <2>1. next' - 1 = next
    BY <1>1
  <2> QED
    BY <2>1 DEF Sent
<1>5. Sent = Only(s, "kind", MediaKinds)
  BY DEF Sent
<1> HIDE DEF s, u
<1>6. Only(s, "kind", MediaKinds) \in Seq(UnitType)
  BY <1>3, OnlyAppend
<1>7. u.kind \in MediaKinds =>
        Only(Append(s, u), "kind", MediaKinds) = Append(Only(s, "kind", MediaKinds), u)
  <2> SUFFICES ASSUME u["kind"] \in MediaKinds
               PROVE  Only(Append(s, u), "kind", MediaKinds)
                        = Append(Only(s, "kind", MediaKinds), u)
    OBVIOUS
  <2> QED
    BY <1>3, OnlyKeeps
<1>8. u.kind \notin MediaKinds =>
        Only(Append(s, u), "kind", MediaKinds) = Only(s, "kind", MediaKinds)
  <2> SUFFICES ASSUME u["kind"] \notin MediaKinds
               PROVE  Only(Append(s, u), "kind", MediaKinds) = Only(s, "kind", MediaKinds)
    OBVIOUS
  <2> QED
    BY <1>3, OnlyDrops
<1> QED
  BY <1>3, <1>4, <1>5, <1>6, <1>7, <1>8 DEF u

LEMMA NoneSent ==
  ASSUME next = 1
  PROVE  SizesOf(Sent) = << >>
<1>1. next - 1 = 0 /\ SubSeq(units, 1, 0) = << >>
  BY SubSeqEmpty
<1>2. Sent = << >>
  BY <1>1, OnlyEmpty DEF Sent
<1>3. Len(<< >>) = 0
  BY EmptySeq
<1> QED
  BY <1>2, <1>3 DEF SizesOf

(* A receiver of the current access unit has every unit sent so far, and of the    *)
(* unit being fragmented as many bytes as have been sent of it.                    *)
Receiver == Depacketize(CurrentAU)
Received ==
  /\ Receiver.ok
  /\ pc # "idle" => Receiver.done = SizesOf(Sent)
  /\ Receiver.open = IF pc = "fragment" /\ remaining # units[next].size - 1
                     THEN units[next].size - remaining ELSE 0

LEMMA ReceiverAccepts ==
  ASSUME TypeOK, NEW p, Sends(p)
  PROVE  Receiver \in Receivers /\ Receiver' = Accept(Receiver, p)
<1>1. CurrentAU \in Seq(PacketType) /\ CurrentAU' = Append(CurrentAU, p) /\ p \in PacketType
  BY SendsAppends DEF Sends
<1>2. /\ Depacketize(CurrentAU) \in Receivers
      /\ Depacketize(Append(CurrentAU, p)) = Accept(Depacketize(CurrentAU), p)
  BY <1>1, DepacketizeAppend
<1>3. Receiver' = Depacketize(CurrentAU')
  BY DEF Receiver
<1> QED
  BY <1>1, <1>2, <1>3 DEF Receiver

LEMMA InitReceived == Init => Received
<1> SUFFICES ASSUME Init PROVE Received
  OBVIOUS
<1>1. udpOut = << >> /\ pc = "idle"
  BY Zenon DEF Init
<1>2. Receiver = NewReceiver
  BY <1>1, OnlyEmpty, DepacketizeEmpty DEF Receiver, CurrentAU
<1> QED
  BY <1>1, <1>2 DEF Received, NewReceiver

LEMMA SameReceived ==
  ASSUME Received, pc # "idle", UNCHANGED <<udpOut, timestamp, units, next, remaining>>,
         pc' # "fragment", pc # "fragment"
  PROVE  Received'
<1>1. Receiver' = Receiver
  BY DEF Receiver, CurrentAU
<1>2. Sent' = Sent
  BY DEF Sent
<1> QED
  BY <1>1, <1>2 DEF Received

LEMMA StapReceived ==
  ASSUME TypeOK, Progress, Received, BeforeIdr \/ Refresh
  PROVE  Received'
<1>1. /\ pc \in {"idr", "refresh"} /\ pc' \in {"refresh", "units"} /\ next = 1
      /\ UNCHANGED <<timestamp, units, next, remaining>>
  BY DEF BeforeIdr, Refresh, inputVars, paramVars, Progress
<1>2. CASE UNCHANGED udpOut
  BY <1>1, <1>2, SameReceived
<1>3. CASE Sends(StapPacket)
  <2>1. Receiver \in Receivers /\ Receiver' = Accept(Receiver, StapPacket)
    BY <1>3, ReceiverAccepts
  <2>2. StapPacket.type = "stap"
    BY StapPacketFits DEF TypeOK, SizeTables
  <2>3. Receiver.ok /\ Receiver.open = 0 /\ Receiver.done = SizesOf(Sent)
    BY <1>1 DEF Received
  <2>4. Receiver'.ok /\ Receiver'.open = 0 /\ Receiver'.done = SizesOf(Sent)
    BY <2>1, <2>2, <2>3, AcceptStap
  <2>5. Sent' = Sent
    BY <1>1 DEF Sent
  <2> QED
    BY <1>1, <2>4, <2>5 DEF Received
<1> QED
  BY <1>2, <1>3, StapSends

LEMMA SkipReceived ==
  ASSUME TypeOK, Received, SkipParameterSet
  PROVE  Received'
<1>1. /\ pc = "units" /\ next \in 1..Len(units) /\ units[next].kind \in ParameterKinds
      /\ next' = next + 1 /\ UNCHANGED <<pc, udpOut, timestamp, units, remaining>>
  BY UnitsAre DEF SkipParameterSet, AtUnit, TypeOK, headerVars, outVars
<1>2. units[next].kind \notin MediaKinds
  BY <1>1 DEF ParameterKinds, MediaKinds
<1>3. Sent' = Sent
  BY <1>1, <1>2, SentNext
<1>4. Receiver' = Receiver
  BY <1>1 DEF Receiver, CurrentAU
<1> QED
  BY <1>1, <1>3, <1>4 DEF Received

LEMMA SingleReceived ==
  ASSUME TypeOK, Received, SendSingle
  PROVE  Received'
<1> DEFINE p == SinglePacket(units[next])
<1>1. /\ next \in 1..Len(units) /\ units[next].kind \in MediaKinds
      /\ units[next].size \in Nat \ {0} /\ Sends(p) /\ next' = next + 1 /\ pc = "units"
      /\ pc' = "units" /\ p.type = "single" /\ p.size = HeaderSize + units[next].size
  BY SingleSends
<1> HIDE DEF p
<1>2. Receiver \in Receivers /\ Receiver' = Accept(Receiver, p)
  BY <1>1, ReceiverAccepts
<1>3. Receiver.ok /\ Receiver.open = 0 /\ Receiver.done = SizesOf(Sent)
  BY <1>1 DEF Received
<1>4. p.size - HeaderSize = units[next].size
  BY <1>1 DEF HeaderSize
<1>5. /\ Receiver'.ok /\ Receiver'.open = 0
      /\ Receiver'.done = Append(SizesOf(Sent), units[next].size)
  BY <1>1, <1>2, <1>3, <1>4, AcceptSingle
<1>6. Sent \in Seq(UnitType) /\ units[next] \in UnitType /\ Sent' = Append(Sent, units[next])
  BY <1>1, SentNext DEF Sends
<1>7. SizesOf(Sent') = Append(SizesOf(Sent), units[next].size)
  BY <1>6, SizesOfAppend
<1> QED
  BY <1>1, <1>5, <1>7 DEF Received

LEMMA StartReceived ==
  ASSUME TypeOK, Received, StartFragments
  PROVE  Received'
<1>1. /\ pc = "units" /\ pc' = "fragment" /\ remaining' = units[next].size - 1
      /\ UNCHANGED <<udpOut, timestamp, units, next>>
  BY DEF StartFragments, AtUnit, headerVars, outVars
<1>2. Sent' = Sent
  BY <1>1 DEF Sent
<1>3. Receiver' = Receiver
  BY <1>1 DEF Receiver, CurrentAU
<1> QED
  BY <1>1, <1>2, <1>3 DEF Received

LEMMA FragmentReceived ==
  ASSUME TypeOK, Progress, Received, SendFragment
  PROVE  Received'
<1> DEFINE p == FragmentPacket(units[next], Payload)
           size == units[next].size
<1>1. /\ Sends(p) /\ pc = "fragment" /\ remaining' = remaining - Payload
      /\ IF remaining = Payload THEN pc' = "units" /\ next' = next + 1
                                ELSE pc' = "fragment" /\ next' = next
      /\ p.type = "fu" /\ p.size = HeaderSize + 2 + Payload
      /\ p.start = (remaining = size - 1) /\ p.end = (remaining <= Payload)
  BY FragmentSends
<1> HIDE DEF p
<1>2. Receiver \in Receivers /\ Receiver' = Accept(Receiver, p)
  BY <1>1, ReceiverAccepts
<1>3. /\ next \in 1..Len(units) /\ units[next].kind \in MediaKinds /\ size \in Nat
      /\ size > MaxSinglePayload /\ remaining \in 1..(size - 1)
  <2>1. next \in 1..Len(units)
    BY <1>1, UnitsAre DEF Progress, TypeOK
  <2>2. size \in Nat
    BY <2>1, UnitsAre
  <2> QED
    BY <1>1, <2>1, <2>2 DEF Progress
<1>4. /\ Payload \in Nat /\ Payload > 0 /\ Payload <= remaining /\ Payload <= MaxFragPayload
  BY <1>3, PayloadFits
<1>5. /\ Receiver.ok /\ Receiver.done = SizesOf(Sent)
      /\ Receiver.open = IF remaining # size - 1 THEN size - remaining ELSE 0
  BY <1>1 DEF Received
<1>6. p.size - HeaderSize - 2 = Payload
  BY <1>1, <1>4 DEF HeaderSize
<1> HIDE DEF size
<1>7. (remaining = size - 1) = (Receiver.open = 0)
  BY <1>3, <1>5
<1>8. ~(remaining = size - 1 /\ remaining <= Payload)
  BY <1>3, <1>4, Sizes
<1> DEFINE total == Payload + IF p.start THEN 1 ELSE Receiver.open
<1>9. total = size - (remaining - Payload)
  <2>1. CASE remaining = size - 1
    <3>1. p.start
      BY <1>1, <2>1, Zenon
    <3>2. total = Payload + 1
      BY <3>1
    <3> QED
      BY <1>3, <1>4, <2>1, <3>2
  <2>2. CASE remaining # size - 1
    <3>1. ~p.start
      BY <1>1, <2>2
    <3>2. total = Payload + (size - remaining)
      BY <1>5, <2>2, <3>1
    <3> QED
      BY <1>3, <1>4, <3>2
  <2> QED
    BY <2>1, <2>2
<1>10. total = Payload + IF p.start THEN 1 ELSE Receiver.open
  OBVIOUS
<1> HIDE DEF total
<1>11. p.start = (Receiver.open = 0) /\ ~(p.start /\ p.end)
  BY <1>1, <1>7, <1>8, Zenon
<1>12. /\ Receiver'.ok
       /\ Receiver'.open = IF p.end THEN 0 ELSE total
       /\ Receiver'.done = IF p.end THEN Append(SizesOf(Sent), total) ELSE SizesOf(Sent)
  BY <1>1, <1>2, <1>4, <1>5, <1>6, <1>10, <1>11, AcceptFragment
<1>13. units' = units
  BY <1>1 DEF Sends
<1>14. CASE remaining = Payload
  <2>1. p.end /\ total = size
    <3>1. remaining <= Payload
      BY <1>3, <1>14
    <3>2. p.end
      BY <1>1, <3>1, Zenon
    <3>3. total = size
      BY <1>3, <1>9, <1>14
    <3> QED
      BY <3>2, <3>3
  <2>2. Receiver'.open = 0 /\ Receiver'.done = Append(SizesOf(Sent), size)
    BY <1>12, <2>1
  <2>3. Sent \in Seq(UnitType) /\ units[next] \in UnitType /\ Sent' = Append(Sent, units[next])
    BY <1>1, <1>3, <1>13, <1>14, SentNext
  <2>4. SizesOf(Sent') = Append(SizesOf(Sent), size)
    BY <2>3, SizesOfAppend DEF size
  <2> QED
    BY <1>1, <1>12, <1>14, <2>2, <2>4 DEF Received
<1>15. CASE remaining # Payload
  <2>1. ~p.end
    <3>1. ~(remaining <= Payload)
      BY <1>3, <1>4, <1>15
    <3> QED
      BY <1>1, <3>1
  <2>2. Receiver'.open = total /\ Receiver'.done = SizesOf(Sent)
    BY <1>12, <2>1
  <2>3. remaining' # size - 1 /\ total = size - remaining'
    BY <1>1, <1>3, <1>4, <1>9
  <2>4. pc' = "fragment" /\ next' = next
    BY <1>1, <1>15
  <2>5. Sent' = Sent /\ units'[next'] = units[next]
    BY <1>13, <2>4 DEF Sent
  <2> QED
    BY <1>12, <2>2, <2>3, <2>4, <2>5 DEF Received, size
<1> QED
  BY <1>14, <1>15

LEMMA StepReceived == TypeOK /\ Progress /\ Received /\ [Next]_vars => Received'
<1> SUFFICES ASSUME TypeOK, Progress, Received, [Next]_vars PROVE Received'
  OBVIOUS
<1>1. ASSUME NEW au \in AccessUnits, Receive(au) PROVE Received'
  <2>1. pc = "idle" /\ next' = 1 /\ pc' = "idr" /\ UNCHANGED <<udpOut, timestamp>>
    BY <1>1 DEF Receive, headerVars, outVars
  <2>2. Receiver' = NewReceiver
    <3>1. CurrentAU' = << >>
      BY <2>1, NothingSentYet DEF CurrentAU
    <3> QED
      BY <3>1, DepacketizeEmpty DEF Receiver
  <2>3. SizesOf(Sent)' = << >>
    <3>1. next' - 1 = 0 /\ SubSeq(units', 1, 0) = << >>
      BY <2>1, SubSeqEmpty
    <3>2. Sent' = << >>
      BY <3>1, OnlyEmpty DEF Sent
    <3>3. Len(<< >>) = 0
      BY EmptySeq
    <3> QED
      BY <3>2, <3>3 DEF SizesOf
  <2> QED
    BY <2>1, <2>2, <2>3 DEF Received, NewReceiver
<1>2. CASE Finish
  <2>1. TypeOK' /\ Progress' /\ pc' = "idle"
    BY <1>2, StepTypes, StepProgress DEF Finish
  <2>2. (pc \in {"idle", "idr"})'
    BY <2>1
  <2>3. (CurrentAU = << >>)'
    BY <2>1, <2>2, NothingSentYet, PTL
  <2>4. Receiver' = NewReceiver
    BY <2>3, DepacketizeEmpty DEF Receiver
  <2> QED
    BY <2>1, <2>4 DEF Received, NewReceiver
<1>3. CASE UNCHANGED vars
  BY <1>3 DEF vars, inputVars, headerVars, outVars, Received, Receiver, CurrentAU, Sent
<1> QED
  BY <1>1, <1>2, <1>3, StapReceived, SkipReceived, SingleReceived, StartReceived,
     FragmentReceived, Zenon DEF Next

(* The access unit sent last, while none is being sent.                          *)
LastReceived ==
  pc = "idle" => LET r == Depacketize(LastAU)
                 IN  r.ok /\ r.open = 0 /\ r.done = SizesOf(MediaUnits)

LEMMA InitLastReceived == Init => LastReceived
<1> SUFFICES ASSUME Init PROVE LastReceived
  OBVIOUS
<1>1. udpOut = << >> /\ units = << >>
  BY Zenon DEF Init
<1>2. Depacketize(LastAU) = NewReceiver
  BY <1>1, OnlyEmpty, DepacketizeEmpty DEF LastAU
<1>3. MediaUnits = << >>
  BY <1>1, OnlyEmpty DEF MediaUnits
<1>4. SizesOf(MediaUnits) = << >>
  <2>1. Len(<< >>) = 0
    BY EmptySeq
  <2> QED
    BY <1>3, <2>1 DEF SizesOf
<1> QED
  BY <1>2, <1>4 DEF LastReceived, NewReceiver

(* Finishing turns the current access unit into the last one.                    *)
LEMMA FinishTurns ==
  ASSUME TypeOK, Progress, Finish
  PROVE  LastAU' = CurrentAU /\ MediaUnits' = Sent
<1>1. /\ pc = "units" /\ next > Len(units) /\ timestamp' = timestamp + TimestampStep
      /\ UNCHANGED <<units, udpOut>>
  BY DEF Finish, inputVars, outVars
<1>2. timestamp' - TimestampStep = timestamp
  BY <1>1 DEF TypeOK, TimestampStep
<1>3. LastAU' = CurrentAU
  BY <1>1, <1>2 DEF LastAU, CurrentAU
<1>4. next - 1 = Len(units)
  BY <1>1, UnitsAre DEF Progress, TypeOK
<1>5. SubSeq(units, 1, next - 1) = units
  BY <1>4, SubSeqFull DEF TypeOK
<1> QED
  BY <1>1, <1>3, <1>5 DEF MediaUnits, Sent

LEMMA StaysBusy ==
  ASSUME [Next]_vars, pc' = "idle"
  PROVE  Finish \/ UNCHANGED vars
<1>1. CASE BeforeIdr \/ Refresh \/ SkipParameterSet \/ SendSingle \/ StartFragments
  BY <1>1 DEF BeforeIdr, Refresh, SkipParameterSet, SendSingle, StartFragments, AtUnit
<1>2. CASE SendFragment
  BY <1>2 DEF SendFragment
<1>3. CASE \E au \in AccessUnits : Receive(au)
  BY <1>3 DEF Receive
<1> QED
  BY <1>1, <1>2, <1>3, Zenon DEF Next

LEMMA StepLastReceived == TypeOK /\ Progress /\ Received /\ LastReceived /\ [Next]_vars
                          => LastReceived'
<1> SUFFICES ASSUME TypeOK, Progress, Received, LastReceived, [Next]_vars, pc' = "idle"
             PROVE  LastReceived'
  BY DEF LastReceived
<1>1. CASE Finish
  <2>1. Depacketize(LastAU') = Receiver /\ SizesOf(MediaUnits') = SizesOf(Sent)
    BY <1>1, FinishTurns DEF Receiver
  <2>2. Receiver.ok /\ Receiver.open = 0 /\ Receiver.done = SizesOf(Sent)
    BY <1>1 DEF Received, Finish
  <2> QED
    BY <2>1, <2>2 DEF LastReceived
<1>2. CASE UNCHANGED vars
  BY <1>2 DEF vars, inputVars, headerVars, outVars, LastReceived, LastAU, MediaUnits
<1> QED
  BY <1>1, <1>2, StaysBusy

-----------------------------------------------------------------------------
(* The marker bit.  A marked packet ends the current access unit, or an earlier    *)
(* one.                                                                          *)
LastMarked == udpOut # << >> /\ udpOut[Len(udpOut)].marker
EndsInMedia == units # << >> /\ units[Len(units)].kind \in MediaKinds
MarkedEnds == LastMarked /\ udpOut[Len(udpOut)].ts = timestamp => pc = "units" /\ next > Len(units)
EndsMarked == pc \in {"idle", "units"} /\ next > Len(units) /\ EndsInMedia => LastMarked
MarkedIsLast == \A i \in 1..(Len(udpOut) - 1) :
                  udpOut[i].marker => udpOut[i + 1].ts > udpOut[i].ts
Marked == MarkedEnds /\ EndsMarked /\ MarkedIsLast

LEMMA InitMarked == Init => Marked
<1> SUFFICES ASSUME Init PROVE Marked
  OBVIOUS
<1>1. udpOut = << >> /\ units = << >> /\ Len(<< >>) = 0
  BY EmptySeq, Zenon DEF Init
<1> QED
  BY <1>1 DEF Marked, MarkedEnds, EndsMarked, MarkedIsLast, LastMarked, EndsInMedia

LEMMA SendMarks ==
  ASSUME TypeOK, Progress, Marked, NEW p, Sends(p),
         ~(pc = "units" /\ next > Len(units)),
         p.marker => pc' = "units" /\ next' > Len(units),
         pc' = "units" /\ next' > Len(units) /\ EndsInMedia => p.marker
  PROVE  Marked'
<1>1. /\ Len(udpOut) \in Nat /\ Len(udpOut') = Len(udpOut) + 1
      /\ udpOut'[Len(udpOut')] = p
      /\ \A i \in 1..Len(udpOut) : udpOut'[i] = udpOut[i]
  BY SendsAppends
<1>2. p.ts = timestamp /\ timestamp' = timestamp /\ timestamp \in Nat /\ units' = units
      /\ pc' # "idle"
  BY DEF Sends, TypeOK
<1>3. udpOut' # << >>
  <2>1. Len(udpOut') # 0 /\ Len(<< >>) = 0
    BY <1>1, EmptySeq
  <2> QED
    BY <2>1
<1>4. LastMarked' <=> p.marker
  BY <1>1, <1>3 DEF LastMarked
<1>5. MarkedEnds'
  BY <1>1, <1>2, <1>4 DEF MarkedEnds
<1>6. EndsMarked'
  BY <1>2, <1>4 DEF EndsMarked, EndsInMedia
<1>7. MarkedIsLast'
  <2> SUFFICES ASSUME NEW i \in 1..Len(udpOut), udpOut'[i].marker
               PROVE  udpOut'[i + 1].ts > udpOut'[i].ts
    BY <1>1 DEF MarkedIsLast
  <2>1. CASE i < Len(udpOut)
    <3>1. i \in 1..(Len(udpOut) - 1) /\ i + 1 \in 1..Len(udpOut)
      BY <1>1, <2>1
    <3> QED
      BY <1>1, <3>1 DEF Marked, MarkedIsLast
  <2>2. CASE i = Len(udpOut)
    <3>1. udpOut'[i] = udpOut[Len(udpOut)] /\ udpOut'[i + 1] = p
      BY <1>1, <2>2
    <3>2. LastMarked
      <4>1. Len(udpOut) # 0 /\ Len(<< >>) = 0
        BY <1>1, <2>2, EmptySeq
      <4> QED
        BY <3>1, <4>1 DEF LastMarked
    <3>3. udpOut[Len(udpOut)].ts # timestamp
      BY <3>2 DEF Marked, MarkedEnds
    <3>4. udpOut[Len(udpOut)].ts <= timestamp
      BY <2>2 DEF Progress
    <3>5. udpOut[Len(udpOut)].ts \in Nat
      <4>1. udpOut[Len(udpOut)] \in PacketType
        BY <2>2, ElementOfSeq DEF TypeOK
      <4> QED
        BY <4>1 DEF PacketType
    <3> QED
      BY <1>2, <3>1, <3>3, <3>4, <3>5
  <2> QED
    BY <1>1, <2>1, <2>2
<1> QED
  BY <1>5, <1>6, <1>7 DEF Marked

LEMMA StepMarked == TypeOK /\ Progress /\ Marked /\ [Next]_vars => Marked'
<1> SUFFICES ASSUME TypeOK, Progress, Marked, [Next]_vars PROVE Marked'
  OBVIOUS
<1>0. Len(units) \in Nat /\ next \in Nat \ {0} /\ Len(<< >>) = 0
  BY UnitsAre, EmptySeq DEF TypeOK
<1>1. CASE BeforeIdr \/ Refresh
  <2>1. /\ pc \in {"idr", "refresh"} /\ pc' \in {"refresh", "units"} /\ next = 1
        /\ UNCHANGED <<timestamp, units, next>>
    BY <1>1 DEF BeforeIdr, Refresh, inputVars, paramVars, Progress
  <2>2. ~(next > Len(units) /\ EndsInMedia)
    <3>1. next > Len(units) => Len(units) = 0
      BY <1>0, <2>1
    <3>2. Len(units) = 0 => units = << >>
      BY EmptySeq DEF TypeOK
    <3> QED
      BY <3>1, <3>2 DEF EndsInMedia
  <2>3. CASE UNCHANGED udpOut
    <3>1. LastMarked' = LastMarked /\ EndsInMedia' = EndsInMedia
      BY <2>1, <2>3 DEF LastMarked, EndsInMedia
    <3>2. MarkedEnds'
      BY <2>1, <2>3 DEF MarkedEnds, LastMarked, Marked
    <3>3. EndsMarked'
      BY <2>1, <2>2 DEF EndsMarked, EndsInMedia
    <3>4. MarkedIsLast'
      BY <2>3 DEF MarkedIsLast, Marked
    <3> QED
      BY <3>2, <3>3, <3>4 DEF Marked
  <2>4. CASE Sends(StapPacket)
    <3>1. ~StapPacket.marker
      BY StapPacketFits DEF TypeOK, SizeTables
    <3> QED
      BY <2>1, <2>2, <2>4, <3>1, SendMarks
  <2> QED
    BY <1>1, <2>3, <2>4, StapSends
<1>2. CASE SendSingle
  <2> DEFINE p == SinglePacket(units[next])
  <2>1. /\ next \in 1..Len(units) /\ Sends(p) /\ next' = next + 1
        /\ pc = "units" /\ pc' = "units" /\ p.marker = IsLast
    BY <1>2, SingleSends
  <2> HIDE DEF p
  <2>2. IsLast <=> next' > Len(units)
    BY <1>0, <2>1 DEF IsLast
  <2>3. p.marker <=> next' > Len(units)
    BY <2>1, <2>2, Zenon
  <2>4. ~(next > Len(units))
    BY <1>0, <2>1
  <2> QED
    BY <2>1, <2>3, <2>4, SendMarks
<1>3. CASE SendFragment
  <2> DEFINE p == FragmentPacket(units[next], Payload)
  <2>1. /\ Sends(p) /\ pc = "fragment"
        /\ IF remaining = Payload THEN pc' = "units" /\ next' = next + 1
                                  ELSE pc' = "fragment" /\ next' = next
        /\ p.marker = (remaining <= Payload /\ IsLast)
    BY <1>3, FragmentSends
  <2> HIDE DEF p
  <2>2. remaining <= Payload <=> remaining = Payload
    BY PayloadFits DEF TypeOK
  <2>3. next \in 1..Len(units)
    BY <1>0, <2>1 DEF Progress
  <2>4. IsLast <=> next + 1 > Len(units)
    BY <1>0, <2>3 DEF IsLast
  <2>5. p.marker <=> (remaining = Payload /\ next + 1 > Len(units))
    BY <2>1, <2>2, <2>4, Zenon
  <2>6. p.marker <=> (pc' = "units" /\ next' > Len(units))
    BY <2>1, <2>5
  <2> QED
    BY <2>1, <2>6, SendMarks
<1>4. CASE \E au \in AccessUnits : Receive(au)
  <2>1. pc = "idle" /\ pc' = "idr" /\ UNCHANGED <<udpOut, timestamp>>
    BY <1>4 DEF Receive, headerVars, outVars
  <2>2. MarkedEnds'
    BY <2>1 DEF MarkedEnds, LastMarked, Marked
  <2> QED
    BY <2>1, <2>2 DEF EndsMarked, MarkedIsLast, Marked
<1>5. CASE SkipParameterSet
  <2>1. /\ pc = "units" /\ next \in 1..Len(units) /\ units[next].kind \in ParameterKinds
        /\ next' = next + 1 /\ UNCHANGED <<pc, udpOut, timestamp, units>>
    BY <1>5, UnitsAre DEF SkipParameterSet, AtUnit, TypeOK, headerVars, outVars
  <2>2. ~(next > Len(units))
    BY <1>0, <2>1
  <2>3. next' > Len(units) => ~EndsInMedia
    <3>1. next' > Len(units) => next = Len(units)
      BY <1>0, <2>1
    <3> QED
      BY <2>1, <3>1 DEF EndsInMedia, ParameterKinds, MediaKinds
  <2>4. MarkedEnds'
    BY <2>1, <2>2 DEF MarkedEnds, LastMarked, Marked
  <2>5. EndsMarked'
    BY <2>1, <2>3 DEF EndsMarked, EndsInMedia
  <2> QED
    BY <2>1, <2>4, <2>5 DEF MarkedIsLast, Marked
<1>6. CASE StartFragments
  <2>1. /\ pc = "units" /\ ~(next > Len(units)) /\ pc' = "fragment"
        /\ UNCHANGED <<udpOut, timestamp, units, next>>
    BY <1>0, <1>6 DEF StartFragments, AtUnit, headerVars, outVars
  <2>2. MarkedEnds'
    BY <2>1 DEF MarkedEnds, LastMarked, Marked
  <2>3. EndsMarked'
    BY <2>1 DEF EndsMarked
  <2> QED
    BY <2>1, <2>2, <2>3 DEF MarkedIsLast, Marked
<1>7. CASE Finish
  <2>1. /\ pc = "units" /\ timestamp' = timestamp + 3000 /\ UNCHANGED <<udpOut, units, next>>
    BY <1>7 DEF Finish, inputVars, outVars, TimestampStep
  <2>2. MarkedEnds'
    <3>1. TypeOK' /\ timestamp \in Nat
      BY StepTypes DEF TypeOK
    <3>2. udpOut # << >> => Len(udpOut) \in 1..Len(udpOut)
      BY LenProperties, EmptySeq DEF TypeOK
    <3>3. udpOut # << >> => udpOut[Len(udpOut)] \in PacketType
      BY <3>2, ElementOfSeq DEF TypeOK
    <3>4. udpOut # << >> => udpOut[Len(udpOut)].ts \in Nat
      BY <3>3 DEF PacketType
    <3>5. udpOut # << >> => udpOut[Len(udpOut)].ts # timestamp'
      BY <2>1, <3>1, <3>2, <3>4 DEF Progress
    <3> QED
      BY <2>1, <3>5 DEF MarkedEnds, LastMarked
  <2>3. EndsMarked'
    BY <2>1 DEF EndsMarked, EndsInMedia, LastMarked, Marked
  <2> QED
    BY <2>1, <2>2, <2>3 DEF MarkedIsLast, Marked
<1>8. CASE UNCHANGED vars
  BY <1>8 DEF vars, inputVars, headerVars, outVars, Marked, MarkedEnds, EndsMarked, MarkedIsLast,
              LastMarked, EndsInMedia
<1> QED
  BY <1>1, <1>2, <1>3, <1>4, <1>5, <1>6, <1>7, <1>8, Zenon DEF Next

(* The units sent are those the first pass finds in the access unit at hand.       *)
Found == units = NalUnits(input)

LEMMA InitFound == Init => Found
<1> SUFFICES ASSUME Init PROVE Found
  OBVIOUS
<1>1. input = << >> /\ units = << >>
  BY DEF Init
<1>2. NalUnits(<< >>) = Only(<< >>, "size", Nat \ {0})
  <2> DEFINE all == [i \in 1..Len(<< >>) |->
                       [kind |-> << >>[i].kind, id |-> << >>[i].id, size |-> UnitSize(<< >>, i)]]
  <2>1. all = << >>
    OBVIOUS
  <2> QED
    BY <2>1, Zenon DEF NalUnits
<1> QED
  BY <1>1, <1>2, OnlyEmpty DEF Found

LEMMA StepFound == Found /\ [Next]_vars => Found'
<1> SUFFICES ASSUME Found, [Next]_vars PROVE Found'
  OBVIOUS
<1>1. \/ \E au \in AccessUnits : input' = au /\ units' = NalUnits(au)
      \/ UNCHANGED <<input, units>>
  BY DEF Next, vars, inputVars, Receive, BeforeIdr, Refresh, SkipParameterSet, SendSingle,
     StartFragments, SendFragment, Finish
<1> QED
  BY <1>1 DEF Found

(* Whatever units the encoder emits and whatever their sizes, a receiver that      *)
(* starts with an access unit gets exactly the units the first pass found in it,    *)
(* in order and with their sizes: those of the access unit when all its start       *)
(* codes have four bytes, but for the last four bytes of the last one.  It finds    *)
(* the marker bit on the last packet of an access unit only.                        *)
THEOREM AccessUnitsReassemble == Spec => []AUReassembles
<1>1. TypeOK /\ Progress /\ LastReceived /\ Marked /\ Found => AUReassembles
  <2> SUFFICES ASSUME TypeOK, Progress, LastReceived, Marked, Found, pc = "idle"
               PROVE  LET r == Depacketize(LastAU)
                      IN  /\ r.ok /\ r.open = 0
                          /\ r.done = [i \in 1..Len(MediaUnits) |-> MediaUnits[i].size]
                          /\ (\A i \in 1..Len(input) : input[i].code = 4)
                               => units = Only(LosesFour(input), "size", Nat \ {0})
                          /\ units # << >> /\ units[Len(units)].kind \notin ParameterKinds
                               => udpOut[Len(udpOut)].marker
                          /\ \A i \in 1..(Len(udpOut) - 1) :
                               udpOut[i].marker => udpOut[i + 1].ts > udpOut[i].ts
    BY Zenon DEF AUReassembles
  <2> DEFINE r == Depacketize(LastAU)
  <2>1. r.ok /\ r.open = 0 /\ r.done = [i \in 1..Len(MediaUnits) |-> MediaUnits[i].size]
    BY Zenon DEF LastReceived, SizesOf
  <2>2. units # << >> /\ units[Len(units)].kind \notin ParameterKinds
          => udpOut[Len(udpOut)].marker
    <3> SUFFICES ASSUME units # << >>, units[Len(units)].kind \notin ParameterKinds
                 PROVE  udpOut[Len(udpOut)].marker
      OBVIOUS
    <3>1. Len(units) \in 1..Len(units)
      BY UnitsAre, EmptySeq DEF TypeOK
    <3>2. units[Len(units)].kind \in MediaKinds
      BY <3>1, UnitsAre
    <3>3. next > Len(units)
      BY UnitsAre DEF Progress
    <3> QED
      BY <3>2, <3>3 DEF Marked, EndsMarked, EndsInMedia, LastMarked
  <2>3. \A i \in 1..(Len(udpOut) - 1) : udpOut[i].marker => udpOut[i + 1].ts > udpOut[i].ts
    BY DEF Marked, MarkedIsLast
  <2>4. (\A i \in 1..Len(input) : input[i].code = 4)
          => units = Only(LosesFour(input), "size", Nat \ {0})
    <3> SUFFICES ASSUME \A i \in 1..Len(input) : input[i].code = 4
                 PROVE  NalUnits(input) = Only(LosesFour(input), "size", Nat \ {0})
      BY DEF Found
    <3> QED
      BY UnitsLoseFour DEF TypeOK
  <2> QED
    BY <2>1, <2>2, <2>3, <2>4, Zenon
<1> QED
  BY <1>1, InitTypes, StepTypes, InitProgress, StepProgress, InitReceived, StepReceived,
     InitLastReceived, StepLastReceived, InitMarked, StepMarked, InitFound, StepFound, PTL
     DEF Spec

-----------------------------------------------------------------------------
(* Parameter sets.  Once all fit in an aggregate, it takes them all.             *)
LEMMA AllAreFitting ==
  ASSUME TypeOK, AllFit
  PROVE  /\ StapPacket.sps = KnownIds(sizes, "sps")
         /\ StapPacket.pps = KnownIds(sizes, "pps")
<1> DEFINE spsIds == KnownIds(sizes, "sps")
           ppsIds == KnownIds(sizes, "pps")
           used == 1 + Bytes(sizes, "sps", spsIds)
<1>1. "sps" \in ParameterKinds /\ "pps" \in ParameterKinds
  BY DEF ParameterKinds
<1>2. sizes \in SizeTables
  BY DEF TypeOK, SizeTables
<1>3. /\ Bytes(sizes, "sps", spsIds) \in Nat /\ Bytes(sizes, "pps", ppsIds) \in Nat
      /\ used + Bytes(sizes, "pps", ppsIds) <= MaxStapPayload
  <2>1. spsIds \in SUBSET Ids /\ ppsIds \in SUBSET Ids
    BY DEF KnownIds
  <2>2. Bytes(sizes, "sps", spsIds) \in Nat /\ Bytes(sizes, "pps", ppsIds) \in Nat
    BY <1>1, <1>2, <2>1, BytesNatural
  <2> QED
    BY <2>2 DEF AllFit
<1>4. ASSUME NEW k \in ParameterKinds, NEW d \in KnownIds(sizes, k)
      PROVE  /\ Prefix(sizes, k, d) \in Nat
             /\ Prefix(sizes, k, d) <= Bytes(sizes, k, KnownIds(sizes, k))
  <2> DEFINE upto == {e \in KnownIds(sizes, k) : e <= d}
  <2>1. KnownIds(sizes, k) \in SUBSET Ids /\ upto \in SUBSET KnownIds(sizes, k)
    BY DEF KnownIds
  <2>2. /\ Bytes(sizes, k, upto) \in Nat
        /\ Bytes(sizes, k, upto) <= Bytes(sizes, k, KnownIds(sizes, k))
    <3> HIDE DEF upto
    <3> QED
      BY <1>2, <2>1, BytesNatural
  <2> QED
    BY <2>2 DEF Prefix
<1>5. Fitting(sizes, "sps", 1) = spsIds
  <2>1. \A d \in spsIds : 1 + Prefix(sizes, "sps", d) <= MaxStapPayload
    BY <1>1, <1>3, <1>4, Sizes
  <2> QED
    BY <2>1 DEF Fitting
<1>6. Fitting(sizes, "pps", used) = ppsIds
  <2>1. \A d \in ppsIds : used + Prefix(sizes, "pps", d) <= MaxStapPayload
    <3> SUFFICES ASSUME NEW d \in ppsIds
                 PROVE  used + Prefix(sizes, "pps", d) <= MaxStapPayload
      OBVIOUS
    <3>1. Prefix(sizes, "pps", d) \in Nat
          /\ Prefix(sizes, "pps", d) <= Bytes(sizes, "pps", ppsIds)
      BY <1>1, <1>4
    <3>2. used \in Nat /\ MaxStapPayload \in Int
      BY <1>3, Sizes
    <3> HIDE DEF used, ppsIds
    <3> QED
      BY <1>3, <3>1, <3>2
  <2> QED
    BY <2>1 DEF Fitting
<1>7. /\ StapPacket.sps = Fitting(sizes, "sps", 1)
      /\ StapPacket.pps = Fitting(sizes, "pps",
                                  1 + Bytes(sizes, "sps", Fitting(sizes, "sps", 1)))
  BY StapPacketFits, Zenon DEF TypeOK, SizeTables
<1> QED
  BY <1>5, <1>6, <1>7

(* An access unit that starts with the parameter sets.                           *)
Served(a) == /\ a # << >> /\ a[1].type = "stap"
             /\ AllFit => /\ a[1].sps = KnownIds(sizes, "sps")
                          /\ a[1].pps = KnownIds(sizes, "pps")

(* An access unit with an IDR picture starts with the parameter sets, once both    *)
(* kinds are known.                                                              *)
IdrServed == HasIdr /\ Complete(sizes) =>
               /\ pc \in {"refresh", "units", "fragment"} => Served(CurrentAU)
               /\ pc = "idle" => Served(LastAU)

LEMMA InitIdrServed == Init => IdrServed
<1> SUFFICES ASSUME Init PROVE IdrServed
  OBVIOUS
<1>1. units = << >> /\ Len(<< >>) = 0
  BY EmptySeq, Zenon DEF Init
<1> QED
  BY <1>1 DEF IdrServed, HasIdr

LEMMA FirstStays ==
  ASSUME NEW s \in Seq(PacketType), s # << >>, NEW p \in PacketType
  PROVE  Append(s, p) # << >> /\ Append(s, p)[1] = s[1]
<1>1. Len(s) \in Nat /\ Len(s) # 0
  BY LenProperties, EmptySeq
<1> QED
  BY <1>1, AppendProperties

LEMMA StepIdrServed == TypeOK /\ Progress /\ IdrServed /\ [Next]_vars => IdrServed'
<1> SUFFICES ASSUME TypeOK, Progress, IdrServed, [Next]_vars, HasIdr', Complete(sizes)',
                    pc' # "idr"
             PROVE  /\ pc' \in {"refresh", "units", "fragment"} => Served(CurrentAU)'
                    /\ pc' = "idle" => Served(LastAU)'
  BY DEF IdrServed
<1>1. CASE BeforeIdr
  <2>1. /\ pc = "idr" /\ pc' = "refresh" /\ UNCHANGED <<units, sizes>>
    BY <1>1 DEF BeforeIdr, inputVars, paramVars
  <2>2. HasIdr /\ Complete(sizes)
    BY <2>1 DEF HasIdr
  <2>3. udpOut' = Append(udpOut, StapPacket)
    BY <1>1, <2>2 DEF BeforeIdr, SendStap
  <2>4. StapPacket \in PacketType /\ StapPacket.ts = timestamp /\ StapPacket.type = "stap"
    BY StapPacketFits DEF TypeOK, SizeTables
  <2>5. Sends(StapPacket)
    BY <1>1, <2>1, <2>3, <2>4 DEF Sends, BeforeIdr
  <2>6. CurrentAU' = Append(<< >>, StapPacket)
    BY <2>1, <2>5, SendsAppends, NothingSentYet
  <2>7. CurrentAU' # << >> /\ CurrentAU'[1] = StapPacket
    <3>1. << >> \in Seq(PacketType) /\ Len(<< >>) = 0
      BY EmptySeq
    <3> QED
      BY <2>4, <2>6, <3>1, AppendProperties
  <2>8. AllFit' = AllFit /\ KnownIds(sizes, "sps")' = KnownIds(sizes, "sps")
        /\ KnownIds(sizes, "pps")' = KnownIds(sizes, "pps")
    BY <2>1 DEF AllFit
  <2>9. Served(CurrentAU)'
    BY <2>4, <2>7, <2>8, AllAreFitting DEF Served
  <2> QED
    BY <2>1, <2>9
<1>2. CASE Refresh \/ SendSingle \/ SendFragment
  <2>1. /\ pc \in {"refresh", "units", "fragment"} /\ pc' \in {"units", "fragment"}
        /\ UNCHANGED <<units, sizes, timestamp>>
    BY <1>2 DEF Refresh, SendSingle, SendFragment, AtUnit, inputVars, paramVars
  <2>2. Served(CurrentAU)
    BY <2>1 DEF IdrServed, HasIdr
  <2>3. AllFit' = AllFit /\ KnownIds(sizes, "sps")' = KnownIds(sizes, "sps")
        /\ KnownIds(sizes, "pps")' = KnownIds(sizes, "pps")
    BY <2>1 DEF AllFit
  <2>4. CASE UNCHANGED udpOut
    <3>1. CurrentAU' = CurrentAU
      BY <2>1, <2>4 DEF CurrentAU
    <3> QED
      BY <2>1, <2>2, <2>3, <3>1 DEF Served
  <2>5. ASSUME NEW p, Sends(p) PROVE Served(CurrentAU)'
    <3>1. /\ CurrentAU \in Seq(PacketType) /\ CurrentAU' = Append(CurrentAU, p)
          /\ p \in PacketType /\ CurrentAU # << >>
      BY <2>2, <2>5, SendsAppends DEF Sends, Served
    <3>2. CurrentAU' # << >> /\ CurrentAU'[1] = CurrentAU[1]
      BY <3>1, FirstStays
    <3> QED
      BY <2>2, <2>3, <3>2 DEF Served
  <2> QED
    BY <2>1, <2>4, <2>5, StepSends
<1>3. CASE SkipParameterSet \/ StartFragments
  <2>1. /\ pc = "units" /\ pc' \in {"units", "fragment"}
        /\ UNCHANGED <<units, sizes, timestamp, udpOut>>
    BY <1>3 DEF SkipParameterSet, StartFragments, AtUnit, headerVars, paramVars, outVars
  <2>2. Served(CurrentAU)
    BY <2>1 DEF IdrServed, HasIdr
  <2>3. AllFit' = AllFit /\ KnownIds(sizes, "sps")' = KnownIds(sizes, "sps")
        /\ KnownIds(sizes, "pps")' = KnownIds(sizes, "pps")
    BY <2>1 DEF AllFit
  <2>4. CurrentAU' = CurrentAU
    BY <2>1 DEF CurrentAU
  <2> QED
    BY <2>1, <2>2, <2>3, <2>4 DEF Served
<1>4. CASE \E au \in AccessUnits : Receive(au)
  BY <1>4 DEF Receive
<1>5. CASE Finish
  <2>1. pc = "units" /\ pc' = "idle" /\ UNCHANGED <<units, sizes>>
    BY <1>5 DEF Finish, inputVars, paramVars
  <2>2. Served(CurrentAU)
    BY <2>1 DEF IdrServed, HasIdr
  <2>3. AllFit' = AllFit /\ KnownIds(sizes, "sps")' = KnownIds(sizes, "sps")
        /\ KnownIds(sizes, "pps")' = KnownIds(sizes, "pps")
    BY <2>1 DEF AllFit
  <2>4. LastAU' = CurrentAU
    BY <1>5, FinishTurns
  <2> QED
    BY <2>1, <2>2, <2>3, <2>4 DEF Served
<1>6. CASE UNCHANGED vars
  <2>1. UNCHANGED <<pc, units, sizes, timestamp, udpOut>>
    BY <1>6 DEF vars, inputVars, headerVars, paramVars, outVars
  <2>2. HasIdr /\ Complete(sizes)
    BY <2>1 DEF HasIdr
  <2>3. AllFit' = AllFit /\ KnownIds(sizes, "sps")' = KnownIds(sizes, "sps")
        /\ KnownIds(sizes, "pps")' = KnownIds(sizes, "pps")
    BY <2>1 DEF AllFit
  <2>4. CurrentAU' = CurrentAU /\ LastAU' = LastAU
    BY <2>1 DEF CurrentAU, LastAU
  <2> QED
    BY <2>1, <2>2, <2>3, <2>4 DEF IdrServed, Served
<1> QED
  BY <1>1, <1>2, <1>3, <1>4, <1>5, <1>6, Zenon DEF Next

(* A stored parameter set is only ever replaced by another.                      *)
LEMMA CompleteStays ==
  ASSUME NEW old \in SizeTables, Complete(old), NEW s \in Seq(UnitType)
  PROVE  Complete(Store(old, s))
<1>1. Len(s) \in Nat /\ \A i \in 1..Len(s) : s[i] \in UnitType
  BY LenProperties, ElementOfSeq
<1>2. \A i \in 1..Len(s) : s[i].size \in Nat \ {0}
  BY <1>1 DEF UnitType
<1>3. ASSUME NEW k \in ParameterKinds, NEW d \in KnownIds(old, k)
      PROVE  d \in KnownIds(Store(old, s), k)
  <2> DEFINE hits == {i \in 1..Len(s) : s[i].kind = k /\ IdOf(s[i]) = d}
  <2>1. d \in Ids /\ old[k][d] > 0
    BY DEF KnownIds
  <2>2. Store(old, s)[k][d] = IF hits = {} THEN old[k][d] ELSE s[Max(hits)].size
    BY <2>1 DEF Store
  <2>3. hits # {} => Max(hits) \in 1..Len(s)
    <3>1. hits \subseteq 1..Len(s)
      OBVIOUS
    <3> HIDE DEF hits
    <3> QED
      BY <1>1, <3>1, MaxExists
  <2> HIDE DEF hits
  <2>4. Store(old, s)[k][d] > 0
    BY <1>2, <2>1, <2>2, <2>3
  <2> QED
    BY <2>1, <2>4 DEF KnownIds
<1> QED
  BY <1>3 DEF Complete

(* The refresh counter is ahead of the access units without parameter sets.      *)
Refreshed == /\ unrefreshed <= refresh + IF pc = "refresh" THEN 1 ELSE 0
             /\ ~Complete(sizes) => unrefreshed = 0

LEMMA StepRefreshed == TypeOK /\ Refreshed /\ [Next]_vars => Refreshed'
<1> SUFFICES ASSUME TypeOK, Refreshed, [Next]_vars PROVE Refreshed'
  OBVIOUS
<1>0. unrefreshed \in Nat /\ refresh \in Nat /\ RefreshInterval \in Nat \ {0}
  BY RtpAssumption DEF TypeOK
<1>1. ASSUME NEW au \in AccessUnits, Receive(au) PROVE Refreshed'
  <2> DEFINE first  == IF extracted THEN sizes ELSE Store(sizes, WholeUnits(au))
             latest == Store(first, NalUnits(au))
  <2>1. /\ sizes' = latest /\ pc = "idle" /\ pc' = "idr" /\ UNCHANGED <<refresh, unrefreshed>>
    BY <1>1 DEF Receive
  <2>2. sizes \in SizeTables /\ NalUnits(au) \in Seq(UnitType) /\ WholeUnits(au) \in Seq(UnitType)
    BY NalUnitsType, WholeUnitsType DEF TypeOK, SizeTables
  <2>3. first \in SizeTables /\ (Complete(sizes) => Complete(first))
    <3>1. \A x \in UnitType : x.size \in Nat
      BY DEF UnitType
    <3>2. Store(sizes, WholeUnits(au)) \in SizeTables
      BY <2>2, <3>1, StoreType
    <3>3. Complete(sizes) => Complete(Store(sizes, WholeUnits(au)))
      BY <2>2, CompleteStays
    <3> QED
      BY <2>2, <3>2, <3>3
  <2>4. Complete(sizes) => Complete(latest)
    <3> HIDE DEF first
    <3> QED
      BY <2>2, <2>3, CompleteStays
  <2> HIDE DEF latest
  <2> QED
    BY <2>1, <2>4 DEF Refreshed
<1>2. CASE BeforeIdr
  <2>1. pc = "idr" /\ pc' = "refresh" /\ UNCHANGED <<refresh, sizes>>
    BY <1>2 DEF BeforeIdr, paramVars
  <2>2. \/ unrefreshed' = 0
        \/ Complete(sizes) /\ unrefreshed' = unrefreshed + 1
        \/ ~Complete(sizes) /\ unrefreshed' = unrefreshed
    BY <1>0, <1>2 DEF BeforeIdr
  <2> QED
    BY <1>0, <2>1, <2>2 DEF Refreshed
<1>3. CASE Refresh
  <2>1. pc = "refresh" /\ pc' = "units" /\ UNCHANGED sizes
    BY <1>3 DEF Refresh
  <2>2. /\ refresh' = IF refresh + 1 >= RefreshInterval THEN 0 ELSE refresh + 1
        /\ \/ refresh + 1 >= RefreshInterval /\ Complete(sizes) /\ unrefreshed' = 0
           \/ /\ ~(refresh + 1 >= RefreshInterval /\ Complete(sizes))
              /\ unrefreshed' = unrefreshed
    BY <1>3 DEF Refresh
  <2> QED
    BY <1>0, <2>1, <2>2 DEF Refreshed
<1>4. CASE SkipParameterSet \/ SendSingle \/ StartFragments \/ SendFragment \/ Finish
  <2>1. pc # "refresh" /\ pc' # "refresh" /\ UNCHANGED <<refresh, sizes, unrefreshed>>
    BY <1>4 DEF SkipParameterSet, SendSingle, StartFragments, SendFragment, Finish, AtUnit,
                paramVars
  <2> QED
    BY <2>1 DEF Refreshed
<1>5. CASE UNCHANGED vars
  BY <1>5 DEF vars, paramVars, Refreshed
<1> QED
  BY <1>1, <1>2, <1>3, <1>4, <1>5, Zenon DEF Next

(* An IDR picture is preceded by the parameter sets in its own access unit, and a  *)
(* late joiner waits at most RefreshInterval access units for known ones.        *)
THEOREM ParameterSetsArrive == Spec => []ParameterSetsInTime
<1>1. Init => Refreshed
  <2> SUFFICES ASSUME Init PROVE Refreshed
    OBVIOUS
  <2>1. unrefreshed = 0 /\ refresh = 0 /\ pc = "idle"
    BY Zenon DEF Init
  <2> QED
    BY <2>1 DEF Refreshed
<1>2. TypeOK /\ IdrServed /\ Refreshed => ParameterSetsInTime
  <2> SUFFICES ASSUME TypeOK, IdrServed, Refreshed, pc = "idle"
               PROVE  /\ HasIdr /\ Complete(sizes) =>
                           /\ LastAU[1].type = "stap"
                           /\ AllFit => /\ LastAU[1].sps = KnownIds(sizes, "sps")
                                        /\ LastAU[1].pps = KnownIds(sizes, "pps")
                      /\ unrefreshed < RefreshInterval
    BY Zenon DEF ParameterSetsInTime
  <2>1. unrefreshed < RefreshInterval
    BY RtpAssumption DEF Refreshed, TypeOK
  <2> QED
    BY <2>1 DEF IdrServed, Served
<1> QED
  BY <1>1, <1>2, InitTypes, StepTypes, InitProgress, StepProgress, InitIdrServed,
     StepIdrServed, StepRefreshed, PTL DEF Spec

=============================================================================

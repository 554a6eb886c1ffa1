---------------------------- MODULE QueueLemmas ----------------------------
(* Lemmas about the queues of the models: a queue of numbered items holds a   *)
(* run of consecutive numbers, and what its front, its back and an item in    *)
(* front of it do to the abstract channel LossyFifo.                          *)
EXTENDS Integers, Sequences, SequenceTheorems, TLAPS

(* s is b+1, b+2, ... : what is pushed in the order it is made and popped in   *)
(* front.                                                                      *)
RunFrom(s, b) == \A i \in 1..Len(s) : s[i] = b + i

LEMMA EmptyLen ==
  ASSUME NEW S, NEW s \in Seq(S)
  PROVE  /\ Len(s) \in Nat
         /\ s = << >> <=> Len(s) = 0
<1>1. Len(s) \in Nat /\ (s # << >> => Len(s) \in Nat \ {0})
  BY LenProperties, EmptySeq
<1>2. s = << >> => Len(s) = 0
  BY EmptySeq
<1> QED
  BY <1>1, <1>2

LEMMA EmptyRun == ASSUME NEW b PROVE RunFrom(<< >>, b) /\ Len(<< >>) = 0
BY DEF RunFrom

LEMMA RunPush ==
  ASSUME NEW S, NEW s \in Seq(S), NEW b \in Nat, NEW e \in S,
         RunFrom(s, b), e = b + Len(s) + 1
  PROVE  /\ Append(s, e) \in Seq(S) /\ Len(Append(s, e)) = Len(s) + 1
         /\ RunFrom(Append(s, e), b)
<1>1. /\ Append(s, e) \in Seq(S) /\ Len(Append(s, e)) = Len(s) + 1 /\ Len(s) \in Nat
      /\ \A i \in 1..Len(s) : Append(s, e)[i] = s[i]
      /\ Append(s, e)[Len(s) + 1] = e
  BY AppendProperties, LenProperties
<1> QED
  BY <1>1 DEF RunFrom

LEMMA RunPop ==
  ASSUME NEW S, NEW s \in Seq(S), NEW b \in Nat, RunFrom(s, b), s # << >>
  PROVE  /\ Head(s) \in S /\ Head(s) = b + 1
         /\ Tail(s) \in Seq(S) /\ Len(s) \in Nat \ {0} /\ Len(Tail(s)) = Len(s) - 1
         /\ RunFrom(Tail(s), b + 1)
<1>1. /\ Head(s) \in S /\ Head(s) = s[1]
      /\ Tail(s) \in Seq(S) /\ Len(s) \in Nat \ {0} /\ Len(Tail(s)) = Len(s) - 1
      /\ \A i \in 1..Len(Tail(s)) : Tail(s)[i] = s[i + 1]
  BY HeadTailProperties, EmptySeq
<1> QED
  BY <1>1 DEF RunFrom

LEMMA RunElements ==
  ASSUME NEW S, NEW s \in Seq(S), NEW b \in Nat, RunFrom(s, b)
  PROVE  /\ {s[i] : i \in 1..Len(s)} = (b + 1)..(b + Len(s))
         /\ \A i, j \in 1..Len(s) : s[i] = s[j] => i = j
<1>1. Len(s) \in Nat
  BY LenProperties
<1>2. ASSUME NEW x \in (b + 1)..(b + Len(s)) PROVE x \in {s[i] : i \in 1..Len(s)}
  <2>1. x - b \in 1..Len(s) /\ s[x - b] = x
    BY <1>1 DEF RunFrom
  <2> QED
    BY <2>1
<1>3. ASSUME NEW i \in 1..Len(s) PROVE s[i] \in (b + 1)..(b + Len(s))
  BY <1>1 DEF RunFrom
<1>4. \A i, j \in 1..Len(s) : s[i] = s[j] => i = j
  BY <1>1 DEF RunFrom
<1> QED
  BY <1>2, <1>3, <1>4

-----------------------------------------------------------------------------
(* Pushing on the right of a concatenation, and moving an element from its right *)
(* part to its left.                                                             *)
LEMMA AppendRight ==
  ASSUME NEW S, NEW s \in Seq(S), NEW t \in Seq(S), NEW e \in S
  PROVE  s \o Append(t, e) = Append(s \o t, e)
<1>1. <<e>> \in Seq(S) /\ s \o t \in Seq(S)
  BY ConcatProperties
<1>2. Append(t, e) = t \o <<e>> /\ Append(s \o t, e) = (s \o t) \o <<e>>
  BY <1>1, AppendIsConcat
<1> QED
  BY <1>1, <1>2, ConcatAssociative

LEMMA AppendTwo ==
  ASSUME NEW S, NEW s \in Seq(S), NEW d \in S, NEW e \in S
  PROVE  s \o <<d, e>> = Append(Append(s, d), e)
<1>1. <<d>> \in Seq(S) /\ <<d, e>> = Append(<<d>>, e)
  OBVIOUS
<1>2. s \o Append(<<d>>, e) = Append(s \o <<d>>, e)
  BY <1>1, AppendRight
<1>3. s \o <<d>> = Append(s, d)
  BY AppendIsConcat
<1> QED
  BY <1>1, <1>2, <1>3

LEMMA MoveHead ==
  ASSUME NEW S, NEW s \in Seq(S), NEW t \in Seq(S), t # << >>
  PROVE  Append(s, Head(t)) \o Tail(t) = s \o t
<1>1. /\ Head(t) \in S /\ Tail(t) \in Seq(S) /\ Len(Tail(t)) = Len(t) - 1
      /\ \A i \in 1..Len(Tail(t)) : Tail(t)[i] = t[i + 1]
      /\ Len(t) \in Nat \ {0} /\ Head(t) = t[1]
  BY HeadTailProperties, EmptySeq
<1>2. /\ Append(s, Head(t)) \in Seq(S)
      /\ Append(s, Head(t)) \o Tail(t) \in Seq(S) /\ s \o t \in Seq(S)
  BY <1>1, ConcatProperties, AppendProperties
<1>3. Len(Append(s, Head(t)) \o Tail(t)) = Len(s \o t)
  BY <1>1, <1>2, ConcatProperties, AppendProperties, LenProperties
<1>4. ASSUME NEW i \in 1..Len(s \o t)
      PROVE  (Append(s, Head(t)) \o Tail(t))[i] = (s \o t)[i]
  BY <1>1, <1>2, ConcatProperties, AppendProperties, LenProperties
<1> QED
  BY <1>2, <1>3, <1>4, SeqEqual

-----------------------------------------------------------------------------
(* A consumer that holds the item e in front of the queue s: taking the head of  *)
(* a queue into an empty hand leaves the channel as it was, and what happens to   *)
(* e happens to the front of the channel.                                         *)
LEMMA TakeInHand ==
  ASSUME NEW S, NEW s \in Seq(S), s # << >>
  PROVE  <<Head(s)>> \o Tail(s) = s
<1>1. Head(s) \in S /\ << >> \in Seq(S) /\ Append(<< >>, Head(s)) = <<Head(s)>>
  BY HeadTailProperties
<1>2. << >> \o s = s
  BY ConcatEmptySeq
<1> QED
  BY <1>1, <1>2, MoveHead

LEMMA HandIsFront ==
  ASSUME NEW S, NEW s \in Seq(S), NEW e \in S
  PROVE  /\ <<e>> \o s \in Seq(S) /\ <<e>> \o s # << >>
         /\ Len(<<e>> \o s) = Len(s) + 1
         /\ Head(<<e>> \o s) = e /\ Tail(<<e>> \o s) = s
<1>1. <<e>> \in Seq(S) /\ Len(<<e>>) = 1 /\ <<e>>[1] = e
  OBVIOUS
<1>2. /\ <<e>> \o s \in Seq(S) /\ Len(<<e>> \o s) = Len(s) + 1 /\ Len(s) \in Nat
      /\ \A i \in 1..(Len(s) + 1) : (<<e>> \o s)[i] = IF i <= 1 THEN e ELSE s[i - 1]
  BY <1>1, ConcatProperties, LenProperties
<1>3. <<e>> \o s # << >>
  BY <1>2, EmptySeq
<1>4. /\ Head(<<e>> \o s) = (<<e>> \o s)[1]
      /\ Tail(<<e>> \o s) \in Seq(S) /\ Len(Tail(<<e>> \o s)) = Len(s)
      /\ \A i \in 1..Len(s) : Tail(<<e>> \o s)[i] = (<<e>> \o s)[i + 1]
  BY <1>2, <1>3, HeadTailProperties
<1>5. \A i \in 1..Len(s) : Tail(<<e>> \o s)[i] = s[i]
  BY <1>2, <1>4
<1>6. Tail(<<e>> \o s) = s
  BY <1>4, <1>5, SeqEqual
<1> QED
  BY <1>2, <1>3, <1>4, <1>6

(* Dropping the item at the front of c.                                          *)
LEMMA DropFront ==
  ASSUME NEW S, NEW c \in Seq(S), c # << >>
  PROVE  /\ 1 \in 1..Len(c)
         /\ SubSeq(c, 1, 1 - 1) \o SubSeq(c, 1 + 1, Len(c)) = Tail(c)
<1>1. Len(c) \in Nat \ {0} /\ Tail(c) = SubSeq(c, 2, Len(c)) /\ Tail(c) \in Seq(S)
  BY EmptySeq, TailIsSubSeq, HeadTailProperties
<1>2. SubSeq(c, 1, 0) = << >>
  BY SubSeqEmpty
<1>3. << >> \o Tail(c) = Tail(c)
  BY <1>1, ConcatEmptySeq
<1> QED
  BY <1>1, <1>2, <1>3

(* The sequences before and behind the item n + 1 of d.                          *)
LEMMA SplitAt ==
  ASSUME NEW S, NEW d \in Seq(S), NEW n \in Nat, NEW m \in Nat, Len(d) = n + 1 + m
  PROVE  /\ SubSeq(d, 1, n) \in Seq(S) /\ Len(SubSeq(d, 1, n)) = n
         /\ \A i \in 1..n : SubSeq(d, 1, n)[i] = d[i]
         /\ SubSeq(d, n + 2, n + 1 + m) \in Seq(S) /\ Len(SubSeq(d, n + 2, n + 1 + m)) = m
         /\ \A i \in 1..m : SubSeq(d, n + 2, n + 1 + m)[i] = d[n + 1 + i]
<1>1. \A i \in 1..(n + 1 + m) : d[i] \in S
  BY ElementOfSeq
<1>2. /\ SubSeq(d, 1, n) \in Seq(S) /\ Len(SubSeq(d, 1, n)) = n
      /\ \A i \in 1..n : SubSeq(d, 1, n)[i] = d[i]
  BY <1>1, SubSeqProperties
<1>3. /\ n + 2 \in Int /\ n + 1 + m \in Int
      /\ \A i \in (n + 2)..(n + 1 + m) : d[i] \in S
  BY <1>1
<1> DEFINE r == SubSeq(d, n + 2, n + 1 + m)
<1>4. /\ r \in Seq(S)
      /\ Len(r) = IF n + 2 <= n + 1 + m THEN (n + 1 + m) - (n + 2) + 1 ELSE 0
      /\ \A i \in 1..((n + 1 + m) - (n + 2) + 1) : r[i] = d[(n + 2) + i - 1]
  BY <1>3, SubSeqProperties
<1> HIDE DEF r
<1>5. Len(r) = m
  <2>1. CASE m = 0
    BY <1>4, <2>1
  <2>2. CASE m # 0
    BY <1>4, <2>2
  <2> QED
    BY <2>1, <2>2
<1>6. ASSUME NEW i \in 1..m PROVE r[i] = d[n + 1 + i]
  <2>1. i \in 1..((n + 1 + m) - (n + 2) + 1) /\ (n + 2) + i - 1 = n + 1 + i
    OBVIOUS
  <2> QED
    BY <1>4, <2>1
<1> QED
  BY <1>2, <1>4, <1>5, <1>6 DEF r

(* Dropping the front of c from a channel that has h before it.                  *)
LEMMA DropBehind ==
  ASSUME NEW S, NEW h \in Seq(S), NEW c \in Seq(S), c # << >>
  PROVE  /\ Len(h) + 1 \in 1..Len(h \o c)
         /\ SubSeq(h \o c, 1, Len(h)) \o SubSeq(h \o c, Len(h) + 2, Len(h \o c)) = h \o Tail(c)
<1>1. PICK d : d = h \o c
  OBVIOUS
<1>2. PICK n : n = Len(h)
  OBVIOUS
<1>3. PICK m : m = Len(c) - 1
  OBVIOUS
<1>4. /\ n \in Nat /\ m \in Nat /\ Len(c) = m + 1
      /\ d \in Seq(S) /\ Len(d) = n + 1 + m
      /\ \A i \in 1..(n + 1 + m) : d[i] = IF i <= n THEN h[i] ELSE c[i - n]
  BY <1>1, <1>2, <1>3, EmptySeq, LenProperties, ConcatProperties
<1>5. /\ Tail(c) \in Seq(S) /\ Len(Tail(c)) = m
      /\ \A i \in 1..m : Tail(c)[i] = c[i + 1]
  BY <1>3, HeadTailProperties
<1>6. SubSeq(d, 1, n) = h
  <2>1. \A i \in 1..n : SubSeq(d, 1, n)[i] = h[i]
    BY <1>4, SplitAt
  <2> QED
    BY <1>2, <1>4, <2>1, SplitAt, SeqEqual
<1>7. SubSeq(d, n + 2, n + 1 + m) = Tail(c)
  <2>1. ASSUME NEW i \in 1..m PROVE SubSeq(d, n + 2, n + 1 + m)[i] = Tail(c)[i]
    <3>1. SubSeq(d, n + 2, n + 1 + m)[i] = d[n + 1 + i]
      BY <1>4, SplitAt
    <3>2. d[n + 1 + i] = c[i + 1]
      BY <1>4
    <3> QED
      BY <1>5, <3>1, <3>2
  <2>2. /\ SubSeq(d, n + 2, n + 1 + m) \in Seq(S)
        /\ Len(SubSeq(d, n + 2, n + 1 + m)) = m
    BY <1>4, SplitAt
  <2>3. SubSeq(d, n + 2, n + 1 + m) = Tail(c)
    BY <1>5, <2>1, <2>2, SeqEqual, Zenon
  <2> QED
    BY <2>3
<1>8. /\ n + 1 \in 1..Len(d)
      /\ SubSeq(d, 1, n) \o SubSeq(d, n + 2, Len(d)) = h \o Tail(c)
  <2>1. n + 1 \in 1..Len(d) /\ Len(d) = n + 1 + m
    BY <1>4
  <2> QED
    BY <1>6, <1>7, <2>1, Zenon
<1> QED
  BY <1>1, <1>2, <1>8, Zenon
=============================================================================

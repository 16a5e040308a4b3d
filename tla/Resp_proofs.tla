------------------------------ MODULE Resp_proofs ------------------------------
(***************************************************************************)
(* What Resp.tla's writers put on the wire is what its reader makes of it, *)
(* for frames of any length; and what the reader does with a line that is  *)
(* cut short.                                                              *)
(***************************************************************************)
EXTENDS Resp, FiniteSetTheorems, SequenceTheorems, WellFoundedInduction, TLAPS

----------------------------------------------------------------------------
(* Numbers and sequences.                                                  *)

\* A set of numbers has a least element.
LEMMA LeastNumber ==
  ASSUME NEW n \in Nat, NEW T \in SUBSET (0..n), T # {}
  PROVE  \E m \in T : \A k \in T : m <= k
<1> DEFINE below == {0..k : k \in T}
<1>1. IsFiniteSet(0..n) /\ below \subseteq SUBSET (0..n) /\ below # {}
  <2>1. IsFiniteSet(0..n)
    BY FS_Interval
  <2>2. ASSUME NEW k \in T PROVE 0..k \subseteq 0..n
    OBVIOUS
  <2> QED BY <2>1, <2>2
<1>2. IsWellFoundedOn(StrictSubsetOrdering(0..n), SUBSET (0..n))
  BY <1>1, FS_StrictSubsetOrderingWellFounded, FS_FiniteSubsetsOfFinite
<1> HIDE DEF below
<1>3. PICK S \in below : \A U \in below : ~(<<U, S>> \in StrictSubsetOrdering(0..n))
  BY <1>1, <1>2, WFMin
<1>4. PICK m \in T : S = 0..m
  BY DEF below
<1>5. ASSUME NEW k \in T, k < m PROVE FALSE
  <2>1. 0..k \in below
    BY DEF below
  <2>2. 0..k \subseteq 0..m /\ 0..k # 0..m
    <3>1. m \in Nat /\ k \in Nat
      OBVIOUS
    <3>2. m \in 0..m /\ m \notin 0..k
      BY <1>5, <3>1
    <3> QED BY <1>5, <3>1, <3>2
  <2>3. <<0..k, S>> \in StrictSubsetOrdering(0..n)
    BY <1>1, <1>4, <2>1, <2>2 DEF StrictSubsetOrdering
  <2> QED BY <1>3, <2>1, <2>3
<1> QED BY <1>5

\* A sequence of anything.
IsSequence(s) == \E S : s \in Seq(S)

LEMMA SameSequence ==
  ASSUME NEW s, NEW t, IsSequence(s), IsSequence(t), Len(s) = Len(t),
         \A i \in 1..Len(s) : s[i] = t[i]
  PROVE  s = t
<1>1. PICK S : s \in Seq(S)
  BY DEF IsSequence
<1>2. PICK U : t \in Seq(U)
  BY DEF IsSequence
<1>3. s \in Seq(S \cup U) /\ t \in Seq(S \cup U)
  BY <1>1, <1>2
<1> QED BY <1>3

LEMMA AppendIs ==
  ASSUME NEW s, IsSequence(s), NEW x
  PROVE  /\ IsSequence(Append(s, x))
         /\ Len(s) \in Nat
         /\ Len(Append(s, x)) = Len(s) + 1
         /\ Append(s, x)[Len(s) + 1] = x
         /\ \A i \in 1..Len(s) : Append(s, x)[i] = s[i]
         /\ DOMAIN s = 1..Len(s)
         /\ DOMAIN Append(s, x) = 1..(Len(s) + 1)
         /\ Append(s, x) # <<>>
<1>1. PICK S : s \in Seq(S)
  BY DEF IsSequence
<1>2. s \in Seq(S \cup {x}) /\ x \in S \cup {x}
  BY <1>1
<1>3. Append(s, x) \in Seq(S \cup {x})
  BY <1>2
<1>4. Len(s) \in Nat /\ DOMAIN s = 1..Len(s) /\ Len(Append(s, x)) = Len(s) + 1
  BY <1>2
<1>5. DOMAIN Append(s, x) = 1..(Len(s) + 1)
  BY <1>3, <1>4
<1>6. Append(s, x)[Len(s) + 1] = x /\ \A i \in 1..Len(s) : Append(s, x)[i] = s[i]
  BY <1>2
<1>7. Append(s, x) # <<>>
  BY <1>4
<1>8. IsSequence(Append(s, x))
  BY <1>3 DEF IsSequence
<1> QED BY <1>4, <1>5, <1>6, <1>7, <1>8

LEMMA FrontOf ==
  ASSUME NEW s, IsSequence(s), NEW k \in 1..Len(s), NEW x,
         NEW t, t = [SubSeq(s, 1, k) EXCEPT ![k] = x]
  PROVE  /\ IsSequence(t) /\ Len(t) = k /\ DOMAIN t = 1..k /\ t # <<>>
         /\ t[k] = x
         /\ \A i \in 1..(k - 1) : t[i] = s[i]
<1>1. PICK S : s \in Seq(S)
  BY DEF IsSequence
<1>2. k \in Nat /\ k > 0 /\ Len(s) \in Nat
  BY <1>1
<1>3. /\ SubSeq(s, 1, k) \in Seq(S)
      /\ Len(SubSeq(s, 1, k)) = k
      /\ \A i \in 1..k : SubSeq(s, 1, k)[i] = s[i]
  BY <1>1, <1>2
<1> DEFINE f == SubSeq(s, 1, k)
<1>4. f \in Seq(S \cup {x}) /\ Len(f) = k /\ DOMAIN f = 1..k /\ \A i \in 1..k : f[i] = s[i]
  BY <1>3
<1> HIDE DEF f
<1>5. t = [f EXCEPT ![k] = x] /\ x \in S \cup {x}
  BY DEF f
<1>6. t \in Seq(S \cup {x}) /\ Len(t) = k /\ DOMAIN t = 1..k
  BY <1>2, <1>4, <1>5
<1>7. t[k] = x /\ \A i \in 1..(k - 1) : t[i] = s[i]
  BY <1>2, <1>4, <1>5
<1>8. t # <<>>
  BY <1>2, <1>6
<1> QED BY <1>6, <1>7, <1>8 DEF IsSequence

----------------------------------------------------------------------------
(* The reader.                                                             *)

\* Arrays that are being read: none of them is complete.
Unfinished(arrays) ==
  /\ IsSequence(arrays)
  /\ \A i \in DOMAIN arrays :
       /\ arrays[i] = [len |-> arrays[i].len, items |-> arrays[i].items]
       /\ arrays[i].len \in Nat
       /\ IsSequence(arrays[i].items)
       /\ Len(arrays[i].items) < arrays[i].len

\* The number of arrays that stay open exists, and there is one only.
LEMMA StillOpenIs ==
  ASSUME NEW arrays, Unfinished(arrays),
         NEW left, left = StillOpen(arrays)
  PROVE  /\ left \in 0..Len(arrays)
         /\ \A i \in (left + 1)..Len(arrays) : Closing(arrays[i])
         /\ left > 0 => ~Closing(arrays[left])
<1> DEFINE n == Len(arrays)
           T == {k \in 0..n : \A i \in (k + 1)..n : Closing(arrays[i])}
<1>1. n \in Nat
  BY DEF Unfinished, IsSequence
<1>2. n \in T
  BY <1>1
<1> HIDE DEF n
<1>3. PICK m \in T : \A k \in T : m <= k
  <2>1. T \in SUBSET (0..n) /\ T # {}
    BY <1>2
  <2> HIDE DEF T
  <2> QED BY <1>1, <2>1, LeastNumber
<1>4. ASSUME m > 0, Closing(arrays[m]) PROVE FALSE
  <2>1. m - 1 \in T
    <3>1. m - 1 \in 0..n
      BY <1>1, <1>3, <1>4
    <3>2. ASSUME NEW i \in ((m - 1) + 1)..n PROVE Closing(arrays[i])
      <4>1. i = m \/ i \in (m + 1)..n
        BY <1>1, <1>3, <3>2
      <4> QED BY <1>3, <1>4, <4>1
    <3> QED BY <3>1, <3>2
  <2> QED BY <1>1, <1>3, <2>1
<1>5. /\ m \in 0..n
      /\ \A i \in (m + 1)..n : Closing(arrays[i])
      /\ m > 0 => ~Closing(arrays[m])
  BY <1>3, <1>4
<1> QED BY <1>5 DEF StillOpen, n

LEMMA NestedUnrolls ==
  ASSUME NEW arrays, Len(arrays) \in Nat, NEW frame
  PROVE  /\ Nested(arrays, frame)[0] = frame
         /\ \A n \in 1..Len(arrays) :
              Nested(arrays, frame)[n]
                = ArrayFrame(Append(arrays[Len(arrays) + 1 - n].items, Nested(arrays, frame)[n - 1]))
<1> DEFINE N == Len(arrays)
           Step(g, n) == IF n = 0 THEN frame
                         ELSE ArrayFrame(Append(arrays[N + 1 - n].items, g[n - 1]))
           Short == {m \in 0..N : ~\E g : g = [n \in 0..m |-> Step(g, n)]}
<1>1. ASSUME Short # {} PROVE FALSE
  <2>1. PICK m \in Short : \A k \in Short : m <= k
    <3>1. Short \in SUBSET (0..N) /\ N \in Nat
      OBVIOUS
    <3> HIDE DEF Short, N
    <3> QED BY <1>1, <3>1, LeastNumber
  <2>2. m # 0
    <3>1. [n \in 0..0 |-> frame] = [n \in 0..0 |-> Step([i \in 0..0 |-> frame], n)]
      OBVIOUS
    <3> QED BY <3>1
  <2>3. m - 1 \in 0..N /\ m - 1 \notin Short
    <3>1. N \in Nat /\ m \in 0..N
      OBVIOUS
    <3> HIDE DEF Short, N
    <3> QED BY <2>1, <2>2, <3>1
  <2>4. PICK g : g = [n \in 0..(m - 1) |-> Step(g, n)]
    BY <2>3
  <2> DEFINE h == [n \in 0..m |-> Step(g, n)]
  <2>5. \A n \in 0..m : Step(g, n) = Step(h, n)
    <3> SUFFICES ASSUME NEW n \in 0..m, n # 0 PROVE g[n - 1] = h[n - 1]
      BY DEF Step
    <3>1. n - 1 \in 0..(m - 1) /\ n - 1 \in 0..m
      BY <2>1
    <3> HIDE DEF Step
    <3> QED BY <2>4, <3>1
  <2>6. h = [n \in 0..m |-> Step(h, n)]
    <3> HIDE DEF Step
    <3> QED BY <2>5
  <2> HIDE DEF h
  <2> QED BY <2>1, <2>6
<1>2. PICK f : f = [n \in 0..N |-> Step(f, n)]
  BY <1>1
<1>3. Nested(arrays, frame) = [n \in 0..N |-> Step(Nested(arrays, frame), n)]
  BY <1>2 DEF Nested
<1> HIDE DEF N
<1>4. N \in Nat
  BY DEF N
<1>5. \A n \in 0..N : Nested(arrays, frame)[n] = Step(Nested(arrays, frame), n)
  <2> HIDE DEF Step
  <2> QED BY <1>3
<1> QED BY <1>4, <1>5 DEF N

\* The first k arrays, the last of them with one item more.
Extended(arrays, k, item) ==
  [SubSeq(arrays, 1, k) EXCEPT
     ![k] = [len |-> arrays[k].len, items |-> Append(arrays[k].items, item)]]

LEMMA DeliverStays ==
  ASSUME NEW arrays, Unfinished(arrays), NEW frame,
         NEW k \in 1..Len(arrays), k = StillOpen(arrays),
         NEW item, item = Nested(arrays, frame)[Len(arrays) - k]
  PROVE  Deliver(arrays, frame)
           = [open |-> Extended(arrays, k, item), frame |-> NoFrame]
<1> DEFINE front == SubSeq(arrays, 1, k)
           array == [len |-> arrays[k].len, items |-> Append(arrays[k].items, item)]
<1>1. IsSequence(arrays) /\ k \in DOMAIN arrays
  BY AppendIs DEF Unfinished
<1>2. front[k] = arrays[k]
  BY <1>1 DEF IsSequence
<1>3. arrays[k] = [len |-> arrays[k].len, items |-> arrays[k].items]
  BY <1>1 DEF Unfinished
<1>4. ASSUME NEW a, NEW l, NEW its, a = [len |-> l, items |-> its], NEW x
      PROVE  [a EXCEPT !.items = x] = [len |-> l, items |-> x]
  BY <1>4
<1>5. [arrays[k] EXCEPT !.items = Append(@, item)] = array
  <2> DEFINE x == Append(arrays[k].items, item)
  <2> HIDE DEF x
  <2>1. [arrays[k] EXCEPT !.items = x] = [len |-> arrays[k].len, items |-> x]
    BY <1>3, <1>4
  <2> QED BY <2>1 DEF x
<1> HIDE DEF front, array
<1>6. [front EXCEPT ![k].items = Append(@, item)] = [front EXCEPT ![k] = array]
  BY <1>2, <1>5
<1>7. Deliver(arrays, frame)
        = [open |-> [front EXCEPT ![k].items = Append(@, item)], frame |-> NoFrame]
  <2>1. k # 0
    OBVIOUS
  <2> QED BY <2>1 DEF Deliver, front
<1> QED BY <1>6, <1>7 DEF front, array, Extended

\* One array more, which holds some items already.
Inside(arrays, len, items) == Append(arrays, [len |-> len, items |-> items])

LEMMA InsideIs ==
  ASSUME NEW arrays, Unfinished(arrays), NEW len \in Nat, NEW items, IsSequence(items), Len(items) < len
  PROVE  /\ Unfinished(Inside(arrays, len, items))
         /\ Len(arrays) \in Nat /\ Len(Inside(arrays, len, items)) = Len(arrays) + 1
         /\ Inside(arrays, len, items)[Len(arrays) + 1] = [len |-> len, items |-> items]
         /\ \A i \in 1..Len(arrays) : Inside(arrays, len, items)[i] = arrays[i]
<1> DEFINE array == [len |-> len, items |-> items]
           opened == Append(arrays, array)
           n == Len(arrays)
<1>1. IsSequence(arrays)
  BY DEF Unfinished
<1>2. array.len = len /\ array.items = items /\ array = [len |-> array.len, items |-> array.items]
  OBVIOUS
<1> HIDE DEF array
<1>3. /\ IsSequence(opened) /\ n \in Nat /\ Len(opened) = n + 1
      /\ opened[n + 1] = array /\ \A i \in 1..n : opened[i] = arrays[i]
      /\ DOMAIN arrays = 1..n /\ DOMAIN opened = 1..(n + 1)
  BY <1>1, AppendIs
<1> HIDE DEF opened, n
<1>4. ASSUME NEW i \in DOMAIN opened
      PROVE  /\ opened[i] = [len |-> opened[i].len, items |-> opened[i].items]
             /\ opened[i].len \in Nat
             /\ IsSequence(opened[i].items)
             /\ Len(opened[i].items) < opened[i].len
  <2>1. i = n + 1 \/ (i \in 1..n /\ i \in DOMAIN arrays)
    BY <1>3, <1>4
  <2> QED BY <1>2, <1>3, <2>1 DEF Unfinished
<1>5. Unfinished(opened)
  BY <1>3, <1>4 DEF Unfinished
<1> QED BY <1>3, <1>5 DEF Inside, opened, n, array

LEMMA ExtendedIs ==
  ASSUME NEW arrays, Unfinished(arrays), NEW k \in 1..Len(arrays), ~Closing(arrays[k]), NEW item
  PROVE  /\ Unfinished(Extended(arrays, k, item))
         /\ Len(Extended(arrays, k, item)) = k /\ Extended(arrays, k, item) # <<>>
<1> DEFINE array == [len |-> arrays[k].len, items |-> Append(arrays[k].items, item)]
           t == Extended(arrays, k, item)
<1>1. IsSequence(arrays) /\ DOMAIN arrays = 1..Len(arrays) /\ Len(arrays) \in Nat
  BY AppendIs DEF Unfinished
<1>2. /\ arrays[k].len \in Nat /\ IsSequence(arrays[k].items)
      /\ Len(arrays[k].items) < arrays[k].len
  BY <1>1 DEF Unfinished
<1>3. /\ IsSequence(Append(arrays[k].items, item)) /\ Len(arrays[k].items) \in Nat
      /\ Len(Append(arrays[k].items, item)) = Len(arrays[k].items) + 1
  BY <1>2, AppendIs
<1>4. /\ array = [len |-> array.len, items |-> array.items]
      /\ array.len \in Nat /\ IsSequence(array.items) /\ Len(array.items) < array.len
  BY <1>2, <1>3 DEF Closing
<1> HIDE DEF array
<1>5. /\ IsSequence(t) /\ Len(t) = k /\ DOMAIN t = 1..k /\ t # <<>>
      /\ t[k] = array
      /\ \A i \in 1..(k - 1) : t[i] = arrays[i]
  <2>1. t = [SubSeq(arrays, 1, k) EXCEPT ![k] = array]
    BY DEF Extended, array
  <2> HIDE DEF t
  <2> QED BY <1>1, <2>1, FrontOf
<1> HIDE DEF t
<1>6. ASSUME NEW i \in DOMAIN t
      PROVE  /\ t[i] = [len |-> t[i].len, items |-> t[i].items]
             /\ t[i].len \in Nat /\ IsSequence(t[i].items) /\ Len(t[i].items) < t[i].len
  <2>1. i = k \/ (i \in 1..(k - 1) /\ i \in DOMAIN arrays)
    BY <1>1, <1>5, <1>6
  <2> QED BY <1>4, <1>5, <2>1 DEF Unfinished
<1>7. Unfinished(t)
  BY <1>5, <1>6 DEF Unfinished
<1> QED BY <1>5, <1>7 DEF t

\* A frame is returned, and no array stays open, or every array that stays open
\* is still unfinished: which of them depends on the arrays alone.
LEMMA DeliverIs ==
  ASSUME NEW arrays, Unfinished(arrays), NEW frame
  PROVE  /\ StillOpen(arrays) \in Nat
         /\ StillOpen(arrays) = 0 =>
              Deliver(arrays, frame) = [open |-> <<>>, frame |-> Nested(arrays, frame)[Len(arrays)]]
         /\ StillOpen(arrays) # 0 => Deliver(arrays, frame).frame = NoFrame
         /\ Unfinished(Deliver(arrays, frame).open)
<1> DEFINE k == StillOpen(arrays)
           item == Nested(arrays, frame)[Len(arrays) - k]
<1>1. k \in 0..Len(arrays) /\ (k > 0 => ~Closing(arrays[k]))
  BY StillOpenIs
<1>2. Len(arrays) \in Nat
  BY AppendIs DEF Unfinished
<1>3. CASE k = 0
  <2>1. Deliver(arrays, frame) = [open |-> <<>>, frame |-> Nested(arrays, frame)[Len(arrays)]]
    BY <1>2, <1>3 DEF Deliver
  <2>2. Unfinished(<<>>)
    <3>1. <<>> \in Seq({}) /\ DOMAIN <<>> = {}
      OBVIOUS
    <3> QED BY <3>1 DEF Unfinished, IsSequence
  <2> QED BY <1>3, <2>1, <2>2
<1>4. CASE k # 0
  <2>1. k \in 1..Len(arrays) /\ ~Closing(arrays[k]) /\ k = StillOpen(arrays)
    BY <1>1, <1>2, <1>4
  <2> HIDE DEF k
  <2>2. item = Nested(arrays, frame)[Len(arrays) - k]
    OBVIOUS
  <2> HIDE DEF item
  <2>3. Deliver(arrays, frame) = [open |-> Extended(arrays, k, item), frame |-> NoFrame]
    BY <2>1, <2>2, DeliverStays
  <2>4. Unfinished(Extended(arrays, k, item))
    BY <2>1, ExtendedIs
  <2> QED BY <2>1, <2>3, <2>4 DEF k
<1> QED BY <1>3, <1>4

LEMMA NoArrays ==
  Unfinished(<<>>) /\ \A frame : Deliver(<<>>, frame) = [open |-> <<>>, frame |-> frame]
<1>1. <<>> \in Seq({}) /\ DOMAIN <<>> = {} /\ Len(<<>>) = 0
  OBVIOUS
<1>2. Unfinished(<<>>)
  BY <1>1 DEF Unfinished, IsSequence
<1>3. StillOpen(<<>>) = 0
  <2> DEFINE k == StillOpen(<<>>)
  <2>1. k \in 0..Len(<<>>)
    BY <1>2, StillOpenIs
  <2> HIDE DEF k
  <2>2. k = 0
    BY <1>1, <2>1
  <2> QED BY <2>2 DEF k
<1>4. ASSUME NEW frame PROVE Nested(<<>>, frame)[0] = frame
  BY <1>1, NestedUnrolls
<1> QED BY <1>1, <1>2, <1>3, <1>4, DeliverIs

LEMMA ReadUnfinished ==
  ASSUME NEW arrays, Unfinished(arrays), NEW token, token[1] = "*" => token[2] \in Nat
  PROVE  Unfinished(read_frame(arrays, token).open)
<1>1. CASE token[1] = "*" /\ token[2] > 0
  <2>1. IsSequence(<<>>) /\ Len(<<>>) = 0
    <3>1. <<>> \in Seq({})
      OBVIOUS
    <3> QED BY <3>1 DEF IsSequence
  <2>2. read_frame(arrays, token).open = Inside(arrays, token[2], <<>>)
    BY <1>1 DEF read_frame, Open, Inside
  <2> DEFINE len == token[2]
             none == <<>>
  <2>3. len \in Nat /\ IsSequence(none) /\ Len(none) < len
    BY <1>1, <2>1
  <2> HIDE DEF len, none
  <2>4. Unfinished(Inside(arrays, len, none))
    BY <2>3, InsideIs
  <2> QED BY <2>2, <2>4 DEF len, none
<1>2. CASE ~(token[1] = "*" /\ token[2] > 0)
  <2>1. read_frame(arrays, token) = Deliver(arrays, FrameOf(token))
    BY <1>2 DEF read_frame
  <2> QED BY <2>1, DeliverIs
<1> QED BY <1>1, <1>2

LEMMA ReadingUnrolls ==
  ASSUME NEW tokens, Len(tokens) \in Nat
  PROVE  /\ Reading(tokens)[0] = [open |-> <<>>, frame |-> NoFrame]
         /\ \A n \in 1..Len(tokens) :
              Reading(tokens)[n] = read_frame(Reading(tokens)[n - 1].open, tokens[n])
<1> DEFINE N == Len(tokens)
           Step(g, n) == IF n = 0 THEN [open |-> <<>>, frame |-> NoFrame]
                         ELSE read_frame(g[n - 1].open, tokens[n])
           Short == {m \in 0..N : ~\E g : g = [n \in 0..m |-> Step(g, n)]}
<1>1. ASSUME Short # {} PROVE FALSE
  <2>1. PICK m \in Short : \A k \in Short : m <= k
    <3>1. Short \in SUBSET (0..N) /\ N \in Nat
      OBVIOUS
    <3> HIDE DEF Short, N
    <3> QED BY <1>1, <3>1, LeastNumber
  <2>2. m # 0
    <3> DEFINE start == [open |-> <<>>, frame |-> NoFrame]
    <3>1. [n \in 0..0 |-> start] = [n \in 0..0 |-> Step([i \in 0..0 |-> start], n)]
      OBVIOUS
    <3> QED BY <3>1
  <2>3. m - 1 \in 0..N /\ m - 1 \notin Short
    <3>1. N \in Nat /\ m \in 0..N
      OBVIOUS
    <3> HIDE DEF Short, N
    <3> QED BY <2>1, <2>2, <3>1
  <2>4. PICK g : g = [n \in 0..(m - 1) |-> Step(g, n)]
    BY <2>3
  <2> DEFINE h == [n \in 0..m |-> Step(g, n)]
  <2>5. \A n \in 0..m : Step(g, n) = Step(h, n)
    <3> SUFFICES ASSUME NEW n \in 0..m, n # 0 PROVE g[n - 1] = h[n - 1]
      BY DEF Step
    <3>1. n - 1 \in 0..(m - 1) /\ n - 1 \in 0..m
      BY <2>1
    <3> HIDE DEF Step
    <3> QED BY <2>4, <3>1
  <2>6. h = [n \in 0..m |-> Step(h, n)]
    <3> HIDE DEF Step
    <3> QED BY <2>5
  <2> HIDE DEF h
  <2> QED BY <2>1, <2>6
<1>2. PICK f : f = [n \in 0..N |-> Step(f, n)]
  BY <1>1
<1>3. Reading(tokens) = [n \in 0..N |-> Step(Reading(tokens), n)]
  BY <1>2 DEF Reading
<1> HIDE DEF N
<1>4. N \in Nat
  BY DEF N
<1>5. \A n \in 0..N : Reading(tokens)[n] = Step(Reading(tokens), n)
  <2> HIDE DEF Step
  <2> QED BY <1>3
<1> QED BY <1>4, <1>5 DEF N

\* The header of an array has a length.
Headed(tokens) == \A i \in 1..Len(tokens) : tokens[i][1] = "*" => tokens[i][2] \in Nat

LEMMA ReadingUnfinished ==
  ASSUME NEW tokens, IsSequence(tokens), Headed(tokens), NEW k \in 0..Len(tokens)
  PROVE  Unfinished(Reading(tokens)[k].open)
<1> DEFINE N == Len(tokens)
           Bad == {m \in 0..N : ~Unfinished(Reading(tokens)[m].open)}
<1>1. N \in Nat
  BY AppendIs
<1>2. ASSUME Bad # {} PROVE FALSE
  <2>1. PICK m \in Bad : \A i \in Bad : m <= i
    <3>1. Bad \in SUBSET (0..N)
      OBVIOUS
    <3> HIDE DEF Bad, N
    <3> QED BY <1>1, <1>2, <3>1, LeastNumber
  <2>2. m # 0
    BY <1>1, ReadingUnrolls, NoArrays
  <2>3. m - 1 \in 0..N /\ m - 1 \notin Bad /\ m \in 1..N
    <3>1. m \in 0..N
      OBVIOUS
    <3> HIDE DEF Bad, N
    <3> QED BY <1>1, <2>1, <2>2, <3>1
  <2>4. Unfinished(Reading(tokens)[m - 1].open)
    BY <2>3
  <2>5. Reading(tokens)[m] = read_frame(Reading(tokens)[m - 1].open, tokens[m])
    BY <1>1, <2>3, ReadingUnrolls
  <2>6. tokens[m][1] = "*" => tokens[m][2] \in Nat
    BY <2>3 DEF Headed
  <2>7. Unfinished(Reading(tokens)[m].open)
    BY <2>4, <2>5, <2>6, ReadUnfinished
  <2> QED BY <2>7
<1> QED BY <1>2

----------------------------------------------------------------------------
(* Lines.                                                                  *)

\* A frame that a reader makes of a line which is not empty.
Sensible(frame) == frame # NoFrame /\ frame[1] # "error"

LEMMA LineIsSensible ==
  ASSUME NEW token, token[1] \in {"*", "$", "$-1", ":", "+", "-", "inline"}
  PROVE  Sensible(FrameOf(token))
<1>1. ASSUME NEW x, NEW tag PROVE <<tag, x>> # NoFrame /\ <<tag, x>>[1] = tag
  <2>1. Len(<<tag, x>>) = 2 /\ Len(<<>>) = 0 /\ <<tag, x>>[1] = tag
    OBVIOUS
  <2> QED BY <2>1 DEF NoFrame
<1>2. CASE token[1] = "*"
  BY <1>1, <1>2 DEF FrameOf, ArrayFrame, Sensible
<1>3. CASE token[1] = "$"
  BY <1>1, <1>3 DEF FrameOf, BulkFrame, Sensible
<1>4. CASE token[1] = "$-1"
  <2>1. <<"null">> # <<>> /\ <<"null">>[1] = "null"
    OBVIOUS
  <2> QED BY <2>1, <1>4 DEF FrameOf, NullFrame, Sensible, NoFrame
<1>5. CASE token[1] = ":"
  BY <1>1, <1>5 DEF FrameOf, IntegerFrame, Sensible
<1>6. CASE token[1] = "+"
  BY <1>1, <1>6 DEF FrameOf, SimpleFrame, Sensible
<1>7. CASE token[1] = "-"
  BY <1>1, <1>7 DEF FrameOf, parse_inline_command, Bulks, ArrayFrame, Sensible
<1>8. CASE token[1] = "inline"
  BY <1>1, <1>8 DEF FrameOf, parse_inline_command, Bulks, ArrayFrame, Sensible
<1> QED BY <1>2, <1>3, <1>4, <1>5, <1>6, <1>7, <1>8

LEMMA DeliverSensible ==
  ASSUME NEW arrays, Unfinished(arrays), NEW frame, Sensible(frame), StillOpen(arrays) = 0
  PROVE  Sensible(Deliver(arrays, frame).frame)
<1>1. Len(arrays) \in Nat
  BY AppendIs DEF Unfinished
<1> DEFINE n == Len(arrays)
           item == Nested(arrays, frame)[n]
<1>2. Deliver(arrays, frame).frame = item
  BY DeliverIs
<1>3. CASE n = 0
  BY <1>1, <1>2, <1>3, NestedUnrolls
<1>4. CASE n # 0
  <2>1. \E x : item = ArrayFrame(x)
    BY <1>1, <1>4, NestedUnrolls
  <2>2. PICK x : item = <<"array", x>>
    BY <2>1 DEF ArrayFrame
  <2> HIDE DEF item
  <2>3. Len(<<"array", x>>) = 2 /\ Len(<<>>) = 0 /\ <<"array", x>>[1] = "array"
    OBVIOUS
  <2> QED BY <1>2, <2>2, <2>3 DEF Sensible, NoFrame
<1> QED BY <1>3, <1>4

\* Whatever is left of a line, it fills the same place as the line: it yields a
\* frame, and ends all the arrays, only where the line would.
LEMMA CutRead ==
  ASSUME NEW arrays, Unfinished(arrays), NEW token, NEW t \in Cut(token)
  PROVE  /\ ~Malformed(t) /\ t[1] # "*"
         /\ Unfinished(read_frame(arrays, t).open)
         /\ read_frame(arrays, token).frame = NoFrame => read_frame(arrays, t).frame = NoFrame
         /\ read_frame(arrays, token).frame # NoFrame =>
              Sensible(read_frame(arrays, t).frame) /\ read_frame(arrays, t).open = <<>>
<1>1. t[1] \in {"+", ":", "-", "inline"} /\ token[1] \in {"+", ":", "-", "inline"}
  <2>1. CASE token[1] = "+"
    <3>1. t = <<"+", "">>
      BY <2>1 DEF Cut
    <3> QED BY <2>1, <3>1
  <2>2. CASE token[1] = ":"
    <3>1. t \in {<<":", m>> : m \in Leading(token[2])}
      BY <2>2 DEF Cut
    <3> QED BY <2>2, <3>1
  <2>3. CASE token[1] \in {"-", "inline"}
    <3>1. t \in {<<token[1], SubSeq(token[2], 1, n)>> : n \in 1..(Len(token[2]) - 1)}
      BY <2>3 DEF Cut
    <3>2. PICK x : t = <<token[1], x>>
      BY <3>1
    <3> QED BY <2>3, <3>2
  <2>4. token[1] \in {"+", ":", "-", "inline"}
    BY DEF Cut
  <2> QED BY <2>1, <2>2, <2>3, <2>4
<1>2. ~Malformed(t) /\ t[1] # "*"
  BY <1>1 DEF Malformed
<1>3. /\ read_frame(arrays, t) = Deliver(arrays, FrameOf(t))
      /\ read_frame(arrays, token) = Deliver(arrays, FrameOf(token))
  BY <1>1 DEF read_frame
<1>4. Sensible(FrameOf(t)) /\ Sensible(FrameOf(token))
  BY <1>1, LineIsSensible
<1> DEFINE f == FrameOf(t)
           g == FrameOf(token)
<1> HIDE DEF f, g
<1>5. CASE StillOpen(arrays) = 0
  <2>1. Sensible(Deliver(arrays, f).frame) /\ Sensible(Deliver(arrays, g).frame)
    BY <1>4, <1>5, DeliverSensible DEF f, g
  <2>2. Deliver(arrays, f).open = <<>> /\ Unfinished(Deliver(arrays, f).open)
    BY <1>5, DeliverIs
  <2> QED BY <1>2, <1>3, <2>1, <2>2 DEF Sensible, f, g
<1>6. CASE StillOpen(arrays) # 0
  <2>1. /\ Unfinished(Deliver(arrays, f).open)
        /\ Deliver(arrays, f).frame = NoFrame /\ Deliver(arrays, g).frame = NoFrame
    BY <1>6, DeliverIs
  <2> QED BY <1>2, <1>3, <2>1 DEF f, g
<1> QED BY <1>5, <1>6

----------------------------------------------------------------------------
(* What is written is what is read.                                        *)

LEMMA ExtendedSame ==
  ASSUME NEW s, NEW t, IsSequence(s), IsSequence(t), NEW k \in Nat, k \in 1..Len(s), k \in 1..Len(t),
         \A i \in 1..k : s[i] = t[i], NEW item
  PROVE  Extended(s, k, item) = Extended(t, k, item)
<1> DEFINE array == [len |-> s[k].len, items |-> Append(s[k].items, item)]
           x == [SubSeq(s, 1, k) EXCEPT ![k] = array]
           y == [SubSeq(t, 1, k) EXCEPT ![k] = array]
<1>1. Extended(s, k, item) = x
  BY DEF Extended
<1>2. Extended(t, k, item) = y
  <2>1. k \in 1..k
    OBVIOUS
  <2>2. s[k] = t[k]
    BY <2>1
  <2> QED BY <2>2 DEF Extended
<1> HIDE DEF array
<1>3. /\ IsSequence(x) /\ Len(x) = k /\ x[k] = array
      /\ \A i \in 1..(k - 1) : x[i] = s[i]
  <2> HIDE DEF x
  <2>1. x = [SubSeq(s, 1, k) EXCEPT ![k] = array]
    BY DEF x
  <2> QED BY <2>1, FrontOf
<1>4. /\ IsSequence(y) /\ Len(y) = k /\ y[k] = array
      /\ \A i \in 1..(k - 1) : y[i] = t[i]
  <2> HIDE DEF y
  <2>1. y = [SubSeq(t, 1, k) EXCEPT ![k] = array]
    BY DEF y
  <2> QED BY <2>1, FrontOf
<1> HIDE DEF x, y
<1>5. \A i \in 1..k : x[i] = y[i]
  <2> SUFFICES ASSUME NEW i \in 1..k PROVE x[i] = y[i]
    OBVIOUS
  <2>1. i = k \/ i \in 1..(k - 1)
    OBVIOUS
  <2> QED BY <1>3, <1>4, <2>1
<1>6. x = y
  BY <1>3, <1>4, <1>5, SameSequence
<1> QED BY <1>1, <1>2, <1>6

\* The last item of an array delivers the array.
LEMMA DeliverUp ==
  ASSUME NEW arrays, Unfinished(arrays), NEW len \in Nat, NEW items, IsSequence(items),
         Len(items) + 1 = len, NEW frame
  PROVE  Deliver(Inside(arrays, len, items), frame) = Deliver(arrays, ArrayFrame(Append(items, frame)))
<1> DEFINE n == Len(arrays)
           more == Inside(arrays, len, items)
           whole == ArrayFrame(Append(items, frame))
           k == StillOpen(arrays)
           j == StillOpen(more)
<1>1. Len(items) \in Nat /\ Len(items) < len
  BY AppendIs
<1>2. /\ Unfinished(more) /\ n \in Nat /\ Len(more) = n + 1
      /\ more[n + 1] = [len |-> len, items |-> items]
      /\ \A i \in 1..n : more[i] = arrays[i]
  BY <1>1, InsideIs
<1>3. Closing(more[n + 1]) /\ more[n + 1].items = items
  BY <1>2 DEF Closing
<1> HIDE DEF more, whole
<1>4. /\ k \in 0..n /\ (\A i \in (k + 1)..n : Closing(arrays[i])) /\ (k > 0 => ~Closing(arrays[k]))
  BY StillOpenIs
<1>5. /\ j \in 0..(n + 1) /\ (\A i \in (j + 1)..(n + 1) : Closing(more[i])) /\ (j > 0 => ~Closing(more[j]))
  BY <1>2, StillOpenIs
<1> HIDE DEF n, k, j
<1>6. j = k
  <2>1. j # n + 1
    BY <1>2, <1>3, <1>5
  <2>2. ASSUME k < j PROVE FALSE
    <3>1. j \in (k + 1)..n /\ j \in 1..n
      BY <1>2, <1>4, <1>5, <2>1, <2>2
    <3> QED BY <1>2, <1>4, <1>5, <3>1
  <2>3. ASSUME j < k PROVE FALSE
    <3>1. k \in (j + 1)..(n + 1) /\ k \in 1..n
      BY <1>2, <1>4, <1>5, <2>3
    <3> QED BY <1>2, <1>4, <1>5, <3>1
  <2> QED BY <1>2, <1>4, <1>5, <2>2, <2>3
<1> DEFINE inner == Nested(more, frame)
           outer == Nested(arrays, whole)
<1>7. /\ inner[0] = frame
      /\ \A m \in 1..(n + 1) : inner[m] = ArrayFrame(Append(more[n + 2 - m].items, inner[m - 1]))
  <2>1. n + 1 \in Nat /\ \A m \in 1..(n + 1) : n + 1 + 1 - m = n + 2 - m
    BY <1>2
  <2>2. Len(more) \in Nat
    BY <1>2
  <2>3. /\ inner[0] = frame
        /\ \A m \in 1..Len(more) : inner[m] = ArrayFrame(Append(more[Len(more) + 1 - m].items, inner[m - 1]))
    BY <2>2, NestedUnrolls
  <2> HIDE DEF inner
  <2> QED BY <1>2, <2>1, <2>3
<1>8. /\ outer[0] = whole
      /\ \A m \in 1..n : outer[m] = ArrayFrame(Append(arrays[n + 1 - m].items, outer[m - 1]))
  BY <1>2, NestedUnrolls DEF n
<1> HIDE DEF inner, outer
<1> DEFINE Off == {m \in 0..n : inner[m + 1] # outer[m]}
<1>9. ASSUME Off # {} PROVE FALSE
  <2>1. PICK m \in Off : \A i \in Off : m <= i
    <3>1. Off \in SUBSET (0..n)
      OBVIOUS
    <3> HIDE DEF Off
    <3> QED BY <1>2, <1>9, <3>1, LeastNumber
  <2>2. m \in 0..n /\ inner[m + 1] # outer[m]
    OBVIOUS
  <2>3. m # 0
    <3>1. inner[1] = ArrayFrame(Append(more[n + 1].items, inner[0]))
      <4>1. 1 \in 1..(n + 1) /\ n + 2 - 1 = n + 1 /\ 1 - 1 = 0
        BY <1>2
      <4> QED BY <1>7, <4>1
    <3> QED BY <1>3, <1>7, <1>8, <2>2, <3>1 DEF whole
  <2>4. m - 1 \in 0..n /\ m - 1 \notin Off /\ m \in 1..n
    <3> HIDE DEF Off
    <3> QED BY <1>2, <2>1, <2>2, <2>3
  <2>5. inner[m] = outer[m - 1]
    BY <1>2, <2>4
  <2>6. m + 1 \in 1..(n + 1) /\ n + 2 - (m + 1) = n + 1 - m /\ (m + 1) - 1 = m /\ n + 1 - m \in 1..n
    BY <1>2, <2>4
  <2>7. inner[m + 1] = ArrayFrame(Append(more[n + 1 - m].items, inner[m]))
    BY <1>7, <2>6
  <2>8. more[n + 1 - m] = arrays[n + 1 - m]
    BY <1>2, <2>6
  <2> QED BY <1>8, <2>2, <2>4, <2>5, <2>7, <2>8
<1>10. inner[n + 1 - k] = outer[n - k]
  <2>1. n - k \in 0..n /\ (n - k) + 1 = n + 1 - k
    BY <1>2, <1>4
  <2>2. n - k \notin Off
    BY <1>9
  <2> QED BY <2>1, <2>2
<1>11. CASE k = 0
  <2>1. Deliver(more, frame) = [open |-> <<>>, frame |-> inner[n + 1]]
    BY <1>2, <1>6, <1>11, DeliverIs DEF inner, j
  <2>2. Deliver(arrays, whole) = [open |-> <<>>, frame |-> outer[n]]
    BY <1>11, DeliverIs DEF outer, k, n
  <2>3. n + 1 - k = n + 1 /\ n - k = n
    BY <1>2, <1>11
  <2>4. inner[n + 1] = outer[n]
    BY <1>10, <2>3
  <2> QED BY <2>1, <2>2, <2>4 DEF more, whole
<1>12. CASE k # 0
  <2> DEFINE item == outer[n - k]
  <2>1. k \in 1..n /\ k \in 1..(n + 1) /\ k \in Nat
    BY <1>2, <1>4, <1>12
  <2>2. Deliver(more, frame) = [open |-> Extended(more, k, item), frame |-> NoFrame]
    <3>1. k \in 1..Len(more) /\ k = StillOpen(more) /\ Unfinished(more)
      BY <1>2, <1>6, <2>1 DEF j
    <3>2. item = Nested(more, frame)[Len(more) - k]
      <4>1. Len(more) - k = n + 1 - k
        BY <1>2, <2>1
      <4>2. item = inner[Len(more) - k]
        BY <1>10, <4>1
      <4> QED BY <4>2 DEF inner
    <3> HIDE DEF item
    <3> QED BY <3>1, <3>2, DeliverStays
  <2>3. Deliver(arrays, whole) = [open |-> Extended(arrays, k, item), frame |-> NoFrame]
    <3>1. k \in 1..Len(arrays) /\ k = StillOpen(arrays)
      BY <2>1 DEF k, n
    <3>2. item = Nested(arrays, whole)[Len(arrays) - k]
      BY DEF outer, n
    <3> HIDE DEF item
    <3> QED BY <3>1, <3>2, DeliverStays
  <2>4. Extended(more, k, item) = Extended(arrays, k, item)
    <3> HIDE DEF item
    <3>1. IsSequence(more) /\ IsSequence(arrays) /\ k \in 1..Len(more) /\ k \in 1..Len(arrays)
      BY <1>2, <2>1 DEF Unfinished, n
    <3>2. \A i \in 1..k : more[i] = arrays[i]
      BY <1>2, <2>1
    <3>3. k \in Nat
      BY <2>1
    <3> QED BY <3>1, <3>2, <3>3, ExtendedSame
  <2> QED BY <2>2, <2>3, <2>4 DEF more, whole
<1> QED BY <1>11, <1>12

LEMMA ConcatIs ==
  ASSUME NEW s, IsSequence(s), NEW t, IsSequence(t)
  PROVE  /\ IsSequence(s \o t) /\ Len(s) \in Nat /\ Len(t) \in Nat
         /\ Len(s \o t) = Len(s) + Len(t)
         /\ \A i \in 1..Len(s) : (s \o t)[i] = s[i]
         /\ \A i \in 1..Len(t) : (s \o t)[Len(s) + i] = t[i]
<1>1. PICK S : s \in Seq(S)
  BY DEF IsSequence
<1>2. PICK T : t \in Seq(T)
  BY DEF IsSequence
<1>3. s \in Seq(S \cup T) /\ t \in Seq(S \cup T)
  BY <1>1, <1>2
<1>4. s \o t \in Seq(S \cup T)
  BY <1>3
<1> QED BY <1>3, <1>4 DEF IsSequence

LEMMA FrontLast ==
  ASSUME NEW s, IsSequence(s), s # <<>>
  PROVE  /\ IsSequence(Front(s)) /\ Len(s) \in Nat \ {0} /\ Len(Front(s)) = Len(s) - 1
         /\ \A i \in 1..(Len(s) - 1) : Front(s)[i] = s[i]
         /\ Last(s) = s[Len(s)]
         /\ Front(s) \o <<Last(s)>> = s
<1>1. PICK S : s \in Seq(S)
  BY DEF IsSequence
<1>2. Len(s) \in Nat \ {0}
  BY <1>1
<1> DEFINE n == Len(s)
           f == SubSeq(s, 1, n - 1)
<1>3. f \in Seq(S) /\ Len(f) = n - 1 /\ \A i \in 1..(n - 1) : f[i] = s[i]
  <2> DEFINE k == n - 1
  <2>1. k \in Nat /\ k <= Len(s) /\ 1 \in 1..(k + 1)
    BY <1>2
  <2> HIDE DEF k
  <2>2. \A i \in 1..k : s[i] \in S
    BY <1>1, <2>1
  <2>3. SubSeq(s, 1, k) \in Seq(S) /\ Len(SubSeq(s, 1, k)) = k /\ \A i \in 1..k : SubSeq(s, 1, k)[i] = s[i]
    BY <1>1, <2>1, <2>2
  <2> QED BY <2>3 DEF k
<1>4. s[n] \in S
  BY <1>1, <1>2
<1>5. Front(s) = f /\ Last(s) = s[n]
  BY DEF Front, Last
<1> HIDE DEF f
<1>6. f \o <<s[n]>> = s
  <2>1. f \o <<s[n]>> \in Seq(S) /\ Len(f \o <<s[n]>>) = n
    BY <1>2, <1>3, <1>4
  <2>2. \A i \in 1..n : (f \o <<s[n]>>)[i] = s[i]
    BY <1>2, <1>3, <1>4
  <2> QED BY <1>1, <2>1, <2>2
<1> QED BY <1>2, <1>3, <1>5, <1>6 DEF IsSequence

\* The tokens take the reader from some open arrays to others, and no frame is returned.
Consumes(arrays, tokens, after) ==
  \E trace :
    /\ trace[0] = arrays /\ trace[Len(tokens)] = after
    /\ \A i \in 1..Len(tokens) :
         read_frame(trace[i - 1], tokens[i]) = [open |-> trace[i], frame |-> NoFrame]

LEMMA ConsumesNone ==
  ASSUME NEW arrays
  PROVE  Consumes(arrays, <<>>, arrays)
<1> DEFINE trace == [i \in {0} |-> arrays]
<1>1. Len(<<>>) = 0 /\ trace[0] = arrays
  OBVIOUS
<1> HIDE DEF trace
<1> QED BY <1>1 DEF Consumes

LEMMA ConsumesOne ==
  ASSUME NEW arrays, NEW token, NEW after,
         read_frame(arrays, token) = [open |-> after, frame |-> NoFrame]
  PROVE  Consumes(arrays, <<token>>, after)
<1> DEFINE trace == [i \in {0, 1} |-> IF i = 0 THEN arrays ELSE after]
<1>1. Len(<<token>>) = 1 /\ <<token>>[1] = token /\ trace[0] = arrays /\ trace[1] = after
  OBVIOUS
<1> HIDE DEF trace
<1>2. \A i \in 1..1 : i = 1 /\ i - 1 = 0
  OBVIOUS
<1> QED BY <1>1, <1>2 DEF Consumes

LEMMA ConsumesBoth ==
  ASSUME NEW a, NEW b, NEW c, NEW s, NEW t, IsSequence(s), IsSequence(t),
         Consumes(a, s, b), Consumes(b, t, c)
  PROVE  Consumes(a, s \o t, c)
<1> DEFINE m == Len(s)
           n == Len(t)
           st == s \o t
<1>1. /\ m \in Nat /\ n \in Nat /\ Len(st) = m + n
      /\ \A i \in 1..m : st[i] = s[i]
      /\ \A i \in 1..n : st[m + i] = t[i]
  BY ConcatIs
<1>2. PICK f : /\ f[0] = a /\ f[m] = b
               /\ \A i \in 1..m : read_frame(f[i - 1], s[i]) = [open |-> f[i], frame |-> NoFrame]
  BY DEF Consumes
<1>3. PICK g : /\ g[0] = b /\ g[n] = c
               /\ \A i \in 1..n : read_frame(g[i - 1], t[i]) = [open |-> g[i], frame |-> NoFrame]
  BY DEF Consumes
<1> HIDE DEF m, n, st
<1> DEFINE h == [i \in 0..(m + n) |-> IF i <= m THEN f[i] ELSE g[i - m]]
<1>4. /\ \A i \in 0..m : h[i] = f[i]
      /\ \A i \in 0..n : h[m + i] = g[i]
  <2>1. \A i \in 0..m : h[i] = f[i]
    BY <1>1
  <2>2. ASSUME NEW i \in 0..n PROVE h[m + i] = g[i]
    <3>1. m + i \in 0..(m + n) /\ (m + i <= m <=> i = 0) /\ (m + i) - m = i /\ m + 0 = m
      BY <1>1
    <3> QED BY <1>2, <1>3, <3>1
  <2> QED BY <2>1, <2>2
<1> HIDE DEF h
<1>5. ASSUME NEW i \in 1..(m + n) PROVE read_frame(h[i - 1], st[i]) = [open |-> h[i], frame |-> NoFrame]
  <2>1. CASE i \in 1..m
    <3>1. i - 1 \in 0..m /\ i \in 0..m
      BY <1>1, <2>1
    <3>2. h[i - 1] = f[i - 1] /\ h[i] = f[i] /\ st[i] = s[i]
      BY <1>1, <1>4, <2>1, <3>1
    <3> QED BY <1>2, <2>1, <3>2
  <2>2. CASE i \notin 1..m
    <3> DEFINE j == i - m
    <3>1. j \in 1..n /\ j - 1 \in 0..n /\ j \in 0..n /\ m + j = i /\ m + (j - 1) = i - 1
      BY <1>1, <2>2
    <3> HIDE DEF j
    <3>2. h[m + (j - 1)] = g[j - 1] /\ h[m + j] = g[j] /\ st[m + j] = t[j]
      BY <1>1, <1>4, <3>1
    <3>3. h[i - 1] = g[j - 1] /\ h[i] = g[j] /\ st[i] = t[j]
      BY <3>1, <3>2
    <3> QED BY <1>3, <3>1, <3>3
  <2> QED BY <2>1, <2>2
<1>6. h[0] = a /\ h[m + n] = c
  BY <1>1, <1>2, <1>3, <1>4
<1>7. Consumes(a, st, c)
  BY <1>1, <1>5, <1>6 DEF Consumes
<1> QED BY <1>7 DEF st

\* The tokens are those of a frame: wherever a frame may stand, the last of them
\* delivers it.
Sends(tokens, frame) ==
  /\ IsSequence(tokens) /\ tokens # <<>>
  /\ Headed(tokens) /\ \A i \in 1..Len(tokens) : ~Malformed(tokens[i])
  /\ \A arrays : Unfinished(arrays) =>
       \E before : /\ Consumes(arrays, Front(tokens), before)
                   /\ read_frame(before, Last(tokens)) = Deliver(arrays, frame)

\* In an array that lacks more than this item, the item is put.
LEMMA DeliverInside ==
  ASSUME NEW arrays, Unfinished(arrays), NEW len \in Nat, NEW items, IsSequence(items),
         Len(items) + 1 < len, NEW frame
  PROVE  Deliver(Inside(arrays, len, items), frame)
           = [open |-> Inside(arrays, len, Append(items, frame)), frame |-> NoFrame]
<1> DEFINE more == Inside(arrays, len, items)
           items2 == Append(items, frame)
           more2 == Inside(arrays, len, items2)
           n == Len(arrays) + 1
<1>1. Len(items) \in Nat /\ Len(items) < len /\ IsSequence(items2) /\ Len(items2) < len
  BY AppendIs
<1>2. /\ Unfinished(more) /\ Len(arrays) \in Nat /\ Len(more) = n
      /\ more[n] = [len |-> len, items |-> items]
      /\ \A i \in 1..(n - 1) : more[i] = arrays[i]
  BY <1>1, InsideIs
<1>3. /\ Unfinished(more2) /\ Len(more2) = n
      /\ more2[n] = [len |-> len, items |-> items2]
      /\ \A i \in 1..(n - 1) : more2[i] = arrays[i]
  <2> HIDE DEF items2
  <2> QED BY <1>1, InsideIs
<1> DEFINE k == StillOpen(more)
<1>4. k = n
  <2>1. /\ k \in 0..n
        /\ \A i \in (k + 1)..n : Closing(more[i])
    BY <1>2, StillOpenIs
  <2>2. ~Closing(more[n])
    BY <1>1, <1>2 DEF Closing
  <2> HIDE DEF more, k
  <2>3. n \in Nat
    BY <1>2
  <2> HIDE DEF n
  <2> QED BY <2>1, <2>2, <2>3
<1> HIDE DEF more, more2
<1>5. Deliver(more, frame) = [open |-> Extended(more, n, frame), frame |-> NoFrame]
  <2>1. n \in 1..Len(more) /\ n = StillOpen(more)
    BY <1>2, <1>4
  <2>2. frame = Nested(more, frame)[Len(more) - n]
    <3>1. Len(more) - n = 0 /\ Len(more) \in Nat
      BY <1>2
    <3> QED BY <3>1, NestedUnrolls
  <2> HIDE DEF n
  <2> QED BY <1>2, <2>1, <2>2, DeliverStays
<1>6. Extended(more, n, frame) = more2
  <2> DEFINE array == [len |-> len, items |-> items2]
             t == Extended(more, n, frame)
  <2>1. t = [SubSeq(more, 1, n) EXCEPT ![n] = array]
    BY <1>2 DEF Extended
  <2>2. n \in 1..Len(more) /\ IsSequence(more) /\ n \in Nat
    BY <1>2 DEF Unfinished
  <2>3. more2[n] = array /\ IsSequence(more2)
    BY <1>3 DEF Unfinished
  <2> HIDE DEF array, n, t
  <2>4. /\ IsSequence(t) /\ Len(t) = n /\ t[n] = array
        /\ \A i \in 1..(n - 1) : t[i] = more[i]
    BY <2>1, <2>2, FrontOf
  <2>5. \A i \in 1..n : t[i] = more2[i]
    <3> SUFFICES ASSUME NEW i \in 1..n PROVE t[i] = more2[i]
      OBVIOUS
    <3>1. i = n \/ i \in 1..(n - 1)
      BY <2>2
    <3> QED BY <1>2, <1>3, <2>3, <2>4, <3>1
  <2>6. t = more2
    BY <1>3, <2>3, <2>4, <2>5, SameSequence
  <2> QED BY <2>6 DEF t
<1> QED BY <1>5, <1>6 DEF more, more2

LEMMA SendsInside ==
  ASSUME NEW tokens, NEW frame, Sends(tokens, frame), NEW arrays, Unfinished(arrays), NEW len \in Nat,
         NEW items, IsSequence(items), Len(items) + 1 < len
  PROVE  Consumes(Inside(arrays, len, items), tokens, Inside(arrays, len, Append(items, frame)))
<1> DEFINE more == Inside(arrays, len, items)
           more2 == Inside(arrays, len, Append(items, frame))
           last == Last(tokens)
<1>1. Unfinished(more)
  <2>1. Len(items) \in Nat /\ Len(items) < len
    BY AppendIs
  <2> QED BY <2>1, InsideIs
<1>2. Deliver(more, frame) = [open |-> more2, frame |-> NoFrame]
  BY DeliverInside
<1> HIDE DEF more, more2
<1>3. PICK before : /\ Consumes(more, Front(tokens), before)
                    /\ read_frame(before, last) = [open |-> more2, frame |-> NoFrame]
  BY <1>1, <1>2 DEF Sends
<1>4. IsSequence(Front(tokens)) /\ Front(tokens) \o <<last>> = tokens
  BY FrontLast DEF Sends
<1> HIDE DEF last
<1>5. Consumes(before, <<last>>, more2)
  BY <1>3, ConsumesOne
<1>6. IsSequence(<<last>>)
  <2>1. <<last>> \in Seq({last})
    OBVIOUS
  <2> QED BY <2>1 DEF IsSequence
<1> DEFINE front == Front(tokens)
           end == <<last>>
<1> HIDE DEF front, end
<1>7. Consumes(more, front \o end, more2)
  BY <1>3, <1>4, <1>5, <1>6, ConsumesBoth DEF front, end
<1> QED BY <1>4, <1>7 DEF more, more2, front, end

LEMMA FrontConcat ==
  ASSUME NEW s, IsSequence(s), NEW t, IsSequence(t), t # <<>>
  PROVE  /\ IsSequence(s \o t) /\ s \o t # <<>>
         /\ Front(s \o t) = s \o Front(t) /\ Last(s \o t) = Last(t)
<1> DEFINE st == s \o t
           f == Front(t)
           sf == s \o f
           m == Len(s)
           n == Len(t)
<1>1. /\ IsSequence(st) /\ m \in Nat /\ n \in Nat /\ Len(st) = m + n
      /\ \A i \in 1..m : st[i] = s[i]
      /\ \A i \in 1..n : st[m + i] = t[i]
  BY ConcatIs
<1>2. /\ IsSequence(f) /\ n \in Nat \ {0} /\ Len(f) = n - 1
      /\ \A i \in 1..(n - 1) : f[i] = t[i]
      /\ Last(t) = t[n]
  BY FrontLast
<1> HIDE DEF f
<1>3. /\ IsSequence(sf) /\ Len(sf) = m + (n - 1)
      /\ \A i \in 1..m : sf[i] = s[i]
      /\ \A i \in 1..(n - 1) : sf[m + i] = f[i]
  <2>1. /\ IsSequence(sf) /\ Len(sf) = m + Len(f)
        /\ \A i \in 1..m : sf[i] = s[i]
        /\ \A i \in 1..Len(f) : sf[m + i] = f[i]
    <3>1. IsSequence(f)
      BY <1>2
    <3> QED BY <3>1, ConcatIs
  <2> HIDE DEF sf, m, n
  <2> QED BY <1>2, <2>1
<1> HIDE DEF st, sf, m, n
<1>4. st # <<>>
  <2>1. Len(st) # 0 /\ Len(<<>>) = 0
    BY <1>1, <1>2
  <2> QED BY <2>1
<1>5. /\ IsSequence(Front(st)) /\ Len(Front(st)) = Len(st) - 1
      /\ \A i \in 1..(Len(st) - 1) : Front(st)[i] = st[i]
      /\ Last(st) = st[Len(st)]
  BY <1>1, <1>4, FrontLast
<1> DEFINE fst == Front(st)
<1> HIDE DEF fst
<1>6. \A i \in 1..(m + n - 1) : fst[i] = sf[i]
  <2> SUFFICES ASSUME NEW i \in 1..(m + n - 1) PROVE fst[i] = sf[i]
    OBVIOUS
  <2>1. fst[i] = st[i]
    BY <1>1, <1>5 DEF fst
  <2>2. CASE i \in 1..m
    BY <1>1, <1>3, <2>1, <2>2
  <2>3. CASE i \notin 1..m
    <3> DEFINE j == i - m
    <3>1. j \in 1..(n - 1) /\ j \in 1..n /\ m + j = i
      BY <1>1, <1>2, <2>3
    <3> HIDE DEF j
    <3>2. st[m + j] = t[j] /\ sf[m + j] = f[j] /\ f[j] = t[j]
      BY <1>1, <1>2, <1>3, <3>1
    <3> QED BY <2>1, <3>1, <3>2
  <2> QED BY <2>2, <2>3
<1>7. fst = sf
  <2>1. IsSequence(fst) /\ Len(fst) = m + n - 1 /\ Len(sf) = m + n - 1
    BY <1>1, <1>2, <1>3, <1>5 DEF fst
  <2> QED BY <1>3, <1>6, <2>1, SameSequence
<1>8. Last(st) = t[n]
  BY <1>1, <1>2, <1>5
<1> QED BY <1>1, <1>2, <1>4, <1>7, <1>8 DEF st, sf, fst, f

LEMMA ConcatAssoc ==
  ASSUME NEW s, IsSequence(s), NEW t, IsSequence(t), NEW u, IsSequence(u)
  PROVE  (s \o t) \o u = s \o (t \o u)
<1>1. PICK S : s \in Seq(S)
  BY DEF IsSequence
<1>2. PICK T : t \in Seq(T)
  BY DEF IsSequence
<1>3. PICK U : u \in Seq(U)
  BY DEF IsSequence
<1> DEFINE A == S \cup T \cup U
<1>4. s \in Seq(A) /\ t \in Seq(A) /\ u \in Seq(A)
  BY <1>1, <1>2, <1>3
<1> HIDE DEF A
<1> QED BY <1>4

LEMMA Singleton ==
  ASSUME NEW x
  PROVE  IsSequence(<<x>>) /\ Len(<<x>>) = 1 /\ <<x>>[1] = x /\ <<x>> # <<>>
<1>1. <<x>> \in Seq({x})
  OBVIOUS
<1> QED BY <1>1 DEF IsSequence

LEMMA PrefixGrows ==
  ASSUME NEW s, IsSequence(s), NEW k \in 1..Len(s)
  PROVE  /\ IsSequence(SubSeq(s, 1, k - 1)) /\ Len(SubSeq(s, 1, k - 1)) = k - 1
         /\ Append(SubSeq(s, 1, k - 1), s[k]) = SubSeq(s, 1, k)
         /\ SubSeq(s, 1, k - 1) \o <<s[k]>> = SubSeq(s, 1, k)
         /\ SubSeq(s, 1, 0) = <<>>
         /\ SubSeq(s, 1, Len(s)) = s
<1>1. PICK S : s \in Seq(S)
  BY DEF IsSequence
<1>2. k \in Nat /\ Len(s) \in Nat /\ k <= Len(s) /\ k > 0
  BY <1>1
<1>3. ASSUME NEW j \in 0..Len(s)
      PROVE  SubSeq(s, 1, j) \in Seq(S) /\ Len(SubSeq(s, 1, j)) = j /\ \A i \in 1..j : SubSeq(s, 1, j)[i] = s[i]
  <2>1. \A i \in 1..j : s[i] \in S
    BY <1>1, <1>2
  <2> QED BY <1>1, <1>2, <2>1, SubSeqProperties
<1> DEFINE f == SubSeq(s, 1, k - 1)
           g == SubSeq(s, 1, k)
<1>4. f \in Seq(S) /\ Len(f) = k - 1 /\ \A i \in 1..(k - 1) : f[i] = s[i]
  <2>1. k - 1 \in 0..Len(s)
    BY <1>2
  <2> QED BY <1>3, <2>1
<1>5. g \in Seq(S) /\ Len(g) = k /\ \A i \in 1..k : g[i] = s[i]
  BY <1>2, <1>3
<1>6. s[k] \in S
  BY <1>1, <1>2
<1> HIDE DEF f, g
<1>7. Append(f, s[k]) = g
  BY <1>2, <1>4, <1>5, <1>6
<1>8. f \o <<s[k]>> = g
  <2>1. f \o <<s[k]>> \in Seq(S) /\ Len(f \o <<s[k]>>) = k
    BY <1>2, <1>4, <1>6
  <2>2. \A i \in 1..k : (f \o <<s[k]>>)[i] = g[i]
    BY <1>2, <1>4, <1>5, <1>6
  <2> QED BY <1>5, <2>1, <2>2
<1>9. SubSeq(s, 1, 0) = <<>>
  BY SubSeqEmpty
<1>10. SubSeq(s, 1, Len(s)) = s
  BY <1>1, <1>2, <1>3
<1> QED BY <1>4, <1>7, <1>8, <1>9, <1>10 DEF f, g, IsSequence

\* Tokens that a reader does not refuse.
Plain(tokens) ==
  IsSequence(tokens) /\ Headed(tokens) /\ \A i \in 1..Len(tokens) : ~Malformed(tokens[i])

LEMMA PlainBoth ==
  ASSUME NEW s, Plain(s), NEW t, Plain(t)
  PROVE  Plain(s \o t)
<1> DEFINE m == Len(s)
           n == Len(t)
           st == s \o t
<1>1. IsSequence(s) /\ IsSequence(t)
  BY DEF Plain
<1>2. /\ IsSequence(st) /\ m \in Nat /\ n \in Nat /\ Len(st) = m + n
      /\ \A i \in 1..m : st[i] = s[i]
      /\ \A i \in 1..n : st[m + i] = t[i]
  BY <1>1, ConcatIs
<1>3. /\ \A i \in 1..m : ~Malformed(s[i]) /\ (s[i][1] = "*" => s[i][2] \in Nat)
      /\ \A i \in 1..n : ~Malformed(t[i]) /\ (t[i][1] = "*" => t[i][2] \in Nat)
  BY DEF Plain, Headed
<1> HIDE DEF st, m, n
<1>4. ASSUME NEW i \in 1..Len(st)
      PROVE  ~Malformed(st[i]) /\ (st[i][1] = "*" => st[i][2] \in Nat)
  <2>1. CASE i \in 1..m
    BY <1>2, <1>3, <2>1
  <2>2. CASE i \notin 1..m
    <3> DEFINE j == i - m
    <3>1. j \in 1..n /\ m + j = i
      BY <1>2, <2>2
    <3> HIDE DEF j
    <3>2. st[m + j] = t[j]
      BY <1>2, <3>1
    <3>3. st[i] = t[j]
      BY <3>1, <3>2
    <3> QED BY <1>3, <3>1, <3>3
  <2> QED BY <2>1, <2>2
<1> QED BY <1>2, <1>4 DEF Plain, Headed, st

LEMMA HeaderPlain ==
  ASSUME NEW n \in Nat
  PROVE  Plain(<<Header(n)>>) /\ Header(n)[1] = "*" /\ Header(n)[2] = n
<1> DEFINE h == Header(n)
<1>1. h[1] = "*" /\ h[2] = n
  BY DEF Header
<1>2. ~Malformed(h)
  BY <1>1 DEF Malformed
<1> HIDE DEF h
<1>3. IsSequence(<<h>>) /\ Len(<<h>>) = 1 /\ <<h>>[1] = h
  BY Singleton
<1>4. \A i \in 1..1 : i = 1
  OBVIOUS
<1> QED BY <1>1, <1>2, <1>3, <1>4 DEF Plain, Headed, h

\* An array is its header and the tokens of its items: flat[i] are those of the
\* first i items.
LEMMA ArraySends ==
  ASSUME NEW n \in Nat, n > 0, NEW frames, IsSequence(frames), Len(frames) = n,
         NEW toks, NEW flat, flat[0] = <<>>,
         \A i \in 1..n : Sends(toks[i], frames[i]) /\ flat[i] = flat[i - 1] \o toks[i]
  PROVE  Sends(<<Header(n)>> \o flat[n], ArrayFrame(frames))
<1> DEFINE Prefix(k) == SubSeq(frames, 1, k)
           h == <<Header(n)>>
           whole == h \o flat[n]
<1>1. \A i \in 1..n : Plain(toks[i])
  BY DEF Sends, Plain
<1>2. \A k \in 0..n : Plain(flat[k])
  <2> DEFINE Bad == {k \in 0..n : ~Plain(flat[k])}
  <2>1. ASSUME Bad # {} PROVE FALSE
    <3>1. PICK k \in Bad : \A i \in Bad : k <= i
      <4>1. Bad \in SUBSET (0..n)
        OBVIOUS
      <4> HIDE DEF Bad
      <4> QED BY <2>1, <4>1, LeastNumber
    <3>2. k \in 0..n /\ ~Plain(flat[k])
      OBVIOUS
    <3>3. Plain(<<>>)
      <4>1. <<>> \in Seq({}) /\ Len(<<>>) = 0
        OBVIOUS
      <4> QED BY <4>1 DEF Plain, Headed, IsSequence
    <3>4. k - 1 \in 0..n /\ k - 1 \notin Bad /\ k \in 1..n
      <4>1. k # 0
        BY <3>2, <3>3
      <4> HIDE DEF Bad
      <4> QED BY <3>1, <3>2, <4>1
    <3>5. Plain(flat[k - 1]) /\ Plain(toks[k])
      BY <1>1, <3>4
    <3>6. flat[k] = flat[k - 1] \o toks[k]
      BY <3>4
    <3>7. Plain(flat[k])
      BY <3>5, <3>6, PlainBoth
    <3> QED BY <3>2, <3>7
  <2> QED BY <2>1
<1>3. Plain(h) /\ Plain(whole)
  <2>1. Plain(h) /\ Plain(flat[n])
    BY <1>2, HeaderPlain
  <2> QED BY <2>1, PlainBoth
<1>4. ASSUME NEW arrays, Unfinished(arrays), NEW k \in 0..(n - 1)
      PROVE  Consumes(Inside(arrays, n, <<>>), flat[k], Inside(arrays, n, Prefix(k)))
  <2> DEFINE Reached(j) == Consumes(Inside(arrays, n, <<>>), flat[j], Inside(arrays, n, Prefix(j)))
             Bad == {j \in 0..(n - 1) : ~Reached(j)}
  <2>1. ASSUME Bad # {} PROVE FALSE
    <3>1. PICK j \in Bad : \A i \in Bad : j <= i
      <4>1. Bad \in SUBSET (0..(n - 1)) /\ n - 1 \in Nat
        OBVIOUS
      <4> HIDE DEF Bad
      <4> QED BY <2>1, <4>1, LeastNumber
    <3>2. j \in 0..(n - 1) /\ ~Reached(j)
      OBVIOUS
    <3>3. Reached(0)
      <4>1. Prefix(0) = <<>>
        BY SubSeqEmpty
      <4>2. Consumes(Inside(arrays, n, <<>>), <<>>, Inside(arrays, n, <<>>))
        BY ConsumesNone
      <4> QED BY <4>1, <4>2
    <3>4. j - 1 \in 0..(n - 1) /\ j - 1 \notin Bad /\ j \in 1..n /\ j < n /\ j - 1 \in 0..n
      <4>1. j # 0
        BY <3>2, <3>3
      <4> HIDE DEF Bad, Reached
      <4> QED BY <3>1, <3>2, <4>1
    <3> DEFINE p == Prefix(j - 1)
               f == frames[j]
               a == Inside(arrays, n, <<>>)
               b == Inside(arrays, n, p)
               c == Inside(arrays, n, Append(p, f))
    <3>5. Consumes(a, flat[j - 1], b)
      BY <3>4
    <3>6. IsSequence(p) /\ Len(p) = j - 1 /\ Append(p, f) = Prefix(j)
      BY <3>4, PrefixGrows
    <3>7. Sends(toks[j], f) /\ flat[j] = flat[j - 1] \o toks[j]
      BY <3>4
    <3> HIDE DEF p, f
    <3>8. Consumes(b, toks[j], c)
      <4>1. Len(p) + 1 < n
        BY <3>4, <3>6
      <4> QED BY <1>4, <3>6, <3>7, <4>1, SendsInside
    <3>9. IsSequence(flat[j - 1]) /\ IsSequence(toks[j])
      BY <1>1, <1>2, <3>4 DEF Plain
    <3> HIDE DEF a, b, c
    <3>10. Consumes(a, flat[j - 1] \o toks[j], c)
      BY <3>5, <3>8, <3>9, ConsumesBoth
    <3>11. Reached(j)
      BY <3>6, <3>7, <3>10 DEF a, c
    <3> QED BY <3>2, <3>11
  <2> QED BY <2>1
<1>5. ASSUME NEW arrays, Unfinished(arrays)
      PROVE  \E before : /\ Consumes(arrays, Front(whole), before)
                         /\ read_frame(before, Last(whole)) = Deliver(arrays, ArrayFrame(frames))
  <2> DEFINE none == <<>>
             p == Prefix(n - 1)
             f == frames[n]
             a == Inside(arrays, n, none)
             b == Inside(arrays, n, p)
             x == flat[n - 1]
             t == toks[n]
  <2>1. n \in 1..n /\ n - 1 \in 0..(n - 1) /\ n - 1 \in 0..n
    OBVIOUS
  <2>2. Sends(t, f) /\ flat[n] = x \o t
    BY <2>1
  <2>3. Plain(h) /\ Plain(x) /\ Plain(t)
    BY <1>1, <1>2, <1>3, <2>1
  <2>4. Consumes(a, x, b)
    BY <1>4, <1>5, <2>1
  <2>5. IsSequence(p) /\ Len(p) = n - 1 /\ Append(p, f) = frames
    BY <2>1, PrefixGrows
  <2>6. Consumes(arrays, h, a)
    <3> DEFINE token == Header(n)
    <3>1. read_frame(arrays, token) = [open |-> a, frame |-> NoFrame]
      BY HeaderPlain DEF read_frame, Inside, Open
    <3> HIDE DEF token, a
    <3>2. Consumes(arrays, <<token>>, a)
      BY <3>1, ConsumesOne
    <3> QED BY <3>2 DEF token
  <2> HIDE DEF p, f, a, x, t, h
  <2>7. Unfinished(b) /\ Deliver(b, f) = Deliver(arrays, ArrayFrame(frames))
    <3>1. Len(p) + 1 = n /\ Len(p) < n
      BY <2>5
    <3>2. Unfinished(b)
      BY <1>5, <2>5, <3>1, InsideIs
    <3>3. Deliver(b, f) = Deliver(arrays, ArrayFrame(Append(p, f)))
      <4>1. IsSequence(p) /\ Len(p) + 1 = n
        BY <2>5, <3>1
      <4> QED BY <1>5, <4>1, DeliverUp
    <3> QED BY <2>5, <3>2, <3>3
  <2> HIDE DEF b
  <2>8. PICK before : /\ Consumes(b, Front(t), before)
                      /\ read_frame(before, Last(t)) = Deliver(b, f)
    BY <2>2, <2>7 DEF Sends
  <2>9. IsSequence(h) /\ IsSequence(x) /\ IsSequence(t) /\ t # <<>> /\ IsSequence(h \o x)
    <3>1. IsSequence(h) /\ IsSequence(x) /\ IsSequence(t) /\ t # <<>>
      BY <2>2, <2>3 DEF Plain, Sends
    <3> QED BY <3>1, ConcatIs
  <2>10. whole = (h \o x) \o t
    <3>1. IsSequence(h) /\ IsSequence(x) /\ IsSequence(t)
      BY <2>9
    <3>2. (h \o x) \o t = h \o (x \o t)
      BY ONLY <3>1, ConcatAssoc
    <3> QED BY <2>2, <3>2
  <2> DEFINE hx == h \o x
  <2> HIDE DEF hx
  <2>11. Consumes(arrays, hx, b)
    BY <2>4, <2>6, <2>9, ConsumesBoth DEF hx
  <2>12. /\ Front(hx \o t) = hx \o Front(t) /\ Last(hx \o t) = Last(t)
         /\ IsSequence(Front(t))
    BY <2>9, FrontConcat, FrontLast DEF hx
  <2> DEFINE ft == Front(t)
  <2> HIDE DEF ft
  <2>13. Consumes(arrays, hx \o ft, before)
    BY <2>8, <2>9, <2>11, <2>12, ConsumesBoth DEF hx, ft
  <2>14. whole = hx \o t
    BY <2>10 DEF hx
  <2> HIDE DEF whole
  <2>15. Consumes(arrays, Front(whole), before) /\ read_frame(before, Last(whole)) = Deliver(b, f)
    BY <2>8, <2>12, <2>13, <2>14 DEF ft
  <2> QED BY <2>7, <2>15
<1>6. whole # <<>>
  <2> DEFINE x == flat[n]
  <2>1. IsSequence(h) /\ Len(h) = 1 /\ IsSequence(x)
    BY <1>2, Singleton DEF Plain
  <2> HIDE DEF h, x
  <2>2. Len(h \o x) = 1 + Len(x) /\ Len(x) \in Nat
    <3>1. IsSequence(h) /\ IsSequence(x)
      BY <2>1
    <3>2. Len(h \o x) = Len(h) + Len(x) /\ Len(x) \in Nat
      BY <3>1, ConcatIs
    <3> QED BY <2>1, <3>2
  <2>3. Len(h \o x) # 0 /\ Len(<<>>) = 0
    BY <2>2
  <2> QED BY <2>3 DEF x
<1> HIDE DEF whole
<1>7. Sends(whole, ArrayFrame(frames))
  BY <1>3, <1>5, <1>6 DEF Sends, Plain
<1> QED BY <1>7 DEF whole

\* A frame that is written as one line, and what is read of that line.
IsLine(frame) ==
  \/ frame = NullFrame
  \/ \E x : frame \in {SimpleFrame(x), ErrorFrame(x), IntegerFrame(x), BulkFrame(x)}

AsRead(frame) == IF frame[1] = "error" THEN parse_inline_command(MinusWords(frame[2])) ELSE frame

LEMMA LineRead ==
  ASSUME NEW frame, IsLine(frame)
  PROVE  /\ Line(frame)[1] \in {"+", "-", ":", "$", "$-1"}
         /\ FrameOf(Line(frame)) = AsRead(frame)
         /\ frame[1] # "array"
         /\ write_row(frame) = <<Line(frame)>> /\ write_frame(frame) = <<Line(frame)>>
<1>1. /\ Line(frame)[1] \in {"+", "-", ":", "$", "$-1"}
      /\ FrameOf(Line(frame)) = AsRead(frame) /\ frame[1] # "array"
  <2>1. CASE frame = NullFrame
    <3>1. frame = <<"null">> /\ frame[1] = "null"
      BY <2>1 DEF NullFrame
    <3>2. Line(frame) = <<"$-1">>
      BY <3>1 DEF Line
    <3>3. Line(frame)[1] = "$-1"
      BY <3>2
    <3>4. FrameOf(Line(frame)) = NullFrame
      BY <3>3 DEF FrameOf
    <3> QED BY <2>1, <3>1, <3>3, <3>4 DEF AsRead
  <2>2. ASSUME NEW x, frame = SimpleFrame(x)
        PROVE  Line(frame)[1] = "+" /\ FrameOf(Line(frame)) = AsRead(frame) /\ frame[1] = "simple"
    <3>1. Line(frame) = <<"+", x>> /\ frame = <<"simple", x>> /\ frame[1] = "simple"
      BY <2>2 DEF Line, SimpleFrame
    <3>2. FrameOf(<<"+", x>>) = SimpleFrame(x)
      BY DEF FrameOf
    <3> QED BY <2>2, <3>1, <3>2 DEF AsRead
  <2>3. ASSUME NEW x, frame = IntegerFrame(x)
        PROVE  Line(frame)[1] = ":" /\ FrameOf(Line(frame)) = AsRead(frame) /\ frame[1] = "integer"
    <3>1. Line(frame) = <<":", x>> /\ frame = <<"integer", x>> /\ frame[1] = "integer"
      BY <2>3 DEF Line, IntegerFrame
    <3>2. FrameOf(<<":", x>>) = IntegerFrame(x)
      BY DEF FrameOf
    <3> QED BY <2>3, <3>1, <3>2 DEF AsRead
  <2>4. ASSUME NEW x, frame = BulkFrame(x)
        PROVE  Line(frame)[1] = "$" /\ FrameOf(Line(frame)) = AsRead(frame) /\ frame[1] = "bulk"
    <3>1. Line(frame) = <<"$", x>> /\ frame = <<"bulk", x>> /\ frame[1] = "bulk"
      BY <2>4 DEF Line, BulkFrame
    <3>2. FrameOf(<<"$", x>>) = BulkFrame(x)
      BY DEF FrameOf
    <3> QED BY <2>4, <3>1, <3>2 DEF AsRead
  <2>5. ASSUME NEW x, frame = ErrorFrame(x)
        PROVE  Line(frame)[1] = "-" /\ FrameOf(Line(frame)) = AsRead(frame) /\ frame[1] = "error"
    <3>1. Line(frame) = <<"-", x>> /\ frame = <<"error", x>> /\ frame[1] = "error" /\ frame[2] = x
      BY <2>5 DEF Line, ErrorFrame
    <3>2. FrameOf(<<"-", x>>) = parse_inline_command(MinusWords(x))
      BY DEF FrameOf
    <3> QED BY <3>1, <3>2 DEF AsRead
  <2>6. CASE \E x : frame \in {SimpleFrame(x), ErrorFrame(x), IntegerFrame(x), BulkFrame(x)}
    <3>1. PICK x : frame \in {SimpleFrame(x), ErrorFrame(x), IntegerFrame(x), BulkFrame(x)}
      BY <2>6
    <3>2. CASE frame = SimpleFrame(x)
      BY <2>2, <3>2
    <3>3. CASE frame = ErrorFrame(x)
      BY <2>5, <3>3
    <3>4. CASE frame = IntegerFrame(x)
      BY <2>3, <3>4
    <3>5. CASE frame = BulkFrame(x)
      BY <2>4, <3>5
    <3> QED BY <3>1, <3>2, <3>3, <3>4, <3>5
  <2> QED BY <2>1, <2>6 DEF IsLine
<1>2. write_row(frame) = <<Line(frame)>> /\ write_frame(frame) = <<Line(frame)>>
  BY <1>1 DEF write_row, write_frame
<1> QED BY <1>1, <1>2

LEMMA OneTokenSends ==
  ASSUME NEW token, ~Malformed(token), token[1] = "*" => token[2] = 0
  PROVE  Sends(<<token>>, FrameOf(token))
<1> DEFINE t == <<token>>
<1>1. IsSequence(t) /\ Len(t) = 1 /\ t[1] = token /\ t # <<>>
  BY Singleton
<1> HIDE DEF t
<1>2. IsSequence(Front(t)) /\ Len(Front(t)) = 0 /\ Last(t) = token
  <2>1. IsSequence(Front(t)) /\ Len(Front(t)) = Len(t) - 1 /\ Last(t) = t[Len(t)]
    <3>1. IsSequence(t) /\ t # <<>>
      BY <1>1
    <3> QED BY <3>1, FrontLast
  <2> QED BY <1>1, <2>1
<1>3. Front(t) = <<>>
  <2>1. PICK S : Front(t) \in Seq(S)
    BY <1>2 DEF IsSequence
  <2> QED BY <1>2, <2>1
<1>4. Headed(t) /\ \A i \in 1..Len(t) : ~Malformed(t[i])
  BY <1>1 DEF Headed
<1>5. ASSUME NEW arrays PROVE read_frame(arrays, token) = Deliver(arrays, FrameOf(token))
  BY DEF read_frame
<1>6. Sends(t, FrameOf(token))
  BY <1>1, <1>2, <1>3, <1>4, <1>5, ConsumesNone DEF Sends
<1> QED BY <1>6 DEF t

LEMMA LineSends ==
  ASSUME NEW frame, IsLine(frame)
  PROVE  Sends(write_row(frame), AsRead(frame)) /\ Sends(write_frame(frame), AsRead(frame))
<1> DEFINE token == Line(frame)
<1>1. /\ token[1] \in {"+", "-", ":", "$", "$-1"} /\ FrameOf(token) = AsRead(frame)
      /\ write_row(frame) = <<token>> /\ write_frame(frame) = <<token>>
  BY LineRead
<1> HIDE DEF token
<1>2. ~Malformed(token) /\ token[1] # "*"
  BY <1>1 DEF Malformed
<1>3. Sends(<<token>>, FrameOf(token))
  BY <1>2, OneTokenSends
<1> QED BY <1>1, <1>3

LEMMA EmptyArraySends == Sends(<<Header(0)>>, ArrayFrame(<<>>))
<1> DEFINE token == Header(0)
<1>1. token[1] = "*" /\ token[2] = 0
  BY DEF Header
<1> HIDE DEF token
<1>2. ~Malformed(token) /\ FrameOf(token) = ArrayFrame(<<>>)
  BY <1>1 DEF Malformed, FrameOf
<1>3. Sends(<<token>>, FrameOf(token))
  BY <1>1, <1>2, OneTokenSends
<1> QED BY <1>2, <1>3 DEF token

\* A line that is no error, or an array of such lines.
IsRow(frame) ==
  \/ IsLine(frame) /\ frame[1] # "error"
  \/ \E items : /\ frame = ArrayFrame(items) /\ IsSequence(items)
                /\ \A i \in 1..Len(items) : IsLine(items[i]) /\ items[i][1] # "error"

\* An array of rows, the deepest a frame of the program nests.
IsTable(frame) ==
  \/ IsRow(frame)
  \/ \E items : /\ frame = ArrayFrame(items) /\ IsSequence(items)
                /\ \A i \in 1..Len(items) : IsRow(items[i])

LEMMA EmptySequence ==
  ASSUME NEW s, IsSequence(s), Len(s) = 0
  PROVE  s = <<>>
<1>1. PICK S : s \in Seq(S)
  BY DEF IsSequence
<1> QED BY <1>1

LEMMA RowSends ==
  ASSUME NEW frame, IsRow(frame)
  PROVE  Sends(write_row(frame), frame)
<1>1. CASE IsLine(frame) /\ frame[1] # "error"
  <2>1. AsRead(frame) = frame
    BY <1>1 DEF AsRead
  <2> QED BY <1>1, <2>1, LineSends
<1>2. CASE \E items : /\ frame = ArrayFrame(items) /\ IsSequence(items)
                      /\ \A i \in 1..Len(items) : IsLine(items[i]) /\ items[i][1] # "error"
  <2>1. PICK items : /\ frame = ArrayFrame(items) /\ IsSequence(items)
                     /\ \A i \in 1..Len(items) : IsLine(items[i]) /\ items[i][1] # "error"
    BY <1>2
  <2> DEFINE n == Len(items)
             lines == [i \in 1..n |-> Line(items[i])]
             toks == [i \in 1..n |-> <<lines[i]>>]
             flat == [i \in 0..n |-> SubSeq(lines, 1, i)]
  <2>2. DOMAIN items = 1..n /\ n \in Nat
    BY <2>1, AppendIs
  <2>3. write_row(frame) = <<Header(n)>> \o lines
    BY <2>1, <2>2 DEF write_row, ArrayFrame
  <2>4. IsSequence(lines) /\ Len(lines) = n
    <3>1. lines \in [1..n -> {Line(items[i]) : i \in 1..n}]
      OBVIOUS
    <3>2. lines \in Seq({Line(items[i]) : i \in 1..n}) /\ Len(lines) = n
      BY <2>2, <3>1
    <3> QED BY <3>2 DEF IsSequence
  <2>5. CASE n = 0
    <3>1. lines = <<>> /\ items = <<>>
      <4> HIDE DEF lines
      <4> QED BY <2>1, <2>4, <2>5, EmptySequence
    <3>2. <<Header(n)>> \o lines = <<Header(0)>>
      <4> DEFINE h == <<Header(n)>>
      <4>1. h \in Seq({Header(n)})
        OBVIOUS
      <4> HIDE DEF h
      <4>2. h \o <<>> = h
        BY <4>1
      <4> QED BY <2>5, <3>1, <4>2 DEF h
    <3> QED BY <2>1, <2>3, <3>1, <3>2, EmptyArraySends
  <2>6. CASE n # 0
    <3>1. ASSUME NEW i \in 1..n
          PROVE  Sends(toks[i], items[i]) /\ flat[i] = flat[i - 1] \o toks[i]
      <4>1. Sends(write_row(items[i]), AsRead(items[i])) /\ AsRead(items[i]) = items[i]
        BY <2>1, LineSends DEF AsRead
      <4>2. write_row(items[i]) = toks[i]
        BY <2>1, LineRead
      <4>3. flat[i] = flat[i - 1] \o toks[i]
        <5>1. i \in 1..Len(lines) /\ i \in 0..n /\ i - 1 \in 0..n
          BY <2>2, <2>4
        <5>2. flat[i] = SubSeq(lines, 1, i) /\ flat[i - 1] = SubSeq(lines, 1, i - 1) /\ toks[i] = <<lines[i]>>
          BY <5>1
        <5> HIDE DEF lines, flat, toks
        <5>3. SubSeq(lines, 1, i - 1) \o <<lines[i]>> = SubSeq(lines, 1, i)
          BY <2>4, <5>1, PrefixGrows
        <5> QED BY <5>2, <5>3
      <4> QED BY <4>1, <4>2, <4>3
    <3>2. flat[0] = <<>> /\ flat[n] = lines
      <4>1. flat[0] = SubSeq(lines, 1, 0) /\ flat[n] = SubSeq(lines, 1, n)
        BY <2>2
      <4>2. n \in 1..Len(lines)
        BY <2>2, <2>4, <2>6
      <4> HIDE DEF lines, flat
      <4> QED BY <2>4, <4>1, <4>2, PrefixGrows
    <3> HIDE DEF toks, flat, lines, n
    <3>3. Len(items) = n /\ n > 0
      BY <2>2, <2>6 DEF n
    <3>4. Sends(<<Header(n)>> \o flat[n], ArrayFrame(items))
      BY <2>1, <2>2, <3>1, <3>2, <3>3, ArraySends
    <3> QED BY <2>1, <2>3, <3>2, <3>4
  <2> QED BY <2>5, <2>6
<1> QED BY <1>1, <1>2 DEF IsRow

LEMMA FlattenUnrolls ==
  ASSUME NEW seqs, IsSequence(seqs), seqs # <<>>, IsSequence(seqs[1])
  PROVE  \E flat : /\ flat[0] = <<>> /\ FlattenSeq(seqs) = flat[Len(seqs)]
                   /\ \A i \in 1..Len(seqs) : flat[i] = flat[i - 1] \o seqs[i]
<1> DEFINE N == Len(seqs)
           Step(g, i) == IF i = 1 THEN seqs[i] ELSE g[i - 1] \o seqs[i]
           Short == {m \in 1..N : ~\E g : g = [i \in 1..m |-> Step(g, i)]}
<1>1. N \in Nat /\ N > 0
  <2>1. N # 0
    BY EmptySequence
  <2> QED BY <2>1, AppendIs
<1>2. ASSUME Short # {} PROVE FALSE
  <2>1. PICK m \in Short : \A k \in Short : m <= k
    <3>1. Short \in SUBSET (0..N)
      <4>1. Short \subseteq 1..N
        OBVIOUS
      <4> HIDE DEF Short, N
      <4> QED BY <1>1, <4>1
    <3> HIDE DEF Short, N
    <3> QED BY <1>1, <1>2, <3>1, LeastNumber
  <2>2. m # 1
    <3>1. [i \in 1..1 |-> seqs[1]] = [i \in 1..1 |-> Step([j \in 1..1 |-> seqs[1]], i)]
      OBVIOUS
    <3> QED BY <3>1
  <2>3. m - 1 \in 1..N /\ m - 1 \notin Short
    <3>1. m \in 1..N
      OBVIOUS
    <3> HIDE DEF Short, N
    <3> QED BY <1>1, <2>1, <2>2, <3>1
  <2>4. PICK g : g = [i \in 1..(m - 1) |-> Step(g, i)]
    BY <2>3
  <2> DEFINE h == [i \in 1..m |-> Step(g, i)]
  <2>5. \A i \in 1..m : Step(g, i) = Step(h, i)
    <3> SUFFICES ASSUME NEW i \in 1..m, i # 1 PROVE g[i - 1] = h[i - 1]
      BY DEF Step
    <3>1. i - 1 \in 1..(m - 1) /\ i - 1 \in 1..m
      BY <2>1
    <3> HIDE DEF Step
    <3> QED BY <2>4, <3>1
  <2>6. h = [i \in 1..m |-> Step(h, i)]
    <3> HIDE DEF Step
    <3> QED BY <2>5
  <2> HIDE DEF h
  <2> QED BY <2>1, <2>6
<1>3. N \in 1..N
  BY <1>1
<1>4. PICK f : f = [i \in 1..N |-> Step(f, i)]
  BY <1>2, <1>3
<1> DEFINE flatten == CHOOSE g : g = [i \in 1..N |-> Step(g, i)]
<1>5. flatten = [i \in 1..N |-> Step(flatten, i)]
  BY <1>4
<1>6. FlattenSeq(seqs) = flatten[N]
  BY <1>1 DEF FlattenSeq
<1> HIDE DEF flatten, N
<1>7. \A i \in 1..N : flatten[i] = Step(flatten, i)
  <2> HIDE DEF Step
  <2> QED BY <1>5
<1> DEFINE flat == [i \in 0..N |-> IF i = 0 THEN <<>> ELSE flatten[i]]
<1>8. ASSUME NEW i \in 1..N PROVE flat[i] = flat[i - 1] \o seqs[i]
  <2>1. i \in 0..N /\ i - 1 \in 0..N /\ i # 0
    BY <1>1
  <2>2. flat[i] = flatten[i]
    BY <2>1
  <2>3. CASE i = 1
    <3>1. PICK S : seqs[1] \in Seq(S)
      BY DEF IsSequence
    <3>2. <<>> \o seqs[1] = seqs[1]
      BY <3>1
    <3>3. flat[i - 1] = <<>> /\ flatten[i] = seqs[1]
      BY <1>7, <2>1, <2>3
    <3> QED BY <2>2, <2>3, <3>2, <3>3
  <2>4. CASE i # 1
    <3>1. flat[i - 1] = flatten[i - 1]
      BY <1>1, <2>1, <2>4
    <3>2. flatten[i] = flatten[i - 1] \o seqs[i]
      BY <1>7, <2>4
    <3> QED BY <2>2, <3>1, <3>2
  <2> QED BY <2>3, <2>4
<1>9. flat[0] = <<>> /\ flat[N] = flatten[N]
  BY <1>1
<1> HIDE DEF flat
<1> QED BY <1>6, <1>8, <1>9 DEF N

LEMMA TableSends ==
  ASSUME NEW frame, IsTable(frame)
  PROVE  Sends(write_frame(frame), frame)
<1>1. CASE IsLine(frame) /\ frame[1] # "error"
  BY <1>1, LineSends DEF AsRead
<1>2. CASE \E items : /\ frame = ArrayFrame(items) /\ IsSequence(items)
                      /\ \A i \in 1..Len(items) : IsRow(items[i])
  <2>1. PICK items : /\ frame = ArrayFrame(items) /\ IsSequence(items)
                     /\ \A i \in 1..Len(items) : IsRow(items[i])
    BY <1>2
  <2> DEFINE n == Len(items)
             rows == [i \in 1..n |-> write_row(items[i])]
  <2>2. DOMAIN items = 1..n /\ n \in Nat
    BY <2>1, AppendIs
  <2>3. write_frame(frame) = <<Header(n)>> \o FlattenSeq(rows)
    BY <2>1, <2>2 DEF write_frame, ArrayFrame
  <2>4. IsSequence(rows) /\ Len(rows) = n
    <3>1. rows \in [1..n -> {write_row(items[i]) : i \in 1..n}]
      OBVIOUS
    <3>2. rows \in Seq({write_row(items[i]) : i \in 1..n}) /\ Len(rows) = n
      BY <2>2, <3>1
    <3> QED BY <3>2 DEF IsSequence
  <2>5. \A i \in 1..n : Sends(rows[i], items[i])
    BY <2>1, RowSends
  <2> HIDE DEF rows
  <2>6. CASE n = 0
    <3>1. rows = <<>> /\ items = <<>>
      BY <2>1, <2>4, <2>6, EmptySequence
    <3>2. FlattenSeq(rows) = <<>>
      <4>1. Len(<<>>) = 0
        OBVIOUS
      <4> QED BY <3>1, <4>1 DEF FlattenSeq
    <3>3. <<Header(n)>> \o <<>> = <<Header(0)>>
      <4> DEFINE h == <<Header(n)>>
      <4>1. h \in Seq({Header(n)})
        OBVIOUS
      <4> HIDE DEF h
      <4>2. h \o <<>> = h
        BY <4>1
      <4> QED BY <2>6, <4>2 DEF h
    <3> QED BY <2>1, <2>3, <3>1, <3>2, <3>3, EmptyArraySends
  <2>7. CASE n # 0
    <3>1. rows # <<>>
      <4>1. Len(rows) # 0 /\ Len(<<>>) = 0
        BY <2>4, <2>7
      <4> QED BY <4>1
    <3>2. IsSequence(rows[1])
      BY <2>2, <2>5, <2>7 DEF Sends
    <3>3. PICK flat : /\ flat[0] = <<>> /\ FlattenSeq(rows) = flat[Len(rows)]
                      /\ \A i \in 1..Len(rows) : flat[i] = flat[i - 1] \o rows[i]
      BY <2>4, <3>1, <3>2, FlattenUnrolls
    <3>4. \A i \in 1..n : Sends(rows[i], items[i]) /\ flat[i] = flat[i - 1] \o rows[i]
      BY <2>4, <2>5, <3>3
    <3>5. FlattenSeq(rows) = flat[n] /\ Len(items) = n /\ n > 0
      BY <2>2, <2>4, <2>7, <3>3
    <3> HIDE DEF n
    <3>6. Sends(<<Header(n)>> \o flat[n], ArrayFrame(items))
      BY <2>1, <2>2, <3>3, <3>4, <3>5, ArraySends
    <3> QED BY <2>1, <2>3, <3>5, <3>6
  <2> QED BY <2>6, <2>7
<1>3. CASE \E items : /\ frame = ArrayFrame(items) /\ IsSequence(items)
                      /\ \A i \in 1..Len(items) : IsLine(items[i]) /\ items[i][1] # "error"
  <2>1. PICK items : /\ frame = ArrayFrame(items) /\ IsSequence(items)
                     /\ \A i \in 1..Len(items) : IsLine(items[i]) /\ items[i][1] # "error"
    BY <1>3
  <2>2. \A i \in 1..Len(items) : IsRow(items[i])
    BY <2>1 DEF IsRow
  <2> QED BY <1>2, <2>1, <2>2
<1> QED BY <1>1, <1>2, <1>3 DEF IsTable, IsRow

LEMMA SendsReading ==
  ASSUME NEW tokens, NEW frame, Sends(tokens, frame)
  PROVE  /\ Len(tokens) \in Nat \ {0}
         /\ \A i \in 1..(Len(tokens) - 1) : Reading(tokens)[i].frame = NoFrame
         /\ Reading(tokens)[Len(tokens)] = [open |-> <<>>, frame |-> frame]
<1> DEFINE n == Len(tokens)
           r == Reading(tokens)
<1>1. PICK before : /\ Consumes(<<>>, Front(tokens), before)
                    /\ read_frame(before, Last(tokens)) = Deliver(<<>>, frame)
  BY NoArrays DEF Sends
<1>2. /\ n \in Nat \ {0} /\ Len(Front(tokens)) = n - 1 /\ Last(tokens) = tokens[n]
      /\ \A i \in 1..(n - 1) : Front(tokens)[i] = tokens[i]
  BY FrontLast DEF Sends
<1>3. PICK trace :
        /\ trace[0] = <<>> /\ trace[n - 1] = before
        /\ \A i \in 1..(n - 1) : read_frame(trace[i - 1], tokens[i]) = [open |-> trace[i], frame |-> NoFrame]
  BY <1>1, <1>2 DEF Consumes
<1>4. /\ r[0] = [open |-> <<>>, frame |-> NoFrame]
      /\ \A i \in 1..n : r[i] = read_frame(r[i - 1].open, tokens[i])
  BY <1>2, ReadingUnrolls
<1> HIDE DEF n, r
<1> DEFINE Off == {i \in 0..(n - 1) : r[i] # [open |-> trace[i], frame |-> NoFrame]}
<1>5. ASSUME Off # {} PROVE FALSE
  <2>1. PICK k \in Off : \A i \in Off : k <= i
    <3>1. Off \in SUBSET (0..(n - 1)) /\ n - 1 \in Nat
      BY <1>2
    <3> HIDE DEF Off
    <3> QED BY <1>5, <3>1, LeastNumber
  <2>2. k \in 0..(n - 1) /\ r[k] # [open |-> trace[k], frame |-> NoFrame]
    OBVIOUS
  <2>3. k # 0
    BY <1>3, <1>4, <2>2
  <2>4. k - 1 \in 0..(n - 1) /\ k - 1 \notin Off /\ k \in 1..(n - 1) /\ k \in 1..n
    <3> HIDE DEF Off
    <3> QED BY <1>2, <2>1, <2>2, <2>3
  <2>5. r[k - 1].open = trace[k - 1]
    BY <2>4
  <2> QED BY <1>3, <1>4, <2>2, <2>4, <2>5
<1>6. \A i \in 0..(n - 1) : r[i] = [open |-> trace[i], frame |-> NoFrame]
  BY <1>5
<1>7. r[n] = [open |-> <<>>, frame |-> frame]
  <2>1. n - 1 \in 0..(n - 1) /\ n \in 1..n
    BY <1>2
  <2>2. r[n - 1].open = before
    <3>1. r[n - 1] = [open |-> trace[n - 1], frame |-> NoFrame]
      BY <1>6, <2>1
    <3> QED BY <1>3, <3>1
  <2>3. r[n] = Deliver(<<>>, frame)
    BY <1>1, <1>2, <1>4, <2>1, <2>2
  <2> QED BY <2>3, NoArrays
<1>8. ASSUME NEW i \in 1..(n - 1) PROVE r[i].frame = NoFrame
  <2>1. i \in 0..(n - 1)
    BY <1>2
  <2>2. r[i] = [open |-> trace[i], frame |-> NoFrame]
    BY <1>6, <2>1
  <2> QED BY <2>2
<1> QED BY <1>2, <1>7, <1>8 DEF n, r

\* Reading what write_frame wrote gives the frame back, with the last token and
\* not before, whatever the number of rows and the number of lines in each.
THEOREM WrittenFramesAreRead ==
  ASSUME NEW frame, IsTable(frame)
  PROVE  /\ \A i \in 1..(Len(write_frame(frame)) - 1) : Reading(write_frame(frame))[i].frame = NoFrame
         /\ Reading(write_frame(frame))[Len(write_frame(frame))] = [open |-> <<>>, frame |-> frame]
<1> DEFINE tokens == write_frame(frame)
<1>1. Sends(tokens, frame)
  BY TableSends
<1> HIDE DEF tokens
<1>2. /\ \A i \in 1..(Len(tokens) - 1) : Reading(tokens)[i].frame = NoFrame
      /\ Reading(tokens)[Len(tokens)] = [open |-> <<>>, frame |-> frame]
  BY <1>1, SendsReading
<1> QED BY <1>2 DEF tokens

=============================================================================

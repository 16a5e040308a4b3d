------------------------- MODULE AppendOnlyFile_proofs -------------------------
(***************************************************************************)
(* Theorems about AppendOnlyFile.tla, for every set of connections, of     *)
(* commands and for all bounds.                                            *)
(***************************************************************************)
EXTENDS AppendOnlyFile, Resp_proofs

----------------------------------------------------------------------------
(* The reader.                                                             *)

\* The arrays that a reader has open, and what they lack is finite.
Good(arrays) == Unfinished(arrays) /\ IsFiniteSet(Lacking(arrays))

\* The rest of an array that is being read.
Missing(array) == array.len - Len(array.items) - 1

LEMMA MissingIs ==
  ASSUME NEW arrays, Good(arrays), NEW i \in DOMAIN arrays
  PROVE  /\ Missing(arrays[i]) \in Nat
         /\ Closing(arrays[i]) <=> Missing(arrays[i]) = 0
         /\ Len(arrays[i].items) \in Nat
<1>1. arrays[i].len \in Nat /\ Len(arrays[i].items) < arrays[i].len /\ Len(arrays[i].items) \in Nat
  BY DEF Good, Unfinished, IsSequence
<1> QED BY <1>1 DEF Missing, Closing

LEMMA EmptyStack ==
  Good(<<>>) /\ Lacking(<<>>) = {} /\ Hole(<<>>) = 0
<1>1. <<>> \in Seq({}) /\ DOMAIN <<>> = {}
  OBVIOUS
<1>2. Lacking(<<>>) = {}
  BY <1>1 DEF Lacking
<1> QED BY <1>1, <1>2, FS_EmptySet DEF Good, Unfinished, IsSequence, Hole

\* One array more.
LEMMA Opened ==
  ASSUME NEW arrays, Good(arrays), NEW len \in Nat, NEW items, IsSequence(items), Len(items) < len,
         NEW array, array = [len |-> len, items |-> items],
         NEW opened, opened = Append(arrays, array)
  PROVE  /\ Good(opened)
         /\ Hole(opened) = 1 + Cardinality(Lacking(arrays)) + Missing(array)
         /\ Cardinality(Lacking(arrays)) \in Nat
<1> DEFINE n == Len(arrays) + 1
           new == {n} \X (1..Missing(array))
<1>1. IsSequence(arrays)
  BY DEF Good, Unfinished
<1>2. /\ IsSequence(opened) /\ opened # <<>>
      /\ DOMAIN opened = 1..n /\ DOMAIN arrays = 1..(n - 1)
      /\ n \in Nat /\ n - 1 \in Nat
      /\ opened[n] = array
      /\ \A i \in 1..(n - 1) : opened[i] = arrays[i]
  BY <1>1, AppendIs
<1>3. Len(items) \in Nat /\ Missing(array) \in Nat
  BY DEF IsSequence, Missing
<1> HIDE DEF n
<1>4. Lacking(opened) = Lacking(arrays) \cup new
  BY <1>2 DEF Lacking, Missing
<1>5. Lacking(arrays) \cap new = {}
  BY <1>2 DEF Lacking
<1>6. IsFiniteSet(new) /\ Cardinality(new) = Missing(array)
  <2>1. IsFiniteSet({n}) /\ Cardinality({n}) = 1
    BY FS_Singleton
  <2>2. IsFiniteSet(1..Missing(array)) /\ Cardinality(1..Missing(array)) = Missing(array)
    <3> DEFINE m == Missing(array)
    <3>1. m \in Nat /\ m \in Int /\ 1 \in Int
      BY <1>3
    <3> HIDE DEF m
    <3>2. IsFiniteSet(1..m) /\ Cardinality(1..m) = IF 1 > m THEN 0 ELSE m - 1 + 1
      BY <3>1, FS_Interval
    <3> QED BY <3>1, <3>2 DEF m
  <2>3. IsFiniteSet(new) /\ Cardinality(new) = Cardinality({n}) * Cardinality(1..Missing(array))
    BY <2>1, <2>2, FS_Product
  <2> QED BY <1>3, <2>1, <2>2, <2>3
<1>7. IsFiniteSet(Lacking(arrays)) /\ Cardinality(Lacking(arrays)) \in Nat
  BY FS_CardinalityType DEF Good, Unfinished
<1>8. /\ IsFiniteSet(Lacking(opened))
      /\ Cardinality(Lacking(opened)) = Cardinality(Lacking(arrays)) + Missing(array)
  <2> HIDE DEF new
  <2>1. /\ IsFiniteSet(Lacking(arrays) \cup new)
        /\ Cardinality(Lacking(arrays) \cup new)
             = Cardinality(Lacking(arrays)) + Cardinality(new) - Cardinality(Lacking(arrays) \cap new)
    BY <1>6, <1>7, FS_Union
  <2>2. Cardinality({}) = 0
    BY FS_EmptySet
  <2> DEFINE m == Missing(array)
             k == Cardinality(Lacking(arrays))
  <2>3. m \in Nat /\ k \in Nat
    BY <1>3, <1>7
  <2>4. Cardinality(Lacking(opened)) = k + m - 0 /\ IsFiniteSet(Lacking(opened))
    BY <1>4, <1>5, <1>6, <2>1, <2>2
  <2> HIDE DEF m, k
  <2>5. Cardinality(Lacking(opened)) = k + m
    BY <2>3, <2>4
  <2> QED BY <2>4, <2>5 DEF m, k
<1>9. ASSUME NEW i \in DOMAIN opened
      PROVE  /\ opened[i] = [len |-> opened[i].len, items |-> opened[i].items]
             /\ opened[i].len \in Nat
             /\ IsSequence(opened[i].items)
             /\ Len(opened[i].items) < opened[i].len
  <2>1. i = n \/ (i \in 1..(n - 1) /\ i \in DOMAIN arrays)
    BY <1>2, <1>9
  <2> QED BY <1>2, <2>1 DEF Good, Unfinished
<1> QED BY <1>2, <1>3, <1>7, <1>8, <1>9 DEF Good, Unfinished, Hole

\* A frame with an item that is no bulk string is no command.
LEMMA NoCommand ==
  ASSUME NEW items, NEW i \in DOMAIN items, items[i][1] # "bulk"
  PROVE  Failed(from_frame(ArrayFrame(items)))
<1> DEFINE frame == ArrayFrame(items)
<1>1. frame[1] = "array" /\ frame[2] = items
  BY DEF ArrayFrame
<1> HIDE DEF frame
<1>2. \E j \in DOMAIN frame[2] : frame[2][j][1] # "bulk"
  BY <1>1
<1>3. from_frame(frame) = Failure("ExpectedBulk")
  BY <1>1, <1>2 DEF from_frame
<1> QED BY <1>3 DEF Failed, Failure, frame

\* A frame fills the place of one item: of the hole one frame less remains, and
\* a frame that closed an array inside another is no command.
LEMMA Delivered ==
  ASSUME NEW arrays, Good(arrays), arrays # <<>>, NEW frame,
         NEW result, result = Deliver(arrays, frame)
  PROVE  /\ Good(result.open)
         /\ Hole(arrays) \in Nat /\ Hole(arrays) > 0
         /\ Hole(result.open) = Hole(arrays) - 1
         /\ result.open = <<>> <=> result.frame # NoFrame
         /\ Len(arrays) > 1 /\ result.frame # NoFrame => Failed(from_frame(result.frame))
<1> DEFINE n == Len(arrays)
           left == StillOpen(arrays)
           nested == Nested(arrays, frame)
           item == nested[n - left]
<1>1. IsSequence(arrays) /\ DOMAIN arrays = 1..n /\ n \in Nat /\ n > 0
  <2>1. IsSequence(arrays)
    BY DEF Good, Unfinished
  <2>2. n \in Nat /\ DOMAIN arrays = 1..n
    BY <2>1, AppendIs
  <2>3. n # 0
    BY <2>1 DEF IsSequence
  <2> QED BY <2>1, <2>2, <2>3
<1>2. /\ left \in 0..n
      /\ \A i \in (left + 1)..n : Closing(arrays[i])
      /\ left > 0 => ~Closing(arrays[left])
  BY StillOpenIs DEF Good
<1>3. \A i \in 1..n : /\ Missing(arrays[i]) \in Nat
                      /\ Closing(arrays[i]) <=> Missing(arrays[i]) = 0
                      /\ Len(arrays[i].items) \in Nat
  BY <1>1, MissingIs
<1>4. IsFiniteSet(Lacking(arrays)) /\ Cardinality(Lacking(arrays)) \in Nat
  BY FS_CardinalityType DEF Good, Unfinished
<1>5. Lacking(arrays) = UNION {{i} \X (1..Missing(arrays[i])) : i \in 1..n}
  BY <1>1 DEF Lacking, Missing
<1>6. Hole(arrays) = 1 + Cardinality(Lacking(arrays))
  BY DEF Hole
<1>7. CASE left = 0
  <2>1. result = [open |-> <<>>, frame |-> nested[n]]
    BY <1>1, <1>7 DEF Deliver
  <2>2. \A i \in 1..n : nested[i] = ArrayFrame(Append(arrays[n + 1 - i].items, nested[i - 1]))
    BY <1>1, NestedUnrolls
  <2>3. Lacking(arrays) = {}
    BY <1>1, <1>2, <1>3, <1>5, <1>7
  <2>4. Hole(arrays) = 1
    BY <1>6, <2>3, FS_EmptySet
  <2> HIDE DEF n, left, nested
  <2>5. nested[n] # NoFrame
    <3>1. PICK items : nested[n] = <<"array", items>>
      BY <1>1, <2>2 DEF ArrayFrame
    <3>2. Len(<<"array", items>>) = 2 /\ Len(<<>>) = 0
      OBVIOUS
    <3> QED BY <3>1, <3>2 DEF NoFrame
  <2>6. ASSUME n > 1 PROVE Failed(from_frame(nested[n]))
    <3> DEFINE last == nested[n - 1]
               items == arrays[1].items
    <3>1. nested[n] = ArrayFrame(Append(items, last))
      BY <1>1, <2>2
    <3>2. last[1] # "bulk"
      <4>1. n - 1 \in 1..n
        BY <1>1, <2>6
      <4> QED BY <2>2, <4>1 DEF ArrayFrame
    <3>3. IsSequence(items)
      BY <1>1 DEF Good, Unfinished
    <3> HIDE DEF items, last
    <3>4. /\ Len(items) + 1 \in DOMAIN Append(items, last)
          /\ Append(items, last)[Len(items) + 1] = last
      BY <3>3, AppendIs
    <3> QED BY <3>1, <3>2, <3>4, NoCommand
  <2> QED BY <2>1, <2>4, <2>5, <2>6, EmptyStack DEF n
<1>8. CASE left # 0
  <2> DEFINE array == [len |-> arrays[left].len, items |-> Append(arrays[left].items, item)]
             kept == [SubSeq(arrays, 1, left) EXCEPT ![left] = array]
             m == Missing(arrays[left])
             cell == <<left, m>>
  <2>1. left \in 1..n
    BY <1>1, <1>2, <1>8
  <2>2. result.open = kept /\ result.frame = NoFrame
    <3>1. /\ left \in 1..Len(arrays) /\ left = StillOpen(arrays)
          /\ item = Nested(arrays, frame)[Len(arrays) - left]
      BY <2>1
    <3> HIDE DEF item, left
    <3>2. Deliver(arrays, frame) = [open |-> Extended(arrays, left, item), frame |-> NoFrame]
      BY <3>1, DeliverStays DEF Good
    <3>3. kept = Extended(arrays, left, item)
      BY DEF Extended
    <3> HIDE DEF kept
    <3> QED BY <3>2, <3>3
  <2>3. /\ IsSequence(arrays[left].items) /\ arrays[left].len \in Nat
        /\ Len(arrays[left].items) < arrays[left].len
        /\ m \in Nat /\ m > 0
    BY <1>1, <1>2, <1>3, <2>1 DEF Good, Unfinished
  <2> HIDE DEF left, item
  <2>4. /\ IsSequence(array.items) /\ array.len = arrays[left].len
        /\ Len(array.items) = Len(arrays[left].items) + 1
        /\ Len(arrays[left].items) \in Nat
        /\ array = [len |-> array.len, items |-> array.items]
    BY <2>3, AppendIs
  <2>5. m = arrays[left].len - Len(arrays[left].items) - 1
    BY DEF Missing
  <2> HIDE DEF array, m
  <2>6. Missing(array) = m - 1 /\ Len(array.items) < array.len
    <3> DEFINE len == arrays[left].len
               held == Len(arrays[left].items)
    <3>1. Missing(array) = len - (held + 1) - 1 /\ m = len - held - 1
      BY <2>4, <2>5 DEF Missing
    <3>2. len \in Nat /\ held \in Nat /\ m \in Nat /\ m > 0
      BY <2>3, <2>4
    <3>3. Len(array.items) = held + 1 /\ array.len = len
      BY <2>4
    <3> HIDE DEF len, held
    <3> QED BY <3>1, <3>2, <3>3
  <2>7. /\ IsSequence(kept) /\ DOMAIN kept = 1..left /\ kept # <<>>
        /\ kept[left] = array
        /\ \A i \in 1..(left - 1) : kept[i] = arrays[i]
    BY <1>1, <2>1, FrontOf
  <2> HIDE DEF kept
  <2>8. Lacking(kept) = UNION {{i} \X (1..Missing(kept[i])) : i \in 1..left}
    BY <2>7 DEF Lacking, Missing
  <2>9. ASSUME NEW i \in Nat, NEW j \in Nat
        PROVE  <<i, j>> \in Lacking(kept) <=> <<i, j>> \in Lacking(arrays) \ {cell}
    <3>1. <<i, j>> \in Lacking(kept) <=> i \in 1..left /\ j \in 1..Missing(kept[i])
      BY <2>8
    <3>2. <<i, j>> \in Lacking(arrays) <=> i \in 1..n /\ j \in 1..Missing(arrays[i])
      BY <1>5
    <3>3. CASE i = left
      BY <1>1, <2>1, <2>3, <2>6, <2>7, <3>1, <3>2, <3>3 DEF m
    <3>4. CASE i \in 1..(left - 1)
      <4>1. <<i, j>> # cell /\ i \in 1..left /\ i \in 1..n
        BY <1>1, <2>1, <3>4
      <4> QED BY <2>7, <3>1, <3>2, <3>4, <4>1
    <3>5. CASE i \in (left + 1)..n
      <4>1. Missing(arrays[i]) = 0
        BY <1>2, <1>3, <2>1, <3>5
      <4> QED BY <1>1, <2>1, <3>1, <3>2, <3>5, <4>1
    <3>6. CASE i \notin 1..n
      BY <1>1, <2>1, <3>1, <3>2, <3>6
    <3> QED BY <1>1, <2>1, <3>3, <3>4, <3>5, <3>6
  <2>10. cell \in Lacking(arrays)
    BY <1>5, <2>1, <2>3 DEF m
  <2>11. Lacking(kept) \subseteq Nat \X Nat /\ Lacking(arrays) \subseteq Nat \X Nat
    BY <1>1, <1>5, <2>1, <2>8
  <2>12. Lacking(kept) = Lacking(arrays) \ {cell}
    BY <2>9, <2>11
  <2> HIDE DEF cell
  <2>13. /\ IsFiniteSet(Lacking(kept))
         /\ Cardinality(Lacking(kept)) = Cardinality(Lacking(arrays)) - 1
    BY <1>4, <2>10, <2>12, FS_RemoveElement
  <2>14. ASSUME NEW i \in DOMAIN kept
         PROVE  /\ kept[i] = [len |-> kept[i].len, items |-> kept[i].items]
                /\ kept[i].len \in Nat
                /\ IsSequence(kept[i].items)
                /\ Len(kept[i].items) < kept[i].len
    <3>1. CASE i = left
      BY <2>3, <2>4, <2>6, <2>7, <3>1
    <3>2. CASE i \in 1..(left - 1)
      BY <1>1, <2>1, <2>7, <3>2 DEF Good, Unfinished
    <3> QED BY <2>1, <2>7, <3>1, <3>2
  <2>15. Good(kept)
    BY <2>7, <2>13, <2>14 DEF Good, Unfinished
  <2>16. Hole(kept) = 1 + Cardinality(Lacking(kept))
    BY <2>7 DEF Hole
  <2> QED BY <1>4, <1>6, <2>2, <2>7, <2>13, <2>15, <2>16
<1> QED BY <1>7, <1>8


----------------------------------------------------------------------------
(* A frame that is appended, token by token.                               *)

\* The array of command c with its first `count` items.
Begun(c, count) == [len |-> Items[c], items |-> [i \in 1..count |-> aof_frame(c)[2][i]]]

\* The arrays that are open when `count` items of command c have been read.
Deeper(stack, c, count) == Append(stack, Begun(c, count))

\* A logged command is an array of bulk strings, its tokens are its length and
\* its items.
LEMMA LoggedFrame ==
  ASSUME NEW c \in Logged
  PROVE  /\ Items[c] \in Nat /\ Items[c] > 0
         /\ aof_frame(c) = ArrayFrame(aof_frame(c)[2])
         /\ IsSequence(aof_frame(c)[2]) /\ Len(aof_frame(c)[2]) = Items[c]
         /\ Tokens[c][1] = <<"*", Items[c]>>
         /\ \A i \in 1..Items[c] :
              Tokens[c][i + 1][1] = "$" /\ FrameOf(Tokens[c][i + 1]) = aof_frame(c)[2][i]
         /\ from_frame(aof_frame(c)) = c /\ ~Failed(c)
<1> DEFINE rest == CASE c.op = "SET" -> <<c.key, c.value>>
                     [] c.op = "DEL" -> c.keys
                     [] c.op = "EXPIREAT" -> <<c.key, ToString(c.seconds)>>
                     [] c.op \in {"LPUSH", "RPUSH"} -> <<c.key>> \o c.values
                     [] OTHER -> <<c.key>>
           payloads == <<c.op>> \o rest
           n == Len(payloads)
           items == [i \in DOMAIN payloads |-> BulkFrame(payloads[i])]
<1>1. IsSequence(rest)
  <2>1. CASE c.op = "DEL"
    BY <2>1, FileAssumption DEF IsSequence
  <2>2. CASE c.op \in {"LPUSH", "RPUSH"}
    <3>1. c.values \in Seq(STRING \cup {c.key}) /\ <<c.key>> \in Seq(STRING \cup {c.key})
      BY <2>2, FileAssumption
    <3>2. <<c.key>> \o c.values \in Seq(STRING \cup {c.key})
      BY <3>1
    <3>3. rest = <<c.key>> \o c.values
      BY <2>2
    <3> QED BY <3>2, <3>3 DEF IsSequence
  <2>3. CASE c.op = "SET"
    <3>1. <<c.key, c.value>> \in Seq({c.key, c.value})
      OBVIOUS
    <3> QED BY <2>3, <3>1 DEF IsSequence
  <2>4. CASE c.op = "EXPIREAT"
    <3>1. <<c.key, ToString(c.seconds)>> \in Seq({c.key, ToString(c.seconds)})
      OBVIOUS
    <3> QED BY <2>4, <3>1 DEF IsSequence
  <2>5. CASE c.op \notin {"SET", "DEL", "EXPIREAT", "LPUSH", "RPUSH"}
    <3>1. <<c.key>> \in Seq({c.key})
      OBVIOUS
    <3> QED BY <2>5, <3>1 DEF IsSequence
  <2> QED BY <2>1, <2>2, <2>3, <2>4, <2>5
<1>2. aof_frame(c) = ArrayFrame(items)
  BY DEF aof_frame, Bulks
<1> HIDE DEF rest
<1>3. IsSequence(payloads) /\ n \in Nat /\ n > 0 /\ DOMAIN payloads = 1..n
  <2>1. PICK S : rest \in Seq(S)
    BY <1>1 DEF IsSequence
  <2>2. rest \in Seq(S \cup {c.op}) /\ <<c.op>> \in Seq(S \cup {c.op})
    BY <2>1
  <2> QED BY <2>2 DEF IsSequence
<1> HIDE DEF payloads, n
<1>4. /\ items \in [1..n -> {BulkFrame(payloads[i]) : i \in 1..n}]
      /\ \A i \in 1..n : items[i] = <<"bulk", payloads[i]>>
  BY <1>3 DEF BulkFrame
<1>5. items \in Seq({BulkFrame(payloads[i]) : i \in 1..n}) /\ Len(items) = n /\ DOMAIN items = 1..n
  BY <1>3, <1>4
<1> HIDE DEF items
<1> DEFINE lines == [i \in DOMAIN items |-> Line(items[i])]
<1>6. /\ lines \in Seq({Line(items[i]) : i \in 1..n}) /\ Len(lines) = n
      /\ \A i \in 1..n : lines[i] = <<"$", payloads[i]>>
  <2>1. lines \in [1..n -> {Line(items[i]) : i \in 1..n}]
    BY <1>5
  <2>2. lines \in Seq({Line(items[i]) : i \in 1..n}) /\ Len(lines) = n
    BY <1>3, <2>1
  <2>3. ASSUME NEW p PROVE Line(<<"bulk", p>>) = <<"$", p>>
    BY DEF Line
  <2>4. \A i \in 1..n : lines[i] = <<"$", payloads[i]>>
    BY <1>4, <1>5, <2>3
  <2> QED BY <2>2, <2>4
<1> HIDE DEF lines
<1>7. Tokens[c] = <<Header(n)>> \o lines
  BY <1>2, <1>5 DEF Tokens, write_row, ArrayFrame, lines
<1>8. /\ Len(Tokens[c]) = n + 1
      /\ Tokens[c][1] = Header(n)
      /\ \A i \in 1..n : Tokens[c][i + 1] = lines[i]
  <2> DEFINE S == {Line(items[i]) : i \in 1..n} \cup {Header(n)}
  <2>1. lines \in Seq(S) /\ <<Header(n)>> \in Seq(S)
    BY <1>6
  <2> HIDE DEF S
  <2> QED BY <1>3, <1>6, <1>7, <2>1
<1>9. Items[c] = n
  BY <1>3, <1>8 DEF Items
<1>10. \A i \in 1..n : FrameOf(Tokens[c][i + 1]) = items[i] /\ Tokens[c][i + 1][1] = "$"
  <2>1. ASSUME NEW p PROVE FrameOf(<<"$", p>>) = <<"bulk", p>> /\ <<"$", p>>[1] = "$"
    BY DEF FrameOf, BulkFrame
  <2>2. ASSUME NEW i \in 1..n
        PROVE  FrameOf(Tokens[c][i + 1]) = items[i] /\ Tokens[c][i + 1][1] = "$"
    <3>1. Tokens[c][i + 1] = <<"$", payloads[i]>> /\ items[i] = <<"bulk", payloads[i]>>
      BY <1>4, <1>6, <1>8
    <3> QED BY <2>1, <3>1
  <2> QED BY <2>2
<1>11. aof_frame(c)[2] = items
  BY <1>2 DEF ArrayFrame
<1> QED BY <1>2, <1>3, <1>5, <1>8, <1>9, <1>10, <1>11, FileAssumption DEF Header, IsSequence

LEMMA BegunIs ==
  ASSUME NEW c \in Logged, NEW count \in Nat, count <= Items[c]
  PROVE  /\ IsSequence(Begun(c, count).items) /\ Len(Begun(c, count).items) = count
         /\ Begun(c, count).len = Items[c]
         /\ Missing(Begun(c, count)) = Items[c] - count - 1
         /\ count < Items[c] =>
              Append(Begun(c, count).items, aof_frame(c)[2][count + 1]) = Begun(c, count + 1).items
         /\ Begun(c, Items[c]).items = aof_frame(c)[2]
         /\ Begun(c, 0) = Open(Items[c])
<1> DEFINE frame == aof_frame(c)[2]
           n == Items[c]
           first == [i \in 1..count |-> frame[i]]
           more == [i \in 1..(count + 1) |-> frame[i]]
<1>1. n \in Nat /\ IsSequence(frame) /\ Len(frame) = n
  BY LoggedFrame
<1>2. PICK S : frame \in Seq(S)
  BY <1>1 DEF IsSequence
<1> HIDE DEF frame, n
<1>3. n = Items[c]
  BY DEF n
<1>4. first \in Seq(S) /\ Len(first) = count
  <2>1. first \in [1..count -> S]
    BY <1>1, <1>2, <1>3
  <2> QED BY <2>1
<1>5. ASSUME count < n PROVE Append(first, frame[count + 1]) = more
  <2>1. more \in [1..(count + 1) -> S]
    BY <1>1, <1>2, <1>5
  <2>2. more \in Seq(S) /\ Len(more) = count + 1
    BY <2>1
  <2>3. frame[count + 1] \in S
    BY <1>1, <1>2, <1>5
  <2>4. Append(first, frame[count + 1]) \in Seq(S) /\ Len(Append(first, frame[count + 1])) = count + 1
    BY <1>4, <2>3
  <2>5. \A i \in 1..(count + 1) : Append(first, frame[count + 1])[i] = more[i]
    BY <1>4
  <2> QED BY <2>2, <2>4, <2>5, SameSequence DEF IsSequence
<1>6. [i \in 1..n |-> frame[i]] = frame
  BY <1>1, <1>2
<1>7. [i \in 1..0 |-> frame[i]] = <<>>
  OBVIOUS
<1>8. IsSequence(first)
  BY <1>4 DEF IsSequence
<1> QED BY <1>1, <1>3, <1>4, <1>5, <1>6, <1>7, <1>8 DEF Begun, Missing, Open, frame


\* Nothing comes of a token that completes no frame.
LEMMA NothingRead ==
  ASSUME NEW s, NEW token, NEW stack, read_frame(s.open, token) = [open |-> stack, frame |-> NoFrame]
  PROVE  Reread(s, token) = [open |-> stack, commands |-> s.commands]
<1>1. Failed(Failure("none"))
  BY DEF Failed, Failure
<1> QED BY <1>1 DEF Reread

LEMMA HeaderRead ==
  ASSUME NEW c \in Logged, NEW s
  PROVE  Reread(s, Tokens[c][1]) = [open |-> Deeper(s.open, c, 0), commands |-> s.commands]
<1> DEFINE token == Tokens[c][1]
<1>1. token[1] = "*" /\ token[2] = Items[c] /\ Items[c] > 0
  BY LoggedFrame
<1>2. Begun(c, 0) = Open(Items[c])
  BY LoggedFrame, BegunIs
<1> HIDE DEF token
<1>3. read_frame(s.open, token) = [open |-> Deeper(s.open, c, 0), frame |-> NoFrame]
  BY <1>1, <1>2 DEF Deeper, read_frame
<1> QED BY <1>3, NothingRead DEF token

\* An item goes to the innermost array.
LEMMA ItemDelivered ==
  ASSUME NEW c \in Logged, NEW i \in 1..Items[c], NEW stack
  PROVE  read_frame(stack, Tokens[c][i + 1]) = Deliver(stack, aof_frame(c)[2][i])
<1> DEFINE token == Tokens[c][i + 1]
<1>1. token[1] = "$" /\ FrameOf(token) = aof_frame(c)[2][i]
  BY LoggedFrame
<1> HIDE DEF token
<1>2. read_frame(stack, token) = Deliver(stack, aof_frame(c)[2][i])
  BY <1>1 DEF read_frame
<1> QED BY <1>2 DEF token

LEMMA BegunOpen ==
  ASSUME NEW c \in Logged, NEW count \in Nat, count < Items[c], NEW stack, Good(stack)
  PROVE  /\ Good(Deeper(stack, c, count))
         /\ Hole(Deeper(stack, c, count))
              = 1 + Cardinality(Lacking(stack)) + (Items[c] - count - 1)
         /\ Cardinality(Lacking(stack)) \in Nat
<1> USE DEF Deeper
<1> DEFINE array == Begun(c, count)
<1>1. Items[c] \in Nat /\ count <= Items[c]
  BY LoggedFrame
<1>2. /\ IsSequence(array.items) /\ Len(array.items) = count /\ array.len = Items[c]
      /\ Missing(array) = Items[c] - count - 1
  BY <1>1, BegunIs
<1>3. array = [len |-> array.len, items |-> array.items]
  BY DEF Begun
<1> HIDE DEF array
<1>4. /\ Good(Append(stack, array))
      /\ Hole(Append(stack, array)) = 1 + Cardinality(Lacking(stack)) + Missing(array)
      /\ Cardinality(Lacking(stack)) \in Nat
  BY <1>1, <1>2, <1>3, Opened
<1> QED BY <1>2, <1>4 DEF array

LEMMA ItemRead ==
  ASSUME NEW c \in Logged, NEW count \in Nat, count + 1 < Items[c],
         NEW stack, Good(stack), NEW s, s.open = Deeper(stack, c, count)
  PROVE  Reread(s, Tokens[c][count + 2])
           = [open |-> Deeper(stack, c, count + 1), commands |-> s.commands]
<1> DEFINE arrays == Deeper(stack, c, count)
           n == Len(stack) + 1
           item == aof_frame(c)[2][count + 1]
           grown == Deeper(stack, c, count + 1)
<1>1. Items[c] \in Nat /\ count + 1 \in 1..Items[c] /\ count < Items[c] /\ count <= Items[c]
      /\ count + 1 \in Nat /\ (count + 1) + 1 = count + 2
  BY LoggedFrame
<1>2. Good(arrays)
  BY <1>1, BegunOpen
<1>3. /\ Len(stack) \in Nat /\ n \in Nat /\ Len(arrays) = n /\ arrays[n] = Begun(c, count)
      /\ \A i \in 1..(n - 1) : arrays[i] = stack[i]
      /\ IsSequence(grown) /\ Len(grown) = n /\ grown[n] = Begun(c, count + 1)
      /\ \A i \in 1..(n - 1) : grown[i] = stack[i]
  BY AppendIs DEF Good, Unfinished, Deeper
<1>4. /\ Len(Begun(c, count).items) = count /\ Begun(c, count).len = Items[c]
      /\ Append(Begun(c, count).items, item) = Begun(c, count + 1).items
      /\ Begun(c, count + 1).len = Items[c]
  <2>1. /\ Len(Begun(c, count).items) = count
        /\ Append(Begun(c, count).items, item) = Begun(c, count + 1).items
    BY <1>1, BegunIs
  <2> QED BY <2>1 DEF Begun
<1>5. read_frame(arrays, Tokens[c][count + 2]) = Deliver(arrays, item)
  BY <1>1, ItemDelivered
<1> HIDE DEF arrays, n, item, grown
<1>6. StillOpen(arrays) = n
  <2>1. /\ StillOpen(arrays) \in 0..n
        /\ \A i \in (StillOpen(arrays) + 1)..n : Closing(arrays[i])
    BY <1>2, <1>3, StillOpenIs DEF Good
  <2>2. ~Closing(arrays[n])
    BY <1>1, <1>3, <1>4 DEF Closing
  <2> QED BY <1>3, <2>1, <2>2
<1>7. Nested(arrays, item)[Len(arrays) - n] = item
  <2>1. Len(arrays) \in Nat /\ Len(arrays) - n = 0
    BY <1>3
  <2> QED BY <2>1, NestedUnrolls
<1> DEFINE array == [len |-> arrays[n].len, items |-> Append(arrays[n].items, item)]
           kept == [SubSeq(arrays, 1, n) EXCEPT ![n] = array]
<1>8. Deliver(arrays, item) = [open |-> kept, frame |-> NoFrame]
  <2>1. n \in 1..Len(arrays)
    BY <1>3 DEF n
  <2>2. Deliver(arrays, item) = [open |-> Extended(arrays, n, item), frame |-> NoFrame]
    BY <1>2, <1>6, <1>7, <2>1, DeliverStays DEF Good
  <2>3. kept = Extended(arrays, n, item)
    BY DEF Extended
  <2> QED BY <2>2, <2>3
<1>9. array = Begun(c, count + 1)
  BY <1>3, <1>4 DEF Begun
<1> HIDE DEF array
<1>10. /\ IsSequence(kept) /\ Len(kept) = n /\ kept[n] = array
       /\ \A i \in 1..(n - 1) : kept[i] = arrays[i]
  <2>1. n \in 1..Len(arrays) /\ IsSequence(arrays)
    BY <1>2, <1>3 DEF n, Good, Unfinished
  <2> QED BY <2>1, FrontOf
<1> HIDE DEF kept
<1>11. kept = grown
  <2>1. \A i \in 1..n : kept[i] = grown[i]
    <3> SUFFICES ASSUME NEW i \in 1..n PROVE kept[i] = grown[i]
      OBVIOUS
    <3>1. i = n \/ i \in 1..(n - 1)
      BY <1>3
    <3> QED BY <1>3, <1>9, <1>10, <3>1
  <2> QED BY <1>3, <1>10, <2>1, SameSequence
<1>12. s.open = arrays
  BY DEF arrays
<1>13. read_frame(s.open, Tokens[c][count + 2]) = [open |-> grown, frame |-> NoFrame]
  BY <1>5, <1>8, <1>11, <1>12
<1> QED BY <1>12, <1>13, NothingRead DEF grown

\* What the last token of command c makes of a reader that had `stack` open
\* before the command: a command by itself, an item of the array before it if that
\* one is still open.
Completed(r, stack, commands, c) ==
  /\ Good(r.open)
  /\ stack = <<>> => r = [open |-> <<>>, commands |-> Append(commands, c)]
  /\ stack # <<>> => r.commands = commands /\ Hole(r.open) = Hole(stack) - 1
  /\ r = [open |-> r.open, commands |-> r.commands]

LEMMA LastRead ==
  ASSUME NEW c \in Logged, NEW count \in Nat, count + 1 = Items[c],
         NEW stack, Good(stack), NEW s, s.open = Deeper(stack, c, count)
  PROVE  Completed(Reread(s, Tokens[c][count + 2]), stack, s.commands, c)
<1> DEFINE r == Reread(s, Tokens[c][count + 2])
           arrays == Deeper(stack, c, count)
           n == Len(stack) + 1
           item == aof_frame(c)[2][count + 1]
           result == Deliver(arrays, item)
<1>1. Items[c] \in Nat /\ count + 1 \in 1..Items[c] /\ count < Items[c] /\ count <= Items[c]
      /\ (count + 1) + 1 = count + 2 /\ Items[c] - count - 1 = 0
  BY LoggedFrame
<1>2. /\ Good(arrays) /\ Hole(arrays) = 1 + Cardinality(Lacking(stack))
      /\ Cardinality(Lacking(stack)) \in Nat
  <2> DEFINE k == Cardinality(Lacking(stack))
  <2>1. Good(arrays) /\ Hole(arrays) = 1 + k + (Items[c] - count - 1) /\ k \in Nat
    BY <1>1, BegunOpen
  <2> HIDE DEF k
  <2> QED BY <1>1, <2>1 DEF k
<1>3. /\ Len(stack) \in Nat /\ n \in Nat /\ Len(arrays) = n /\ arrays[n] = Begun(c, count)
      /\ arrays # <<>> /\ IsSequence(stack)
  BY AppendIs DEF Good, Unfinished, Deeper
<1>4. /\ Len(Begun(c, count).items) = count /\ Begun(c, count).len = Items[c]
      /\ Append(Begun(c, count).items, item) = aof_frame(c)[2]
  <2>1. Append(Begun(c, count).items, item) = Begun(c, count + 1).items
    BY <1>1, BegunIs
  <2>2. Begun(c, Items[c]).items = aof_frame(c)[2]
    BY <1>1, BegunIs
  <2>3. Len(Begun(c, count).items) = count /\ Begun(c, count).len = Items[c]
    BY <1>1, BegunIs
  <2> QED BY <2>1, <2>2, <2>3
<1>5. read_frame(arrays, Tokens[c][count + 2]) = result
  BY <1>1, ItemDelivered
<1> HIDE DEF arrays, n, item
<1>6. /\ Good(result.open)
      /\ Hole(result.open) = Hole(arrays) - 1
      /\ result.open = <<>> <=> result.frame # NoFrame
      /\ n > 1 /\ result.frame # NoFrame => Failed(from_frame(result.frame))
  BY <1>2, <1>3, Delivered
<1>7. s.open = arrays
  BY DEF arrays
<1> DEFINE command == IF result.frame = NoFrame THEN Failure("none") ELSE from_frame(result.frame)
<1>8. r = [open |-> result.open,
           commands |-> IF Failed(command) THEN s.commands ELSE Append(s.commands, command)]
  BY <1>5, <1>7 DEF Reread
<1> HIDE DEF r
<1>9. ASSUME stack = <<>> PROVE Completed(r, stack, s.commands, c)
  <2>1. n = 1
    BY <1>9 DEF n
  <2>2. Closing(arrays[1])
    BY <1>3, <1>4, <2>1 DEF Closing
  <2>3. StillOpen(arrays) = 0
    <3>1. StillOpen(arrays) \in 0..1 /\ (StillOpen(arrays) > 0 => ~Closing(arrays[StillOpen(arrays)]))
      BY <1>2, <1>3, <2>1, StillOpenIs DEF Good
    <3> QED BY <2>2, <3>1
  <2>4. Nested(arrays, item)[1] = aof_frame(c)
    <3>1. Len(arrays) \in Nat /\ 1 \in 1..Len(arrays) /\ Len(arrays) + 1 - 1 = 1 /\ 1 - 1 = 0
      BY <1>3, <2>1
    <3>2. Nested(arrays, item)[0] = item
      BY <3>1, NestedUnrolls
    <3>3. Nested(arrays, item)[1] = ArrayFrame(Append(arrays[1].items, Nested(arrays, item)[0]))
      BY <3>1, NestedUnrolls
    <3>4. aof_frame(c) = ArrayFrame(aof_frame(c)[2])
      BY LoggedFrame
    <3>5. arrays[1].items = Begun(c, count).items
      BY <1>3, <2>1
    <3> QED BY <1>4, <3>2, <3>3, <3>4, <3>5
  <2>5. result = [open |-> <<>>, frame |-> aof_frame(c)]
    BY <1>3, <2>1, <2>3, <2>4 DEF Deliver
  <2> HIDE DEF result
  <2>6. result.frame # NoFrame
    BY <1>6, <2>5
  <2>7. command = c /\ ~Failed(command)
    BY <2>5, <2>6, LoggedFrame
  <2> HIDE DEF command
  <2>8. r = [open |-> <<>>, commands |-> Append(s.commands, c)]
    BY <1>8, <2>5, <2>7
  <2>9. r.open = <<>> /\ r.commands = Append(s.commands, c)
    BY ONLY <2>8
  <2> QED BY <1>9, <2>8, <2>9, EmptyStack DEF Completed
<1>10. ASSUME stack # <<>> PROVE Completed(r, stack, s.commands, c)
  <2>1. n > 1
    <3>1. Len(stack) # 0
      BY <1>3, <1>10 DEF IsSequence
    <3> QED BY <1>3, <3>1 DEF n
  <2> HIDE DEF result
  <2>2. Failed(command)
    <3>1. Failed(Failure("none"))
      BY DEF Failed, Failure
    <3> QED BY <1>6, <2>1, <3>1
  <2> HIDE DEF command
  <2>3. r = [open |-> result.open, commands |-> s.commands]
    BY <1>8, <2>2
  <2>4. Hole(stack) = 1 + Cardinality(Lacking(stack))
    BY <1>10 DEF Hole
  <2>5. r.open = result.open /\ r.commands = s.commands
    BY <2>3
  <2>6. Hole(result.open) = Hole(stack) - 1
    BY <1>2, <1>6, <2>4
  <2> QED BY <1>6, <1>10, <2>3, <2>5, <2>6 DEF Completed
<1> QED BY <1>9, <1>10 DEF r


----------------------------------------------------------------------------
(* The inductive invariant.                                                *)

\* A reader between two tokens.
Reader(s) ==
  /\ s = [open |-> s.open, commands |-> s.commands]
  /\ Good(s.open)
  /\ s.commands \in Seq(Logged)

\* trace[i] is what the reader has after i of the tokens.
ReadAs(tokens, trace) ==
  /\ trace[0] = [open |-> <<>>, commands |-> <<>>]
  /\ \A i \in 1..Len(tokens) : trace[i] = Reread(trace[i - 1], tokens[i])
  /\ \A i \in 0..Len(tokens) : Good(trace[i].open)

\* The file reads as `seen`, and the replay is somewhere on the way there.
FileReads ==
  \E trace :
    /\ ReadAs(file, trace)
    /\ trace[Len(file)] = seen
    /\ mode = "replaying" => trace[position] = [open |-> open, commands |-> executed]

\* The command that the holder of the mutex appends.
Holders == appending[Head(queue)]

Cutting == mode = "serving" /\ queue # <<>> /\ written \in 1..(Items[Holders] - 1)

\* A command is in the file and its append has not returned yet.
Pending(c) == IF queue # <<>> /\ written = Items[c] /\ Holders = c THEN 1 ELSE 0

\* Without a failed write a server that runs has a file without a hole, and no
\* acknowledged command is missing from it.
Durable ==
  /\ mode = "serving" => Settled.open = <<>>
  /\ \A c \in Logged : Count(acknowledged, c) + Pending(c) <= Count(seen.commands, c)

Inv ==
  /\ TypeOK
  /\ IsSequence(file) /\ queue \in Seq(Conns) /\ appending \in [Conns -> Logged \cup {None}]
  /\ acknowledged \in Seq(Logged)
  /\ Good(open) /\ Reader(seen) /\ Reader(before)
  /\ FileReads
  /\ mode # "serving" => queue = <<>>
  /\ queue = <<>> => written = 0
  /\ queue # <<>> => written <= Items[Holders]
  /\ Cutting => seen = [open |-> Deeper(before.open, Holders, written),
                        commands |-> before.commands]
  /\ failures = 0 => Durable

LEMMA CountAppend ==
  ASSUME NEW s, IsSequence(s), NEW x, NEW c
  PROVE  /\ Count(s, c) \in Nat
         /\ Count(Append(s, x), c) = IF x = c THEN Count(s, c) + 1 ELSE Count(s, c)
<1> DEFINE n == Len(s) + 1
           t == Append(s, x)
           P == {i \in DOMAIN s : s[i] = c}
           Q == {i \in DOMAIN t : t[i] = c}
<1>1. /\ DOMAIN s = 1..(n - 1) /\ DOMAIN t = 1..n /\ n \in Nat /\ n - 1 \in Nat
      /\ t[n] = x /\ \A i \in 1..(n - 1) : t[i] = s[i]
  BY AppendIs
<1> HIDE DEF n, t
<1>2. IsFiniteSet(P) /\ Cardinality(P) \in Nat /\ n \notin P
  <2>1. IsFiniteSet(1..(n - 1)) /\ P \in SUBSET (1..(n - 1))
    BY <1>1, FS_Interval
  <2> HIDE DEF P
  <2>2. IsFiniteSet(P) /\ Cardinality(P) \in Nat
    BY <2>1, FS_Subset, FS_CardinalityType
  <2> QED BY <1>1, <2>1, <2>2
<1>3. CASE x = c
  <2>1. Q = P \cup {n}
    BY <1>1, <1>3
  <2> HIDE DEF P, Q
  <2>2. Cardinality(Q) = Cardinality(P) + 1
    BY <1>2, <2>1, FS_AddElement
  <2> QED BY <1>2, <1>3, <2>2 DEF Count, P, Q, t
<1>4. CASE x # c
  <2>1. Q = P
    BY <1>1, <1>4
  <2> QED BY <1>2, <1>4, <2>1 DEF Count, t
<1> QED BY <1>3, <1>4

\* A token more is one step of the reader more.
LEMMA TraceGrows ==
  ASSUME NEW tokens, IsSequence(tokens), NEW trace, ReadAs(tokens, trace), NEW token,
         NEW s, s = Reread(trace[Len(tokens)], token), Good(s.open)
  PROVE  \E longer : /\ ReadAs(Append(tokens, token), longer)
                     /\ longer[Len(tokens) + 1] = s
                     /\ \A i \in 0..Len(tokens) : longer[i] = trace[i]
<1> DEFINE n == Len(tokens) + 1
           more == Append(tokens, token)
           longer == [i \in 0..n |-> IF i = n THEN s ELSE trace[i]]
<1>1. /\ n \in Nat /\ n > 0 /\ Len(tokens) = n - 1 /\ Len(more) = n /\ more[n] = token
      /\ \A i \in 1..(n - 1) : more[i] = tokens[i]
  BY AppendIs
<1> HIDE DEF n, more
<1>2. longer[n] = s /\ \A i \in 0..(n - 1) : longer[i] = trace[i]
  BY <1>1
<1> HIDE DEF longer
<1>3. longer[0] = [open |-> <<>>, commands |-> <<>>]
  BY <1>1, <1>2 DEF ReadAs
<1>4. ASSUME NEW i \in 1..n PROVE longer[i] = Reread(longer[i - 1], more[i])
  <2>1. i - 1 \in 0..(n - 1) /\ longer[i - 1] = trace[i - 1]
    BY <1>1, <1>2
  <2>2. CASE i = n
    BY <1>1, <1>2, <2>1, <2>2
  <2>3. CASE i \in 1..(n - 1)
    BY <1>1, <1>2, <2>1, <2>3 DEF ReadAs
  <2> QED BY <1>1, <2>2, <2>3
<1>5. ASSUME NEW i \in 0..n PROVE Good(longer[i].open)
  <2>1. i = n \/ i \in 0..(n - 1)
    BY <1>1
  <2> QED BY <1>1, <1>2, <2>1 DEF ReadAs
<1>6. ReadAs(more, longer)
  BY <1>1, <1>3, <1>4, <1>5 DEF ReadAs
<1> QED BY <1>1, <1>2, <1>6 DEF more, n

\* The holder of the mutex appends a logged command.
LEMMA HolderAppends ==
  ASSUME Inv, queue # <<>>
  PROVE  /\ Head(queue) \in Conns /\ Holders \in Logged /\ Holders # None
         /\ Items[Holders] \in Nat /\ Items[Holders] > 0
<1>1. Head(queue) \in ToSet(queue) /\ Head(queue) \in Conns
  <2>1. queue \in Seq(Conns) /\ Head(queue) = queue[1] /\ 1 \in DOMAIN queue
    BY DEF Inv
  <2> QED BY <2>1 DEF ToSet
<1>2. Holders # None /\ Holders \in Logged
  BY <1>1 DEF Inv, TypeOK, Holders
<1> QED BY <1>1, <1>2, LoggedFrame


----------------------------------------------------------------------------
(* A write.                                                                *)

\* The file before the frame that is being appended.
Base == IF written = 0 THEN seen ELSE before

\* A write that does not complete the frame leaves the array open, one that does
\* adds the command or an item to an array that was open before.
LEMMA Written ==
  ASSUME Inv, NEW c \in Conns, Write(c), NEW d, d = appending[c]
  PROVE  /\ d = Holders /\ d \in Logged /\ mode = "serving" /\ queue # <<>>
         /\ Items[d] \in Nat /\ written \in Nat /\ written < Items[d] /\ written' = written + 1
         /\ Reader(Base) /\ before' = Base /\ Settled = Base
         /\ Reader(seen')
         /\ written + 1 < Items[d] =>
              seen' = [open |-> Deeper(Base.open, d, written + 1), commands |-> Base.commands]
         /\ written + 1 = Items[d] => Completed(seen', Base.open, Base.commands, d)
         /\ IsSequence(file') /\ Len(file') \in Nat /\ Len(file) <= Len(file')
         /\ \A i \in DOMAIN file' : file'[i][1] \in {"*", "$"}
         /\ \E trace : ReadAs(file', trace) /\ trace[Len(file')] = seen'
<1> DEFINE header == Tokens[d][1]
           item == Tokens[d][written + 2]
           begun == [open |-> Deeper(Base.open, d, written), commands |-> Base.commands]
<1>1. /\ mode = "serving" /\ queue # <<>> /\ d = Holders /\ written < Items[d]
      /\ written' = written + 1 /\ before' = Base
  BY DEF Write, Holds, Holders, Base
<1>2. d \in Logged /\ Items[d] \in Nat /\ Items[d] > 0
  BY <1>1, HolderAppends
<1>3. written \in Nat /\ Reader(Base) /\ IsSequence(file)
  BY DEF Inv, TypeOK, Base
<1>4. Settled = Base
  BY <1>1, <1>2, <1>3 DEF Settled, Base, Holders
<1>5. written > 0 => seen = begun
  BY <1>1, <1>2, <1>3 DEF Inv, Cutting, Base
<1>6. written = 0 => Reread(seen, header) = begun /\ Good(begun.open)
  <2> SUFFICES ASSUME written = 0 PROVE Reread(seen, header) = begun /\ Good(begun.open)
    OBVIOUS
  <2>1. Reread(Base, header) = begun
    BY <1>2, HeaderRead
  <2>2. Good(begun.open)
    BY <1>2, <1>3, BegunOpen DEF Reader
  <2> QED BY <2>1, <2>2 DEF Base
<1> HIDE DEF header, item, begun
<1>7. seen' = Reread(begun, item)
  BY <1>3, <1>5, <1>6 DEF Write, header, item
<1>8. Good(Base.open) /\ Base.commands \in Seq(Logged)
  BY <1>3 DEF Reader
<1>9. written + 1 < Items[d] =>
        seen' = [open |-> Deeper(Base.open, d, written + 1), commands |-> Base.commands]
  <2>0. SUFFICES ASSUME written + 1 < Items[d]
               PROVE  Reread(begun, item)
                        = [open |-> Deeper(Base.open, d, written + 1), commands |-> Base.commands]
    BY <1>7
  <2> DEFINE stack == Base.open
             more == Deeper(stack, d, written + 1)
  <2>1. begun.open = Deeper(stack, d, written) /\ begun.commands = Base.commands
    BY DEF begun
  <2>2. d \in Logged /\ written \in Nat /\ Good(stack)
    BY <1>2, <1>3, <1>8
  <2> HIDE DEF stack
  <2>3. Reread(begun, Tokens[d][written + 2]) = [open |-> more, commands |-> begun.commands]
    BY <2>0, <2>1, <2>2, ItemRead
  <2> QED BY <2>1, <2>3 DEF item, stack
<1>10. written + 1 = Items[d] => Completed(seen', Base.open, Base.commands, d)
  <2>0. SUFFICES ASSUME written + 1 = Items[d]
                 PROVE  Completed(Reread(begun, item), Base.open, Base.commands, d)
    BY <1>7
  <2> DEFINE stack == Base.open
  <2>1. begun.open = Deeper(stack, d, written)
    BY DEF begun
  <2>2. d \in Logged /\ written \in Nat /\ Good(stack)
    BY <1>2, <1>3, <1>8
  <2> HIDE DEF stack
  <2>3. Completed(Reread(begun, Tokens[d][written + 2]), stack, begun.commands, d)
    BY <2>0, <2>1, <2>2, LastRead
  <2>4. begun.commands = Base.commands
    BY DEF begun
  <2> QED BY <2>3, <2>4 DEF item, stack
<1>11. Reader(seen')
  <2>1. CASE written + 1 < Items[d]
    <3>1. Good(Deeper(Base.open, d, written + 1))
      <4>1. written + 1 \in Nat
        BY <1>3
      <4> QED BY <1>2, <1>8, <2>1, <4>1, BegunOpen
    <3> DEFINE stack == Deeper(Base.open, d, written + 1)
               commands == Base.commands
    <3>2. seen' = [open |-> stack, commands |-> commands]
      BY <1>9, <2>1
    <3>3. Good(stack) /\ commands \in Seq(Logged)
      BY <1>8, <3>1
    <3> HIDE DEF stack, commands
    <3> QED BY <3>2, <3>3 DEF Reader
  <2>2. CASE written + 1 = Items[d]
    <3> DEFINE r == seen'
               stack == Base.open
               commands == Base.commands
    <3>1. Completed(r, stack, commands, d) /\ commands \in Seq(Logged) /\ d \in Logged
      BY <1>2, <1>8, <1>10, <2>2
    <3> HIDE DEF r, stack, commands
    <3>2. Reader(r)
      <4>1. CASE stack = <<>>
        <5>1. r.commands = Append(commands, d)
          BY <3>1, <4>1 DEF Completed
        <5>2. Append(commands, d) \in Seq(Logged)
          BY <3>1
        <5> QED BY <3>1, <5>1, <5>2 DEF Completed, Reader
      <4>2. CASE stack # <<>>
        BY <3>1, <4>2 DEF Completed, Reader
      <4> QED BY <4>1, <4>2
    <3> QED BY <3>2 DEF r
  <2> QED BY <1>1, <1>2, <1>3, <2>1, <2>2
<1>12. header[1] = "*" /\ item[1] = "$"
  <2>1. written + 1 \in 1..Items[d] /\ (written + 1) + 1 = written + 2
    BY <1>1, <1>2, <1>3
  <2>2. Tokens[d][(written + 1) + 1][1] = "$"
    BY <1>2, <2>1, LoggedFrame
  <2> QED BY <1>2, <2>1, <2>2, LoggedFrame DEF header, item
<1>13. PICK trace : ReadAs(file, trace) /\ trace[Len(file)] = seen
  BY DEF Inv, FileReads
<1>14. \A i \in DOMAIN file : file[i][1] \in {"*", "$"}
  BY DEF Inv, TypeOK
<1>15. CASE written = 0
  <2> DEFINE f == Append(file, header)
             g == Append(f, item)
  <2>1. /\ IsSequence(f) /\ Len(f) = Len(file) + 1 /\ Len(file) \in Nat /\ f[Len(file) + 1] = header
        /\ DOMAIN f = 1..(Len(file) + 1) /\ DOMAIN file = 1..Len(file)
        /\ \A i \in 1..Len(file) : f[i] = file[i]
    BY <1>3, AppendIs
  <2> HIDE DEF f
  <2>2. /\ IsSequence(g) /\ Len(g) = Len(f) + 1 /\ g[Len(f) + 1] = item
        /\ DOMAIN g = 1..(Len(f) + 1)
        /\ \A i \in 1..Len(f) : g[i] = f[i]
    BY <2>1, AppendIs
  <2>3. PICK longer : ReadAs(f, longer) /\ longer[Len(f)] = begun
    BY <1>3, <1>6, <1>13, <1>15, <2>1, TraceGrows DEF f
  <2>4. PICK longest : ReadAs(g, longest) /\ longest[Len(g)] = seen'
    BY <1>7, <1>11, <2>1, <2>2, <2>3, TraceGrows DEF Reader
  <2>5. file' = g
    BY <1>15 DEF Write, f, g, header, item
  <2>6. \A i \in DOMAIN g : g[i][1] \in {"*", "$"}
    <3> SUFFICES ASSUME NEW i \in 1..(Len(file) + 2) PROVE g[i][1] \in {"*", "$"}
      BY <2>1, <2>2
    <3>1. i = Len(file) + 2 \/ i = Len(file) + 1 \/ i \in 1..Len(file)
      BY <2>1
    <3> QED BY <1>12, <1>14, <2>1, <2>2, <3>1
  <2> HIDE DEF g
  <2> QED BY <1>1, <1>2, <1>3, <1>4, <1>9, <1>10, <1>11, <2>1, <2>2, <2>4, <2>5, <2>6
<1>16. CASE written > 0
  <2> DEFINE g == Append(file, item)
  <2>1. /\ IsSequence(g) /\ Len(g) = Len(file) + 1 /\ Len(file) \in Nat /\ g[Len(file) + 1] = item
        /\ DOMAIN g = 1..(Len(file) + 1) /\ DOMAIN file = 1..Len(file)
        /\ \A i \in 1..Len(file) : g[i] = file[i]
    BY <1>3, AppendIs
  <2>2. PICK longest : ReadAs(g, longest) /\ longest[Len(g)] = seen'
    BY <1>3, <1>5, <1>7, <1>11, <1>13, <1>16, <2>1, TraceGrows DEF Reader
  <2>3. file' = g
    BY <1>3, <1>16 DEF Write, item
  <2>4. \A i \in DOMAIN g : g[i][1] \in {"*", "$"}
    BY <1>12, <1>14, <2>1
  <2> HIDE DEF g
  <2> QED BY <1>1, <1>2, <1>3, <1>4, <1>9, <1>10, <1>11, <2>1, <2>2, <2>3, <2>4
<1> QED BY <1>3, <1>15, <1>16


----------------------------------------------------------------------------
(* Every step preserves the invariant.                                     *)

LEMMA InvInit == Init => Inv
<1> SUFFICES ASSUME Init PROVE Inv
  OBVIOUS
<1> USE DEF Init
<1>1. TypeOK
  <2>1. DOMAIN file = {} /\ DOMAIN open = {} /\ DOMAIN queue = {} /\ Len(file) = 0
    OBVIOUS
  <2>2. ToSet(queue) = {} /\ IsInjective(queue)
    BY <2>1 DEF ToSet, IsInjective
  <2> QED BY <2>1, <2>2, FileAssumption DEF TypeOK
<1>2. /\ IsSequence(file) /\ queue \in Seq(Conns) /\ appending \in [Conns -> Logged \cup {None}]
      /\ acknowledged \in Seq(Logged)
  BY EmptyStack DEF Good, Unfinished
<1>3. Good(open) /\ Reader(seen) /\ Reader(before)
  BY EmptyStack DEF Reader
<1>4. FileReads
  <2> DEFINE trace == [i \in 0..0 |-> seen]
  <2>1. ReadAs(file, trace) /\ trace[Len(file)] = seen
    <3>1. Len(file) = 0 /\ trace[0] = seen /\ Good(seen.open)
      BY <1>3 DEF Reader
    <3> HIDE DEF trace
    <3> QED BY <3>1 DEF ReadAs
  <2> QED BY <2>1 DEF FileReads
<1>5. ~Cutting
  BY DEF Cutting
<1>6. Durable
  <2>1. Settled = seen /\ seen.open = <<>> /\ seen.commands = acknowledged
    BY DEF Settled
  <2>2. \A c \in Logged : Pending(c) = 0 /\ Count(acknowledged, c) \in Nat
    BY <1>2, CountAppend DEF Pending, IsSequence
  <2> QED BY <2>1, <2>2 DEF Durable
<1> QED BY <1>1, <1>2, <1>3, <1>4, <1>5, <1>6 DEF Inv

LEMMA QueueGrows ==
  ASSUME NEW q \in Seq(Conns), IsInjective(q), NEW c \in Conns, c \notin ToSet(q)
  PROVE  /\ Append(q, c) \in Seq(Conns) /\ Append(q, c) # <<>>
         /\ IsInjective(Append(q, c)) /\ ToSet(Append(q, c)) = ToSet(q) \cup {c}
         /\ Head(Append(q, c)) = IF q = <<>> THEN c ELSE Head(q)
<1> DEFINE t == Append(q, c)
           n == Len(q) + 1
<1>1. /\ t \in Seq(Conns) /\ DOMAIN t = 1..n /\ DOMAIN q = 1..(n - 1) /\ n \in Nat /\ n > 0
      /\ t[n] = c /\ \A i \in 1..(n - 1) : t[i] = q[i]
  BY AppendIs DEF IsSequence
<1>2. Head(t) = IF q = <<>> THEN c ELSE Head(q)
  BY HeadTailAppend
<1>3. t # <<>>
  BY AppendIs DEF IsSequence
<1> HIDE DEF t, n
<1>4. ASSUME NEW i \in 1..n, NEW j \in 1..n, t[i] = t[j] PROVE i = j
  <2>1. \A k \in 1..(n - 1) : q[k] # c
    BY <1>1 DEF ToSet
  <2>2. i = n \/ i \in 1..(n - 1)
    BY <1>1
  <2>3. j = n \/ j \in 1..(n - 1)
    BY <1>1
  <2> QED BY <1>1, <1>4, <2>1, <2>2, <2>3 DEF IsInjective
<1>5. IsInjective(t)
  BY <1>1, <1>4 DEF IsInjective
<1>6. ToSet(t) = ToSet(q) \cup {c}
  <2>1. \A i \in 1..n : i = n \/ i \in 1..(n - 1)
    BY <1>1
  <2>2. n \in 1..n /\ \A i \in 1..(n - 1) : i \in 1..n
    BY <1>1
  <2> QED BY <1>1, <2>1, <2>2 DEF ToSet
<1> QED BY <1>1, <1>2, <1>3, <1>5, <1>6 DEF t

LEMMA QueueShrinks ==
  ASSUME NEW q \in Seq(Conns), q # <<>>, IsInjective(q)
  PROVE  /\ Tail(q) \in Seq(Conns) /\ IsInjective(Tail(q))
         /\ ToSet(Tail(q)) = ToSet(q) \ {Head(q)}
<1> DEFINE t == Tail(q)
           n == Len(q)
<1>1. n \in Nat /\ n > 0 /\ DOMAIN q = 1..n /\ Head(q) = q[1]
  BY EmptySeq
<1>2. t \in Seq(Conns) /\ Len(t) = n - 1 /\ DOMAIN t = 1..(n - 1)
      /\ \A i \in 1..(n - 1) : t[i] = q[i + 1]
  BY HeadTailProperties
<1> HIDE DEF t, n
<1>3. \A i \in 1..(n - 1) : i + 1 \in 1..n /\ i + 1 # 1
  BY <1>1
<1>4. IsInjective(t)
  <2>1. ASSUME NEW i \in 1..(n - 1), NEW j \in 1..(n - 1), t[i] = t[j] PROVE i = j
    <3>1. q[i + 1] = q[j + 1]
      BY <1>2, <2>1
    <3>2. i + 1 = j + 1
      BY <1>1, <1>3, <3>1 DEF IsInjective
    <3> QED BY <1>1, <3>2
  <2> QED BY <1>2, <2>1 DEF IsInjective
<1>5. ToSet(t) = ToSet(q) \ {Head(q)}
  <2>1. ASSUME NEW i \in 1..(n - 1) PROVE t[i] \in ToSet(q) /\ t[i] # Head(q)
    <3>1. t[i] = q[i + 1] /\ i + 1 \in DOMAIN q /\ 1 \in DOMAIN q /\ i + 1 # 1
      BY <1>1, <1>2, <1>3
    <3>2. q[i + 1] # q[1]
      BY <3>1 DEF IsInjective
    <3> QED BY <1>1, <3>1, <3>2 DEF ToSet
  <2>2. ASSUME NEW x \in ToSet(q), x # Head(q) PROVE x \in ToSet(t)
    <3>1. PICK i \in 1..n : q[i] = x
      BY <1>1 DEF ToSet
    <3>2. i - 1 \in 1..(n - 1) /\ (i - 1) + 1 = i
      BY <1>1, <2>2, <3>1
    <3> QED BY <1>2, <3>1, <3>2 DEF ToSet
  <2>3. ToSet(t) = {t[i] : i \in 1..(n - 1)}
    BY <1>2 DEF ToSet
  <2> QED BY <2>1, <2>2, <2>3
<1> QED BY <1>2, <1>4, <1>5 DEF t

LEMMA InvWrite ==
  ASSUME Inv, NEW c \in Conns, Write(c)
  PROVE  Inv'
<1> DEFINE d == appending[c]
<1>1. /\ d = Holders /\ d \in Logged /\ mode = "serving" /\ queue # <<>>
      /\ Items[d] \in Nat /\ written \in Nat /\ written < Items[d] /\ written' = written + 1
      /\ Reader(Base) /\ before' = Base /\ Settled = Base
      /\ Reader(seen')
      /\ written + 1 < Items[d] =>
           seen' = [open |-> Deeper(Base.open, d, written + 1), commands |-> Base.commands]
      /\ written + 1 = Items[d] => Completed(seen', Base.open, Base.commands, d)
      /\ IsSequence(file') /\ Len(file') \in Nat /\ Len(file) <= Len(file')
      /\ \A i \in DOMAIN file' : file'[i][1] \in {"*", "$"}
      /\ \E trace : ReadAs(file', trace) /\ trace[Len(file')] = seen'
  BY Written
<1>2. /\ mode' = mode /\ queue' = queue /\ appending' = appending /\ open' = open
      /\ position' = position /\ executed' = executed /\ acknowledged' = acknowledged
      /\ appends' = appends /\ failures' = failures
  BY DEF Write, replayVars, counts
<1>3. Holders' = d
  BY <1>1, <1>2 DEF Holders
<1> HIDE DEF d
<1>4. TypeOK'
  <2>1. position \in 0..Len(file) /\ Len(file) \in Nat
    BY AppendIs DEF Inv, TypeOK
  <2>2. position' \in 0..Len(file')
    BY <1>1, <1>2, <2>1
  <2>3. written' \in Nat
    BY <1>1
  <2> QED BY <1>1, <1>2, <2>2, <2>3 DEF Inv, TypeOK
<1>5. FileReads'
  BY <1>1, <1>2 DEF FileReads
<1>6. Reader(before')
  BY <1>1
<1>7. Cutting' => seen' = [open |-> Deeper(before'.open, Holders', written'),
                           commands |-> before'.commands]
  <2> SUFFICES ASSUME Cutting' PROVE written + 1 < Items[d]
    BY <1>1, <1>3
  <2> QED BY <1>1, <1>3 DEF Cutting
<1>8. ASSUME failures = 0 PROVE Durable'
  <2>1. Base.open = <<>> /\ \A x \in Logged : Count(acknowledged, x) + Pending(x) <= Count(seen.commands, x)
    BY <1>1, <1>8 DEF Inv, Durable
  <2>2. seen.commands = Base.commands
    <3>1. CASE written = 0
      BY <3>1 DEF Base
    <3>2. CASE written > 0
      BY <1>1, <3>2 DEF Base, Inv, Cutting
    <3> QED BY <1>1, <3>1, <3>2
  <2>3. \A x \in Logged : /\ Count(acknowledged, x) \in Nat /\ Count(Base.commands, x) \in Nat
                          /\ Pending(x) = 0
    <3>1. IsSequence(acknowledged) /\ IsSequence(Base.commands)
      BY <1>1 DEF Inv, Reader, IsSequence
    <3> QED BY <1>1, <3>1, CountAppend DEF Pending
  <2>4. \A x \in Logged : Count(acknowledged, x) <= Count(Base.commands, x)
    BY <2>1, <2>2, <2>3
  <2>5. CASE written + 1 < Items[d]
    <3>1. Settled' = Base
      BY <1>1, <1>2, <1>3, <2>5 DEF Settled, Holders
    <3>2. \A x \in Logged : Pending(x)' = 0
      BY <1>1, <1>2, <1>3, <2>5 DEF Pending
    <3>3. seen'.commands = Base.commands
      BY <1>1, <2>5
    <3> QED BY <1>2, <2>1, <2>3, <2>4, <3>1, <3>2, <3>3 DEF Durable
  <2>6. CASE written + 1 = Items[d]
    <3>1. seen' = [open |-> <<>>, commands |-> Append(Base.commands, d)]
      BY <1>1, <2>1, <2>6 DEF Completed
    <3>2. Settled' = seen'
      BY <1>1, <1>2, <1>3, <2>6 DEF Settled, Holders
    <3>3. ASSUME NEW x \in Logged
          PROVE  Count(acknowledged, x)' + Pending(x)' <= Count(seen'.commands, x)
      <4>1. Pending(x)' = IF x = d THEN 1 ELSE 0
        BY <1>1, <1>2, <1>3, <2>6 DEF Pending
      <4>2. Count(Append(Base.commands, d), x)
              = IF d = x THEN Count(Base.commands, x) + 1 ELSE Count(Base.commands, x)
        <5>1. IsSequence(Base.commands)
          BY <1>1 DEF Reader, IsSequence
        <5> QED BY <5>1, CountAppend
      <4>3. Count(seen'.commands, x) = Count(Append(Base.commands, d), x)
        BY <3>1
      <4>4. Count(acknowledged, x)' = Count(acknowledged, x)
        BY <1>2 DEF Count
      <4> QED BY <2>3, <2>4, <4>1, <4>2, <4>3, <4>4
    <3> QED BY <3>1, <3>2, <3>3 DEF Durable
  <2> QED BY <1>1, <2>5, <2>6
<1>9. queue' # <<>> /\ written' <= Items[Holders']
  BY <1>1, <1>2, <1>3
<1> QED BY <1>1, <1>2, <1>4, <1>5, <1>6, <1>7, <1>8, <1>9 DEF Inv


\* Nothing that the file reads as has changed.
LEMMA FileStays ==
  ASSUME FileReads, file' = file, seen' = seen, mode' # "replaying"
  PROVE  FileReads'
BY DEF FileReads

\* A connection that asks for the mutex changes nothing for its holder.
LEMMA AskWaits ==
  ASSUME Inv, NEW c \in Conns, NEW command \in Logged, Ask(c, command)
  PROVE  /\ queue' \in Seq(Conns) /\ queue' # <<>>
         /\ IsInjective(queue') /\ ToSet(queue') = ToSet(queue) \cup {c}
         /\ appending' = [appending EXCEPT ![c] = command]
         /\ appending \in [Conns -> Logged \cup {None}]
         /\ command # None
         /\ queue # <<>> => Head(queue') = Head(queue) /\ Holders' = Holders
         /\ Holders' \in Logged /\ Items[Holders'] \in Nat /\ Items[Holders'] > 0
         /\ Settled' = Settled
<1>1. /\ mode = "serving" /\ mode' = mode /\ appending[c] = None
      /\ queue' = Append(queue, c) /\ appending' = [appending EXCEPT ![c] = command]
      /\ file' = file /\ written' = written /\ open' = open /\ position' = position
      /\ executed' = executed /\ acknowledged' = acknowledged /\ seen' = seen /\ before' = before
      /\ failures' = failures /\ appends' = appends + 1 /\ appends < MaxAppends
  BY DEF Ask, replayVars
<1>2. /\ queue \in Seq(Conns) /\ IsInjective(queue) /\ c \notin ToSet(queue)
      /\ appending \in [Conns -> Logged \cup {None}]
  BY <1>1 DEF Inv, TypeOK
<1>3. /\ queue' \in Seq(Conns) /\ queue' # <<>>
      /\ IsInjective(queue') /\ ToSet(queue') = ToSet(queue) \cup {c}
      /\ Head(queue') = IF queue = <<>> THEN c ELSE Head(queue)
  BY <1>1, <1>2, QueueGrows
<1>4. command # None
  BY FileAssumption
<1>6. queue # <<>> => Holders' = Holders
  <2> SUFFICES ASSUME queue # <<>> PROVE Holders' = Holders
    OBVIOUS
  <2>1. Holders # None /\ Head(queue) \in Conns
    BY HolderAppends
  <2>2. Head(queue) # c
    BY <1>1, <2>1 DEF Holders
  <2> QED BY <1>1, <1>2, <1>3, <2>1, <2>2 DEF Holders
<1>7. queue = <<>> => written = 0
  BY DEF Inv
<1>8. Holders' \in Logged /\ Items[Holders'] \in Nat /\ Items[Holders'] > 0
  <2>1. CASE queue = <<>>
    <3>1. Holders' = command
      BY <1>1, <1>2, <1>3, <2>1 DEF Holders
    <3> QED BY <3>1, LoggedFrame
  <2>2. CASE queue # <<>>
    BY <1>6, <2>2, HolderAppends
  <2> QED BY <2>1, <2>2
<1>9. Settled' = Settled
  BY <1>1, <1>3, <1>6, <1>7 DEF Settled, Holders
<1> QED BY <1>1, <1>2, <1>3, <1>4, <1>6, <1>8, <1>9

LEMMA InvAsk ==
  ASSUME Inv, NEW c \in Conns, NEW command \in Logged, Ask(c, command)
  PROVE  Inv'
<1>1. /\ mode = "serving" /\ mode' = mode
      /\ file' = file /\ written' = written /\ open' = open /\ position' = position
      /\ executed' = executed /\ acknowledged' = acknowledged /\ seen' = seen /\ before' = before
      /\ failures' = failures /\ appends' = appends + 1 /\ appends < MaxAppends
  BY DEF Ask, replayVars
<1>2. /\ queue' \in Seq(Conns) /\ queue' # <<>>
      /\ IsInjective(queue') /\ ToSet(queue') = ToSet(queue) \cup {c}
      /\ appending' = [appending EXCEPT ![c] = command]
      /\ appending \in [Conns -> Logged \cup {None}]
      /\ command # None
      /\ queue # <<>> => Head(queue') = Head(queue) /\ Holders' = Holders
      /\ Holders' \in Logged /\ Items[Holders'] \in Nat /\ Items[Holders'] > 0
      /\ Settled' = Settled
  BY AskWaits
<1>3. TypeOK'
  <2>1. \A u \in Conns : appending'[u] # None <=> u \in ToSet(queue')
    BY <1>1, <1>2 DEF Inv, TypeOK
  <2>2. appends' \in 0..MaxAppends
    BY <1>1, FileAssumption DEF Inv, TypeOK
  <2> QED BY <1>1, <1>2, <2>1, <2>2 DEF Inv, TypeOK
<1>4. queue = <<>> => written = 0
  BY DEF Inv
<1>5. written' <= Items[Holders']
  BY <1>1, <1>2, <1>4 DEF Inv
<1>6. Cutting' => Cutting /\ Holders' = Holders
  BY <1>1, <1>2, <1>4 DEF Cutting
<1>7. \A x \in Logged : Pending(x)' = Pending(x)
  <2> SUFFICES ASSUME NEW x \in Logged PROVE Pending(x)' = Pending(x)
    OBVIOUS
  <2>1. CASE queue = <<>>
    BY <1>1, <1>2, <1>4, <2>1 DEF Pending
  <2>2. CASE queue # <<>>
    BY <1>1, <1>2, <2>2 DEF Pending
  <2> QED BY <2>1, <2>2
<1>8. failures' = 0 => Durable'
  BY <1>1, <1>2, <1>7 DEF Inv, Durable, Count
<1>9. FileReads'
  BY <1>1, FileStays DEF Inv
<1>10. appending' \in [Conns -> Logged \cup {None}]
  BY <1>2
<1>11. Reader(seen') /\ Reader(before')
  BY <1>1 DEF Inv
<1> QED BY <1>1, <1>2, <1>3, <1>5, <1>6, <1>8, <1>9, <1>10, <1>11 DEF Inv

\* The holder gives the mutex up, whatever became of its frame.
LEMMA Released ==
  ASSUME Inv, NEW c \in Conns, Holds(c), Release(c)
  PROVE  /\ queue' \in Seq(Conns) /\ IsInjective(queue') /\ ToSet(queue') \subseteq Conns
         /\ appending' \in [Conns -> Logged \cup {None}]
         /\ \A u \in Conns : appending'[u] # None <=> u \in ToSet(queue')
         /\ written' = 0 /\ mode = "serving" /\ queue # <<>>
         /\ appending[c] = Holders /\ Holders \in Logged /\ Items[Holders] \in Nat
         /\ Items[Holders] > 0
         /\ queue' # <<>> => Holders' \in Logged /\ Items[Holders'] \in Nat /\ Items[Holders'] > 0
<1>1. /\ mode = "serving" /\ queue # <<>> /\ Head(queue) = c /\ appending[c] = Holders
      /\ queue' = Tail(queue) /\ appending' = [appending EXCEPT ![c] = None] /\ written' = 0
  BY DEF Holds, Release, Holders
<1>2. /\ queue \in Seq(Conns) /\ IsInjective(queue)
      /\ appending \in [Conns -> Logged \cup {None}]
      /\ \A u \in Conns : appending[u] # None <=> u \in ToSet(queue)
  BY DEF Inv, TypeOK
<1>3. /\ queue' \in Seq(Conns) /\ IsInjective(queue')
      /\ ToSet(queue') = ToSet(queue) \ {c}
  BY <1>1, <1>2, QueueShrinks
<1>4. appending' \in [Conns -> Logged \cup {None}]
  BY <1>1, <1>2
<1>5. \A u \in Conns : appending'[u] # None <=> u \in ToSet(queue')
  BY <1>1, <1>2, <1>3
<1>6. Holders \in Logged /\ Items[Holders] \in Nat /\ Items[Holders] > 0
  BY <1>1, HolderAppends
<1>7. ASSUME queue' # <<>> PROVE Holders' \in Logged
  <2>1. Head(queue') \in Conns /\ Head(queue') \in ToSet(queue')
    BY <1>3, <1>7 DEF ToSet
  <2> QED BY <1>4, <1>5, <2>1 DEF Holders
<1>8. ToSet(queue') \subseteq Conns
  BY <1>3 DEF Inv, TypeOK
<1> QED BY <1>1, <1>3, <1>4, <1>5, <1>6, <1>7, <1>8, LoggedFrame

LEMMA InvAppendOk ==
  ASSUME Inv, NEW c \in Conns, AppendOk(c)
  PROVE  Inv'
<1>1. /\ Holds(c) /\ Release(c) /\ written = Items[appending[c]]
      /\ acknowledged' = Append(acknowledged, appending[c])
      /\ mode' = mode /\ file' = file /\ open' = open /\ position' = position
      /\ executed' = executed /\ seen' = seen /\ before' = before
      /\ appends' = appends /\ failures' = failures
  BY DEF AppendOk, replayVars, counts
<1>2. /\ queue' \in Seq(Conns) /\ IsInjective(queue') /\ ToSet(queue') \subseteq Conns
      /\ appending' \in [Conns -> Logged \cup {None}]
      /\ \A u \in Conns : appending'[u] # None <=> u \in ToSet(queue')
      /\ written' = 0 /\ mode = "serving" /\ queue # <<>>
      /\ appending[c] = Holders /\ Holders \in Logged /\ Items[Holders] \in Nat
      /\ Items[Holders] > 0
      /\ queue' # <<>> => Holders' \in Logged /\ Items[Holders'] \in Nat /\ Items[Holders'] > 0
  BY <1>1, Released
<1>3. TypeOK'
  BY <1>1, <1>2 DEF Inv, TypeOK
<1>4. ~Cutting' /\ Settled' = seen /\ Settled = seen
  BY <1>1, <1>2 DEF Cutting, Settled, Holders
<1>5. acknowledged' \in Seq(Logged)
  BY <1>1, <1>2 DEF Inv
<1>6. ASSUME failures = 0 PROVE Durable'
  <2>1. ASSUME NEW x \in Logged
        PROVE  Count(acknowledged', x) + Pending(x)' <= Count(seen.commands, x)
    <3>1. Count(acknowledged, x) + Pending(x) <= Count(seen.commands, x)
      BY <1>6 DEF Inv, Durable
    <3>2. Pending(x) = IF Holders = x THEN 1 ELSE 0
      BY <1>1, <1>2 DEF Pending
    <3>3. Pending(x)' = 0
      BY <1>2, LoggedFrame DEF Pending
    <3>4. /\ Count(acknowledged, x) \in Nat
          /\ Count(Append(acknowledged, Holders), x)
               = IF Holders = x THEN Count(acknowledged, x) + 1 ELSE Count(acknowledged, x)
      <4>1. IsSequence(acknowledged)
        BY DEF Inv, IsSequence
      <4> QED BY <4>1, CountAppend
    <3>5. acknowledged' = Append(acknowledged, Holders)
      BY <1>1, <1>2
    <3> QED BY <3>1, <3>2, <3>3, <3>4, <3>5
  <2>2. seen.open = <<>>
    BY <1>2, <1>4, <1>6 DEF Inv, Durable
  <2>3. \A x \in Logged : Count(acknowledged, x)' = Count(acknowledged', x)
    BY DEF Count
  <2> QED BY <1>1, <1>4, <2>1, <2>2, <2>3 DEF Durable
<1>7. FileReads'
  BY <1>1, <1>2, FileStays DEF Inv
<1>8. Reader(seen') /\ Reader(before')
  BY <1>1 DEF Inv
<1>9. queue' # <<>> => written' <= Items[Holders']
  BY <1>2
<1> QED BY <1>1, <1>2, <1>3, <1>4, <1>5, <1>6, <1>7, <1>8, <1>9 DEF Inv

LEMMA InvAppendErr ==
  ASSUME Inv, NEW c \in Conns, AppendErr(c)
  PROVE  Inv'
<1>1. /\ Holds(c) /\ Release(c) /\ failures < MaxFailures /\ failures' = failures + 1
      /\ mode' = mode /\ file' = file /\ open' = open /\ position' = position
      /\ executed' = executed /\ seen' = seen /\ before' = before
      /\ appends' = appends /\ acknowledged' = acknowledged
  BY DEF AppendErr, replayVars
<1>2. /\ queue' \in Seq(Conns) /\ IsInjective(queue') /\ ToSet(queue') \subseteq Conns
      /\ appending' \in [Conns -> Logged \cup {None}]
      /\ \A u \in Conns : appending'[u] # None <=> u \in ToSet(queue')
      /\ written' = 0 /\ mode = "serving"
      /\ queue' # <<>> => Holders' \in Logged /\ Items[Holders'] \in Nat /\ Items[Holders'] > 0
  BY <1>1, Released
<1>3. failures' \in 0..MaxFailures /\ failures' # 0
  BY <1>1, FileAssumption DEF Inv, TypeOK
<1>4. TypeOK'
  BY <1>1, <1>2, <1>3 DEF Inv, TypeOK
<1>5. ~Cutting'
  BY <1>2 DEF Cutting
<1>6. FileReads'
  BY <1>1, <1>2, FileStays DEF Inv
<1>7. Reader(seen') /\ Reader(before')
  BY <1>1 DEF Inv
<1>8. queue' # <<>> => written' <= Items[Holders']
  BY <1>2
<1> QED BY <1>1, <1>2, <1>3, <1>4, <1>5, <1>6, <1>7, <1>8 DEF Inv

LEMMA InvCrash ==
  ASSUME Inv, Crash
  PROVE  Inv'
<1>1. /\ mode' = "down" /\ queue' = <<>> /\ appending' = [c \in Conns |-> None] /\ written' = 0
      /\ file' = file /\ open' = open /\ position' = position
      /\ executed' = executed /\ seen' = seen /\ before' = before
      /\ appends' = appends /\ failures' = failures /\ acknowledged' = acknowledged
  BY DEF Crash, replayVars, counts
<1>2. queue' \in Seq(Conns) /\ IsInjective(queue') /\ ToSet(queue') = {}
  BY <1>1 DEF IsInjective, ToSet
<1>3. TypeOK'
  BY <1>1, <1>2 DEF Inv, TypeOK
<1>4. ~Cutting' /\ \A x \in Logged : Pending(x)' = 0
  BY <1>1 DEF Cutting, Pending
<1>5. ASSUME failures = 0 PROVE Durable'
  <2>1. ASSUME NEW x \in Logged PROVE Count(acknowledged, x) <= Count(seen.commands, x)
    <3>1. Count(acknowledged, x) + Pending(x) <= Count(seen.commands, x) /\ Pending(x) \in {0, 1}
      BY <1>5 DEF Inv, Durable, Pending
    <3>2. IsSequence(acknowledged) /\ IsSequence(seen.commands)
      BY DEF Inv, Reader, IsSequence
    <3>3. Count(acknowledged, x) \in Nat /\ Count(seen.commands, x) \in Nat
      BY <3>2, CountAppend
    <3> QED BY <3>1, <3>3
  <2>2. ASSUME NEW x \in Logged
        PROVE  Count(acknowledged, x)' + Pending(x)' <= Count(seen.commands, x)'
    <3>1. IsSequence(acknowledged)
      BY DEF Inv, IsSequence
    <3>2. Count(acknowledged, x) \in Nat
      BY <3>1, CountAppend
    <3>3. /\ Count(acknowledged, x)' = Count(acknowledged, x)
          /\ Count(seen.commands, x)' = Count(seen.commands, x)
      BY <1>1 DEF Count
    <3> QED BY <1>4, <2>1, <3>2, <3>3
  <2> QED BY <1>1, <2>2 DEF Durable
<1>6. FileReads'
  BY <1>1, FileStays DEF Inv
<1>7. Reader(seen') /\ Reader(before')
  BY <1>1 DEF Inv
<1>8. appending' \in [Conns -> Logged \cup {None}]
  BY <1>1
<1> QED BY <1>1, <1>2, <1>3, <1>4, <1>5, <1>6, <1>7, <1>8 DEF Inv


\* What a restart and a replay leave as it is.
LEMMA WriterIdle ==
  ASSUME Inv, mode # "serving",
         file' = file, queue' = queue, appending' = appending, written' = written,
         acknowledged' = acknowledged, seen' = seen, before' = before,
         appends' = appends, failures' = failures
  PROVE  /\ queue' = <<>> /\ written' = 0 /\ ~Cutting'
         /\ \A c \in Logged : Pending(c)' = Pending(c)
         /\ Settled' = seen /\ Settled = seen
         /\ \A i \in DOMAIN file' : file'[i][1] \in {"*", "$"}
         /\ ToSet(queue') \subseteq Conns /\ IsInjective(queue')
         /\ \A c \in Conns : appending'[c] # None <=> c \in ToSet(queue')
         /\ appending' \in [Conns -> Logged \cup {None}]
         /\ written' \in Nat /\ appends' \in 0..MaxAppends /\ failures' \in 0..MaxFailures
         /\ IsSequence(file') /\ queue' \in Seq(Conns) /\ acknowledged' \in Seq(Logged)
         /\ Reader(seen') /\ Reader(before')
         /\ (mode' = "serving" => seen.open = <<>>) => (failures' = 0 => Durable')
<1>1. queue = <<>> /\ written = 0
  BY DEF Inv
<1>2. /\ ~Cutting' /\ Settled' = seen /\ Settled = seen
      /\ \A c \in Logged : Pending(c)' = Pending(c)
  BY <1>1 DEF Cutting, Settled, Pending
<1>3. ASSUME mode' = "serving" => seen.open = <<>>, failures' = 0 PROVE Durable'
  <2>1. \A c \in Logged : /\ Count(acknowledged, c)' = Count(acknowledged, c)
                          /\ Count(seen.commands, c)' = Count(seen.commands, c)
    BY DEF Count
  <2>2. \A c \in Logged : Count(acknowledged, c) + Pending(c) <= Count(seen.commands, c)
    BY <1>3 DEF Inv, Durable
  <2> QED BY <1>2, <1>3, <2>1, <2>2 DEF Durable
<1>4. /\ \A i \in DOMAIN file' : file'[i][1] \in {"*", "$"}
      /\ ToSet(queue') \subseteq Conns /\ IsInjective(queue')
      /\ \A c \in Conns : appending'[c] # None <=> c \in ToSet(queue')
      /\ written' \in Nat /\ appends' \in 0..MaxAppends /\ failures' \in 0..MaxFailures
  BY DEF Inv, TypeOK
<1>5. /\ appending' \in [Conns -> Logged \cup {None}]
      /\ IsSequence(file') /\ queue' \in Seq(Conns) /\ acknowledged' \in Seq(Logged)
      /\ Reader(seen') /\ Reader(before')
  BY DEF Inv
<1> QED BY <1>1, <1>2, <1>3, <1>4, <1>5

\* The replay has got as far as `position`, and at the end it has read the file.
LEMMA ReplaySees ==
  ASSUME Inv, mode = "replaying", position = Len(file)
  PROVE  seen = [open |-> open, commands |-> executed]
BY DEF Inv, FileReads

LEMMA InvStart ==
  ASSUME Inv, Start
  PROVE  Inv'
<1>1. /\ mode # "serving" /\ mode' = "replaying"
      /\ open' = <<>> /\ position' = 0 /\ executed' = <<>>
      /\ file' = file /\ queue' = queue /\ appending' = appending /\ written' = written
      /\ acknowledged' = acknowledged /\ seen' = seen /\ before' = before
      /\ appends' = appends /\ failures' = failures
  BY DEF Start, counts
<1>2. /\ queue' = <<>> /\ written' = 0 /\ ~Cutting'
      /\ \A i \in DOMAIN file' : file'[i][1] \in {"*", "$"}
      /\ ToSet(queue') \subseteq Conns /\ IsInjective(queue')
      /\ \A c \in Conns : appending'[c] # None <=> c \in ToSet(queue')
      /\ appending' \in [Conns -> Logged \cup {None}]
      /\ written' \in Nat /\ appends' \in 0..MaxAppends /\ failures' \in 0..MaxFailures
      /\ IsSequence(file') /\ queue' \in Seq(Conns) /\ acknowledged' \in Seq(Logged)
      /\ Reader(seen') /\ Reader(before')
      /\ failures' = 0 => Durable'
  BY <1>1, WriterIdle
<1>3. FileReads'
  <2>1. PICK trace : ReadAs(file, trace) /\ trace[Len(file)] = seen
    BY DEF Inv, FileReads
  <2>2. trace[0] = [open |-> <<>>, commands |-> <<>>]
    BY <2>1 DEF ReadAs
  <2> QED BY <1>1, <2>1, <2>2 DEF FileReads
<1>4. Len(file') \in Nat
  BY <1>2, AppendIs
<1>5. TypeOK'
  <2>1. DOMAIN open' = {} /\ position' \in 0..Len(file')
    BY <1>1, <1>4
  <2> QED BY <1>1, <1>2, <2>1 DEF TypeOK
<1> QED BY <1>1, <1>2, <1>3, <1>5, EmptyStack DEF Inv

LEMMA InvReplayToken ==
  ASSUME Inv, ReplayToken
  PROVE  Inv'
<1> DEFINE reader == read_frame(open, file[position + 1])
<1>1. /\ mode = "replaying" /\ mode' = mode /\ position < Len(file) /\ position' = position + 1
      /\ open' = reader.open /\ executed' = ExecuteFrame(reader.frame)
      /\ file' = file /\ queue' = queue /\ appending' = appending /\ written' = written
      /\ acknowledged' = acknowledged /\ seen' = seen /\ before' = before
      /\ appends' = appends /\ failures' = failures
  BY DEF ReplayToken, counts
<1>2. /\ queue' = <<>> /\ written' = 0 /\ ~Cutting'
      /\ \A i \in DOMAIN file' : file'[i][1] \in {"*", "$"}
      /\ ToSet(queue') \subseteq Conns /\ IsInjective(queue')
      /\ \A c \in Conns : appending'[c] # None <=> c \in ToSet(queue')
      /\ appending' \in [Conns -> Logged \cup {None}]
      /\ written' \in Nat /\ appends' \in 0..MaxAppends /\ failures' \in 0..MaxFailures
      /\ IsSequence(file') /\ queue' \in Seq(Conns) /\ acknowledged' \in Seq(Logged)
      /\ Reader(seen') /\ Reader(before')
      /\ failures' = 0 => Durable'
  BY <1>1, WriterIdle
<1>3. Len(file) \in Nat /\ position \in 0..Len(file)
  BY AppendIs DEF Inv, TypeOK
<1>4. position' \in 1..Len(file) /\ position' - 1 = position /\ position' \in 0..Len(file)
  BY <1>1, <1>3
<1>5. PICK trace : /\ ReadAs(file, trace) /\ trace[Len(file)] = seen
                   /\ trace[position] = [open |-> open, commands |-> executed]
  BY <1>1 DEF Inv, FileReads
<1>6. trace[position'] = [open |-> open', commands |-> executed']
  <2>1. trace[position + 1] = Reread(trace[position], file[position + 1])
    BY <1>1, <1>4, <1>5 DEF ReadAs
  <2>2. trace[position].open = open /\ trace[position].commands = executed
    BY <1>5
  <2>3. Reread(trace[position], file[position + 1])
          = [open |-> reader.open, commands |-> ExecuteFrame(reader.frame)]
    <3> DEFINE s == trace[position]
               token == file[position + 1]
    <3>1. s.open = open /\ s.commands = executed /\ reader = read_frame(open, token)
      BY <2>2
    <3> HIDE DEF s, token, reader
    <3>2. Failed(Failure("none"))
      BY DEF Failed, Failure
    <3>3. Reread(s, token) = [open |-> reader.open, commands |-> ExecuteFrame(reader.frame)]
      BY <3>1, <3>2 DEF Reread, ExecuteFrame
    <3> QED BY <3>3 DEF s, token
  <2> QED BY <1>1, <2>1, <2>3
<1> HIDE DEF reader
<1>7. Good(open')
  <2>1. Good(trace[position'].open)
    BY <1>4, <1>5 DEF ReadAs
  <2> QED BY <1>6, <2>1
<1>8. FileReads'
  BY <1>1, <1>5, <1>6 DEF FileReads
<1>9. TypeOK'
  <2>1. \A i \in DOMAIN open' : Len(open'[i].items) < open'[i].len
    BY <1>7 DEF Good, Unfinished
  <2> QED BY <1>1, <1>2, <1>4, <2>1 DEF TypeOK
<1> QED BY <1>1, <1>2, <1>7, <1>8, <1>9 DEF Inv

LEMMA InvReplayOver ==
  ASSUME Inv, ReplayEnd \/ ReplayFails
  PROVE  Inv'
<1>1. /\ mode = "replaying" /\ mode' \in {"serving", "failed"} /\ position = Len(file)
      /\ mode' = "serving" => open = <<>>
      /\ open' = open /\ position' = position /\ executed' = executed
      /\ file' = file /\ queue' = queue /\ appending' = appending /\ written' = written
      /\ acknowledged' = acknowledged /\ seen' = seen /\ before' = before
      /\ appends' = appends /\ failures' = failures
  BY DEF ReplayEnd, ReplayFails, replayVars, counts
<1>2. mode' = "serving" => seen.open = <<>>
  <2>1. seen.open = open
    BY <1>1, ReplaySees
  <2> QED BY <1>1, <2>1
<1>3. /\ queue' = <<>> /\ written' = 0 /\ ~Cutting'
      /\ \A i \in DOMAIN file' : file'[i][1] \in {"*", "$"}
      /\ ToSet(queue') \subseteq Conns /\ IsInjective(queue')
      /\ \A c \in Conns : appending'[c] # None <=> c \in ToSet(queue')
      /\ appending' \in [Conns -> Logged \cup {None}]
      /\ written' \in Nat /\ appends' \in 0..MaxAppends /\ failures' \in 0..MaxFailures
      /\ IsSequence(file') /\ queue' \in Seq(Conns) /\ acknowledged' \in Seq(Logged)
      /\ Reader(seen') /\ Reader(before')
      /\ (mode' = "serving" => seen.open = <<>>) => (failures' = 0 => Durable')
  BY <1>1, WriterIdle
<1>4. FileReads'
  BY <1>1, FileStays DEF Inv
<1>5. TypeOK'
  BY <1>1, <1>3 DEF Inv, TypeOK
<1> QED BY <1>1, <1>2, <1>3, <1>4, <1>5 DEF Inv

LEMMA InvStep == Inv /\ [Next]_vars => Inv'
<1> SUFFICES ASSUME Inv, [Next]_vars PROVE Inv'
  OBVIOUS
<1>1. CASE UNCHANGED vars
  <2>1. /\ mode' = mode /\ file' = file /\ queue' = queue /\ appending' = appending
        /\ written' = written /\ open' = open /\ position' = position /\ executed' = executed
        /\ acknowledged' = acknowledged /\ seen' = seen /\ before' = before
        /\ appends' = appends /\ failures' = failures
    BY <1>1 DEF vars
  <2>2. TypeOK' /\ FileReads' /\ Cutting' = Cutting /\ Holders' = Holders /\ Durable' = Durable
    BY <2>1 DEF Inv, TypeOK, FileReads, Cutting, Holders, Durable, Settled, Pending, Count
  <2> QED BY <2>1, <2>2 DEF Inv
<1>2. ASSUME NEW c \in Conns, NEW command \in Logged, Ask(c, command) PROVE Inv'
  BY <1>2, InvAsk
<1>3. ASSUME NEW c \in Conns, Progress(c) PROVE Inv'
  BY <1>3, InvWrite, InvAppendOk, InvAppendErr DEF Progress
<1>4. CASE Crash
  BY <1>4, InvCrash
<1>5. CASE Start
  BY <1>5, InvStart
<1>6. CASE Replay
  BY <1>6, InvReplayToken, InvReplayOver DEF Replay
<1> QED BY <1>1, <1>2, <1>3, <1>4, <1>5, <1>6 DEF Next

----------------------------------------------------------------------------
(* Theorems.                                                               *)

\* Inv holds of every reachable state: of file, queue and replay together.
THEOREM Invariant == Spec => []Inv
BY InvInit, InvStep, PTL DEF Spec

\* The writer's queue has every connection that appends in it once, and no
\* array of the replay is complete while it is open, with any number of
\* connections, failed writes, crashes and restarts.
THEOREM LogTypeCorrect == Spec => []TypeOK
<1>1. Inv => TypeOK
  BY DEF Inv
<1> QED BY <1>1, Invariant, PTL

\* As long as no write has failed, a file that has been read to its end has
\* brought back every command whose append returned Ok, as often as it did.
THEOREM AcknowledgedComeBack == Spec => []AcknowledgedIsRestored
<1>1. Inv => AcknowledgedIsRestored
  <2> SUFFICES ASSUME Inv, mode = "replaying", position = Len(file), failures = 0, NEW c \in Logged
               PROVE  Count(acknowledged, c) <= Count(executed, c)
    BY DEF AcknowledgedIsRestored
  <2>1. seen.commands = executed
    BY ReplaySees
  <2>2. Count(acknowledged, c) + Pending(c) <= Count(seen.commands, c)
    BY DEF Inv, Durable
  <2>3. Pending(c) = 0
    BY DEF Inv, Pending
  <2>4. Count(acknowledged, c) \in Nat
    <3>1. IsSequence(acknowledged)
      BY DEF Inv, IsSequence
    <3> QED BY <3>1, CountAppend
  <2> QED BY <2>1, <2>2, <2>3, <2>4
<1> QED BY <1>1, Invariant, PTL


----------------------------------------------------------------------------
(* AppendOnlyFile implements AbstractLog.                                  *)

stateBar == IF mode = "replaying" THEN "down" ELSE mode
logBar == Settled.commands
holeBar == Hole(Settled.open)
restoredBar == IF mode = "serving" THEN executed ELSE <<>>

\* Of a hole, one frame less is left when a frame has begun in it.
FilledBar == IF holeBar = 0 THEN 0 ELSE holeBar - 1

LEMMA HoleIs ==
  ASSUME NEW arrays, Good(arrays)
  PROVE  /\ Hole(arrays) \in Nat
         /\ Hole(arrays) = 0 <=> arrays = <<>>
         /\ Cardinality(Lacking(arrays)) = IF Hole(arrays) = 0 THEN 0 ELSE Hole(arrays) - 1
<1>1. Cardinality(Lacking(arrays)) \in Nat
  BY FS_CardinalityType DEF Good, Unfinished
<1>2. CASE arrays = <<>>
  BY <1>2, EmptyStack, FS_EmptySet
<1>3. CASE arrays # <<>>
  <2>1. Hole(arrays) = 1 + Cardinality(Lacking(arrays))
    BY <1>3 DEF Hole
  <2> QED BY <1>1, <1>3, <2>1
<1> QED BY <1>2, <1>3

\* The holder's mutex passes on in the middle of a frame: the hole grows by what
\* the frame lacks.
LEMMA TornFrame ==
  ASSUME Inv, Cutting
  PROVE  /\ Holders \in Logged
         /\ seen.commands = logBar
         /\ \E missing \in 1..(Items[Holders] - 1) : Hole(seen.open) = FilledBar + missing
<1> DEFINE d == Holders
           stack == before.open
           k == Cardinality(Lacking(stack))
<1>1. queue # <<>> /\ written \in 1..(Items[d] - 1)
  BY DEF Cutting
<1>2. d \in Logged /\ Items[d] \in Nat
  BY <1>1, HolderAppends
<1>3. Settled = before
  BY DEF Cutting, Settled, Holders
<1>4. Good(stack)
  BY DEF Inv, Reader
<1>5. seen.open = Deeper(stack, d, written) /\ seen.commands = before.commands
  BY DEF Inv
<1> HIDE DEF d, stack
<1>6. written \in Nat /\ written < Items[d] /\ written > 0
  BY <1>1, <1>2
<1>7. Hole(Deeper(stack, d, written)) = 1 + k + (Items[d] - written - 1) /\ k \in Nat
  BY <1>2, <1>4, <1>6, BegunOpen
<1>8. k = FilledBar
  BY <1>3, <1>4, HoleIs DEF FilledBar, holeBar, stack
<1> DEFINE missing == Items[d] - written
<1>9. missing \in 1..(Items[d] - 1)
  BY <1>2, <1>6
<1>10. Hole(seen.open) = k + missing
  <2> HIDE DEF k
  <2> QED BY <1>2, <1>5, <1>6, <1>7
<1> HIDE DEF k, missing
<1>11. Hole(seen.open) = FilledBar + missing
  BY <1>8, <1>10
<1> QED BY <1>2, <1>3, <1>5, <1>9, <1>11 DEF logBar, d

\* What a write completes is appended, or falls into the hole.
LEMMA WriteMapped ==
  ASSUME Inv, NEW c \in Conns, Write(c)
  PROVE  [Log!Next]_Log!vars
<1> DEFINE d == appending[c]
<1>1. /\ d = Holders /\ d \in Logged /\ mode = "serving" /\ queue # <<>>
      /\ Items[d] \in Nat /\ written \in Nat /\ written < Items[d] /\ written' = written + 1
      /\ Reader(Base) /\ before' = Base /\ Settled = Base
      /\ Reader(seen')
      /\ written + 1 = Items[d] => Completed(seen', Base.open, Base.commands, d)
  BY Written
<1>2. mode' = mode /\ queue' = queue /\ appending' = appending /\ executed' = executed
  BY DEF Write, replayVars, counts
<1>3. Holders' = d
  BY <1>1, <1>2 DEF Holders
<1> HIDE DEF d
<1>4. stateBar' = stateBar /\ restoredBar' = restoredBar /\ stateBar = "serving"
  BY <1>1, <1>2 DEF stateBar, restoredBar
<1>5. CASE written + 1 < Items[d]
  <2>1. Settled' = Settled
    BY <1>1, <1>2, <1>3, <1>5 DEF Settled, Holders
  <2>2. logBar' = logBar /\ holeBar' = holeBar
    BY <2>1 DEF logBar, holeBar
  <2> QED BY <1>4, <2>2 DEF Log!vars, stateBar, logBar, holeBar, restoredBar
<1>6. CASE written + 1 = Items[d]
  <2>1. Settled' = seen'
    BY <1>1, <1>2, <1>3, <1>6 DEF Settled, Holders
  <2> DEFINE r == seen'
             stack == Base.open
             commands == Base.commands
  <2>2. Completed(r, stack, commands, d) /\ Good(stack)
    BY <1>1, <1>6 DEF Reader
  <2>3. logBar = commands /\ holeBar = Hole(stack) /\ logBar' = r.commands /\ holeBar' = Hole(r.open)
    BY <1>1, <2>1 DEF logBar, holeBar
  <2> HIDE DEF r, stack, commands
  <2>4. /\ r.commands = IF Hole(stack) = 0 THEN Append(commands, d) ELSE commands
        /\ Hole(r.open) = IF Hole(stack) = 0 THEN 0 ELSE Hole(stack) - 1
    <3>1. CASE stack = <<>>
      <4>1. r.open = <<>> /\ r.commands = Append(commands, d)
        BY <2>2, <3>1 DEF Completed
      <4> QED BY <2>2, <3>1, <4>1, HoleIs, EmptyStack
    <3>2. CASE stack # <<>>
      BY <2>2, <3>2, HoleIs DEF Completed
    <3> QED BY <3>1, <3>2
  <2>5. /\ logBar' = IF holeBar = 0 THEN Append(logBar, d) ELSE logBar
        /\ holeBar' = IF holeBar = 0 THEN 0 ELSE holeBar - 1
    BY <2>3, <2>4
  <2>6. Log!Append_(d)
    BY <1>4, <2>5 DEF Log!Append_, Log!Filled, stateBar, logBar, holeBar, restoredBar
  <2> QED BY <1>1, <2>6 DEF Log!Next
<1> QED BY <1>1, <1>5, <1>6

LEMMA AskMapped ==
  ASSUME Inv, NEW c \in Conns, NEW command \in Logged, Ask(c, command)
  PROVE  UNCHANGED <<stateBar, logBar, holeBar, restoredBar>>
<1>1. mode' = mode /\ executed' = executed
  BY DEF Ask, replayVars
<1>2. Settled' = Settled
  BY AskWaits
<1> QED BY <1>1, <1>2 DEF stateBar, logBar, holeBar, restoredBar

LEMMA AppendOkMapped ==
  ASSUME Inv, NEW c \in Conns, AppendOk(c)
  PROVE  UNCHANGED <<stateBar, logBar, holeBar, restoredBar>>
<1>1. Holds(c) /\ Release(c) /\ written = Items[appending[c]]
      /\ mode' = mode /\ executed' = executed /\ seen' = seen
  BY DEF AppendOk, replayVars, counts
<1>2. written' = 0 /\ mode = "serving" /\ appending[c] = Holders /\ Items[Holders] \in Nat
  BY <1>1, Released
<1>3. Settled' = seen /\ Settled = seen
  BY <1>1, <1>2 DEF Settled, Holders
<1>4. logBar' = logBar /\ holeBar' = holeBar
  BY <1>1, <1>3 DEF logBar, holeBar
<1> QED BY <1>1, <1>4 DEF stateBar, restoredBar

LEMMA AppendErrMapped ==
  ASSUME Inv, NEW c \in Conns, AppendErr(c)
  PROVE  [Log!Next]_Log!vars
<1>1. Holds(c) /\ Release(c) /\ written < Items[appending[c]]
      /\ mode' = mode /\ executed' = executed /\ seen' = seen
  BY DEF AppendErr, replayVars
<1>2. written' = 0 /\ mode = "serving" /\ appending[c] = Holders /\ Items[Holders] \in Nat
      /\ queue # <<>>
  BY <1>1, Released
<1>3. Settled' = seen
  BY <1>1, <1>2 DEF Settled, Holders
<1>4. stateBar' = stateBar /\ restoredBar' = restoredBar /\ stateBar = "serving"
  BY <1>1, <1>2 DEF stateBar, restoredBar
<1>5. CASE written = 0
  <2>1. Settled = seen
    BY <1>5 DEF Settled
  <2>2. logBar' = logBar /\ holeBar' = holeBar
    BY <1>1, <1>3, <2>1 DEF logBar, holeBar
  <2> QED BY <1>4, <2>2 DEF Log!vars, stateBar, logBar, holeBar, restoredBar
<1>6. CASE written # 0
  <2>1. Cutting
    BY <1>1, <1>2, <1>6 DEF Cutting, Inv, TypeOK
  <2>2. PICK missing \in 1..(Items[Holders] - 1) : Hole(seen.open) = FilledBar + missing
    BY <2>1, TornFrame
  <2>3. logBar' = logBar /\ holeBar' = FilledBar + missing
    BY <1>1, <1>3, <2>1, <2>2, TornFrame DEF logBar, holeBar
  <2>4. Log!AppendFails(Holders)
    BY <1>4, <2>3
       DEF Log!AppendFails, Log!Tear, Log!Filled, FilledBar, stateBar, logBar, holeBar, restoredBar
  <2> QED BY <2>1, <2>4, TornFrame DEF Log!Next
<1> QED BY <1>5, <1>6

LEMMA CrashMapped ==
  ASSUME Inv, Crash
  PROVE  [Log!Next]_Log!vars
<1>1. mode # "down" /\ mode' = "down" /\ queue' = <<>> /\ written' = 0 /\ seen' = seen
  BY DEF Crash, replayVars, counts
<1>2. Settled' = seen /\ stateBar' = "down" /\ restoredBar' = <<>>
  BY <1>1 DEF Settled, stateBar, restoredBar
<1>3. logBar' = seen.commands /\ holeBar' = Hole(seen.open)
  BY <1>1, <1>2 DEF logBar, holeBar
<1>4. CASE Cutting
  <2>1. PICK missing \in 1..(Items[Holders] - 1) : Hole(seen.open) = FilledBar + missing
    BY <1>4, TornFrame
  <2>2. stateBar = "serving" /\ Holders \in Logged /\ logBar' = logBar /\ holeBar' = FilledBar + missing
    BY <1>3, <1>4, <2>1, TornFrame DEF stateBar, Cutting
  <2>3. Log!Tear(Holders)
    BY <2>2 DEF Log!Tear, Log!Filled, FilledBar, stateBar, logBar, holeBar, restoredBar
  <2>4. Log!Crash
    BY <1>2, <2>2, <2>3 DEF Log!Crash, stateBar, logBar, holeBar, restoredBar
  <2> QED BY <2>4 DEF Log!Next
<1>5. CASE ~Cutting
  <2>1. Settled = seen
    BY <1>5 DEF Settled, Cutting, Holders
  <2>2. logBar' = logBar /\ holeBar' = holeBar
    BY <1>3, <2>1 DEF logBar, holeBar
  <2>3. CASE mode = "replaying"
    <3>1. stateBar = "down" /\ restoredBar = <<>>
      BY <2>3 DEF stateBar, restoredBar
    <3> QED BY <1>2, <2>2, <3>1 DEF Log!vars, stateBar, logBar, holeBar, restoredBar
  <2>4. CASE mode # "replaying"
    <3>1. stateBar # "down"
      BY <1>1, <2>4 DEF stateBar
    <3>2. Log!Crash
      BY <1>2, <2>2, <3>1 DEF Log!Crash, stateBar, logBar, holeBar, restoredBar
    <3> QED BY <3>2 DEF Log!Next
  <2> QED BY <2>3, <2>4
<1> QED BY <1>4, <1>5

LEMMA StartMapped ==
  ASSUME Inv, Start
  PROVE  [Log!Next]_Log!vars
<1>1. /\ mode \in {"down", "failed"} /\ mode' = "replaying" /\ queue' = queue
      /\ written' = written /\ appending' = appending /\ seen' = seen
  BY DEF Start, counts
<1>2. Settled' = seen /\ Settled = seen
  BY <1>1 DEF Settled
<1>3. logBar' = logBar /\ holeBar' = holeBar
  BY <1>1, <1>2 DEF logBar, holeBar
<1>4. stateBar' = "down" /\ restoredBar' = <<>> /\ restoredBar = <<>> /\ stateBar = mode
  BY <1>1 DEF stateBar, restoredBar
<1>5. CASE mode = "down"
  BY <1>3, <1>4, <1>5 DEF Log!vars, stateBar, logBar, holeBar, restoredBar
<1>6. CASE mode = "failed"
  <2>1. Log!Crash
    BY <1>3, <1>4, <1>6 DEF Log!Crash, stateBar, logBar, holeBar, restoredBar
  <2> QED BY <2>1 DEF Log!Next
<1> QED BY <1>1, <1>5, <1>6

LEMMA ReplayMapped ==
  ASSUME Inv, Replay
  PROVE  [Log!Next]_Log!vars
<1>1. mode = "replaying" /\ seen' = seen
  BY DEF Replay, ReplayToken, ReplayEnd, ReplayFails
<1>2. Settled = seen /\ stateBar = "down" /\ restoredBar = <<>>
  BY <1>1 DEF Settled, stateBar, restoredBar
<1>3. queue' = <<>> /\ queue = <<>>
  BY <1>1 DEF Inv, Replay, ReplayToken, ReplayEnd, ReplayFails
<1>4. Settled' = seen
  BY <1>1, <1>3 DEF Settled
<1>5. logBar' = logBar /\ holeBar' = holeBar
  BY <1>1, <1>2, <1>4 DEF logBar, holeBar
<1>6. CASE ReplayToken
  <2>1. stateBar' = "down" /\ restoredBar' = <<>>
    BY <1>6 DEF ReplayToken, stateBar, restoredBar
  <2> QED BY <1>2, <1>5, <2>1 DEF Log!vars, stateBar, logBar, holeBar, restoredBar
<1>7. CASE ReplayEnd \/ ReplayFails
  <2>1. /\ position = Len(file) /\ executed' = executed
        /\ mode' = IF open = <<>> THEN "serving" ELSE "failed"
    BY <1>7 DEF ReplayEnd, ReplayFails, replayVars
  <2>2. seen.open = open /\ seen.commands = executed
    BY <1>1, <2>1, ReplaySees
  <2>3. holeBar = 0 <=> open = <<>>
    <3>1. Good(seen.open)
      BY DEF Inv, Reader
    <3> QED BY <1>2, <2>2, <3>1, HoleIs DEF holeBar
  <2>4. logBar = executed
    BY <1>2, <2>2 DEF logBar
  <2>5. /\ stateBar' = IF holeBar = 0 THEN "serving" ELSE "failed"
        /\ restoredBar' = IF holeBar = 0 THEN logBar ELSE <<>>
    BY <2>1, <2>3, <2>4 DEF stateBar, restoredBar
  <2>6. Log!Restart
    BY <1>2, <1>5, <2>5 DEF Log!Restart, stateBar, logBar, holeBar, restoredBar
  <2> QED BY <2>6 DEF Log!Next
<1> QED BY <1>6, <1>7 DEF Replay

LEMMA StepMapped ==
  ASSUME Inv, [Next]_vars
  PROVE  [Log!Next]_Log!vars
<1>1. CASE UNCHANGED vars
  BY <1>1 DEF vars, Log!vars, Settled, Holders
<1>2. ASSUME NEW c \in Conns, NEW command \in Logged, Ask(c, command) PROVE [Log!Next]_Log!vars
  BY <1>2, AskMapped DEF Log!vars, stateBar, logBar, holeBar, restoredBar
<1>3. ASSUME NEW c \in Conns, Progress(c) PROVE [Log!Next]_Log!vars
  <2>1. CASE Write(c)
    BY <2>1, WriteMapped
  <2>2. CASE AppendOk(c)
    BY <2>2, AppendOkMapped DEF Log!vars, stateBar, logBar, holeBar, restoredBar
  <2>3. CASE AppendErr(c)
    BY <2>3, AppendErrMapped
  <2> QED BY <1>3, <2>1, <2>2, <2>3 DEF Progress
<1>4. CASE Crash \/ Start \/ Replay
  BY <1>4, CrashMapped, StartMapped, ReplayMapped
<1> QED BY <1>1, <1>2, <1>3, <1>4 DEF Next

LEMMA InitMapped == Init => Log!Init
<1> SUFFICES ASSUME Init PROVE Log!Init
  OBVIOUS
<1>1. stateBar = "serving" /\ logBar = <<>> /\ holeBar = 0 /\ restoredBar = <<>>
  BY EmptyStack DEF Init, stateBar, logBar, holeBar, restoredBar, Settled
<1> QED BY <1>1 DEF Log!Init, stateBar, logBar, holeBar, restoredBar

\* AppendOnlyFile implements the log with holes: a command whose frame is whole
\* is replayed as that command, in the order of the mutex, and a frame that is cut
\* off never turns into a command, however many connections append, whatever
\* the frames' lengths and wherever writes fail and crashes happen.
THEOREM FileImplementsLog == Spec => ImplementsLog
<1>1. Init => Log!Init
  BY InitMapped
<1>2. Inv /\ [Next]_vars => [Log!Next]_Log!vars
  BY StepMapped
<1> QED BY <1>1, <1>2, Invariant, PTL DEF Spec, ImplementsLog, Log!Spec


=============================================================================

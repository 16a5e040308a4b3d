----------------------------- MODULE Session_proofs -----------------------------
(***************************************************************************)
(* Proofs about Session.tla, for any requests that are whole frames of     *)
(* commands the store understands, any capacity of the socket, any window. *)
(*                                                                         *)
(* One argument serves both directions of the socket: Flow says of the     *)
(* tokens under way which messages they are part of, what the reader has   *)
(* made of those before them and what the writer has yet to write.         *)
(***************************************************************************)
EXTENDS Session, StoreOps_proofs, Resp_proofs

----------------------------------------------------------------------------
(* A message and its tokens.                                               *)

\* One frame and no more, or tokens of which the last does not parse.
Whole(msg) ==
  /\ IsSequence(msg) /\ msg # <<>> /\ Headed(msg)
  /\ \A n \in 1..(Len(msg) - 1) : ~Malformed(msg[n]) /\ Reading(msg)[n].frame = NoFrame
  /\ ~Malformed(msg[Len(msg)]) =>
       Reading(msg)[Len(msg)].open = <<>> /\ Reading(msg)[Len(msg)].frame # NoFrame

\* The rest of a message, from token b on.
Remains(rest, msg, b) ==
  /\ IsSequence(rest) /\ Len(rest) = (Len(msg) - b) + 1
  /\ \A n \in 1..Len(rest) : rest[n] = msg[(b + n) - 1]

LEMMA TailIs ==
  ASSUME NEW s, IsSequence(s), s # <<>>
  PROVE  /\ Len(s) \in Nat \ {0}
         /\ IsSequence(Tail(s)) /\ Len(Tail(s)) = Len(s) - 1
         /\ Head(s) = s[1]
         /\ \A n \in 1..(Len(s) - 1) : Tail(s)[n] = s[n + 1]
         /\ Tail(s) = <<>> <=> Len(s) = 1
<1>1. PICK S : s \in Seq(S)
  BY DEF IsSequence
<1>2. Len(s) \in Nat \ {0} /\ Head(s) = s[1]
  BY <1>1
<1>3. Tail(s) \in Seq(S) /\ Len(Tail(s)) = Len(s) - 1
  BY <1>1, <1>2
<1>4. \A n \in 1..(Len(s) - 1) : Tail(s)[n] = s[n + 1]
  BY <1>1, <1>2, <1>3
<1>5. Tail(s) = <<>> <=> Len(s) = 1
  BY <1>1, <1>2, <1>3
<1> QED BY <1>2, <1>3, <1>4, <1>5 DEF IsSequence

\* What is left when one more token is written.
LEMMA RemainsLess ==
  ASSUME NEW msg, IsSequence(msg), NEW b \in 1..Len(msg), NEW rest, Remains(rest, msg, b)
  PROVE  /\ rest # <<>> /\ Head(rest) = msg[b]
         /\ Tail(rest) = <<>> <=> b = Len(msg)
         /\ b < Len(msg) => Remains(Tail(rest), msg, b + 1)
<1>1. Len(msg) \in Nat
  BY AppendIs
<1>2. IsSequence(rest) /\ Len(rest) = (Len(msg) - b) + 1 /\ Len(rest) \in Nat \ {0}
  BY <1>1 DEF Remains
<1>3. rest # <<>>
  BY <1>2
<1>4. /\ IsSequence(Tail(rest)) /\ Len(Tail(rest)) = Len(rest) - 1
      /\ Head(rest) = rest[1]
      /\ \A n \in 1..(Len(rest) - 1) : Tail(rest)[n] = rest[n + 1]
      /\ Tail(rest) = <<>> <=> Len(rest) = 1
  BY <1>2, <1>3, TailIs
<1>5. Head(rest) = msg[b]
  <2>1. 1 \in 1..Len(rest) /\ (b + 1) - 1 = b
    BY <1>1, <1>2
  <2>2. rest[1] = msg[(b + 1) - 1]
    BY <2>1 DEF Remains
  <2> QED BY <1>4, <2>1, <2>2
<1>6. Tail(rest) = <<>> <=> b = Len(msg)
  BY <1>1, <1>2, <1>4
<1>7. ASSUME b < Len(msg) PROVE Remains(Tail(rest), msg, b + 1)
  <2>1. Len(Tail(rest)) = (Len(msg) - (b + 1)) + 1
    BY <1>1, <1>2, <1>4
  <2>2. ASSUME NEW n \in 1..Len(Tail(rest)) PROVE Tail(rest)[n] = msg[((b + 1) + n) - 1]
    <3>1. n \in 1..(Len(rest) - 1) /\ n + 1 \in 1..Len(rest) /\ (b + (n + 1)) - 1 = ((b + 1) + n) - 1
      BY <1>1, <1>2, <1>4
    <3>2. Tail(rest)[n] = rest[n + 1]
      BY <1>4, <3>1
    <3>3. rest[n + 1] = msg[(b + (n + 1)) - 1]
      BY <3>1 DEF Remains
    <3> QED BY <3>1, <3>2, <3>3
  <2> QED BY <1>4, <2>1, <2>2 DEF Remains
<1> QED BY <1>3, <1>5, <1>6, <1>7

----------------------------------------------------------------------------
(* One direction of the socket.                                            *)

\* After token y[n] of message x[n] comes the next one, or the next message.
Follows(msgs, x, y, n) ==
  IF y[n] < Len(msgs[x[n]]) THEN x[n + 1] = x[n] /\ y[n + 1] = y[n] + 1
  ELSE x[n + 1] = x[n] + 1 /\ y[n + 1] = 1

\* The n-th token under way is token y[n] of message x[n]; the last line of all
\* may be cut short once its writer is gone.
IsToken(stream, msgs, x, y, writer, n) ==
  /\ x[n] \in 1..Len(msgs) /\ y[n] \in 1..Len(msgs[x[n]])
  /\ \/ stream[n] = msgs[x[n]][y[n]]
     \/ /\ writer = "closed" /\ n = Len(stream) /\ x[n] = Len(msgs)
        /\ stream[n] \in Cut(msgs[x[n]][y[n]])

\* The next token the writer writes is token b of message a.
Ahead(msgs, rest, a, b) ==
  IF rest = <<>> THEN a = Len(msgs) + 1 /\ b = 1
  ELSE /\ a = Len(msgs) /\ a > 0 /\ b \in 1..Len(msgs[a])
       /\ Remains(rest, msgs[a], b)

\* The reader is done with so many messages, and has read the tokens before
\* token b of the next one.
ReadSoFar(msgs, done, arrays, b) ==
  IF done < Len(msgs)
  THEN b \in 1..Len(msgs[done + 1]) /\ arrays = Reading(msgs[done + 1])[b - 1].open
  ELSE b = 1 /\ arrays = <<>>

Tracked(stream, msgs, done, arrays, writer, rest, x, y) ==
  /\ x[1] = done + 1
  /\ ReadSoFar(msgs, done, arrays, y[1])
  /\ \A n \in 1..Len(stream) : IsToken(stream, msgs, x, y, writer, n) /\ Follows(msgs, x, y, n)
  /\ writer # "closed" => Ahead(msgs, rest, x[Len(stream) + 1], y[Len(stream) + 1])

\* Once the writer is gone and all is read, nothing more is asked.
Flow(stream, msgs, done, arrays, writer, rest) ==
  /\ done \in Nat /\ done <= Len(msgs)
  /\ \/ writer = "closed" /\ stream = <<>>
     \/ \E x, y : Tracked(stream, msgs, done, arrays, writer, rest, x, y)

LEMMA FlowInit ==
  ASSUME NEW msgs, Len(msgs) = 0, NEW writer
  PROVE  Flow(<<>>, msgs, 0, <<>>, writer, <<>>)
<1> DEFINE x == [n \in {1} |-> 1]
<1>1. x[1] = 1 /\ Len(<<>>) = 0
  OBVIOUS
<1> HIDE DEF x
<1>2. Tracked(<<>>, msgs, 0, <<>>, writer, <<>>, x, x)
  BY <1>1 DEF Tracked, ReadSoFar, Ahead
<1> QED BY <1>2 DEF Flow

\* The writer begins a message.
LEMMA FlowBegin ==
  ASSUME NEW stream, Len(stream) \in Nat, NEW msgs, Len(msgs) \in Nat, NEW done, NEW arrays, NEW writer,
         writer # "closed", Flow(stream, msgs, done, arrays, writer, <<>>),
         NEW more, Len(more) = Len(msgs) + 1, \A n \in 1..Len(msgs) : more[n] = msgs[n],
         NEW msg, Whole(msg), more[Len(msgs) + 1] = msg
  PROVE  Flow(stream, more, done, arrays, writer, msg)
<1>1. done \in Nat /\ done <= Len(msgs)
  BY DEF Flow
<1>2. PICK x, y : Tracked(stream, msgs, done, arrays, writer, <<>>, x, y)
  BY DEF Flow
<1>3. IsSequence(msg) /\ msg # <<>> /\ Len(msg) \in Nat \ {0}
  BY FrontLast DEF Whole
<1>4. ReadSoFar(more, done, arrays, y[1])
  <2>1. ReadSoFar(msgs, done, arrays, y[1])
    BY <1>2 DEF Tracked
  <2>2. CASE done < Len(msgs)
    <3>1. more[done + 1] = msgs[done + 1] /\ done < Len(more)
      BY <1>1, <2>2
    <3> QED BY <2>1, <2>2, <3>1 DEF ReadSoFar
  <2>3. CASE ~(done < Len(msgs))
    <3>1. done = Len(msgs) /\ done < Len(more) /\ more[done + 1] = msg
      BY <1>1, <2>3
    <3>2. y[1] = 1 /\ arrays = <<>>
      BY <2>1, <2>3 DEF ReadSoFar
    <3>3. Reading(msg)[0].open = <<>>
      BY <1>3, ReadingUnrolls
    <3>4. y[1] \in 1..Len(msg) /\ y[1] - 1 = 0
      BY <1>3, <3>2
    <3> QED BY <3>1, <3>2, <3>3, <3>4 DEF ReadSoFar
  <2> QED BY <2>2, <2>3
<1>5. ASSUME NEW n \in 1..Len(stream) PROVE IsToken(stream, more, x, y, writer, n) /\ Follows(more, x, y, n)
  <2>1. IsToken(stream, msgs, x, y, writer, n) /\ Follows(msgs, x, y, n)
    BY <1>2 DEF Tracked
  <2>2. x[n] \in 1..Len(msgs)
    BY <2>1 DEF IsToken
  <2>3. more[x[n]] = msgs[x[n]] /\ x[n] \in 1..Len(more)
    BY <2>2
  <2> QED BY <2>1, <2>2, <2>3 DEF IsToken, Follows
<1>6. Ahead(more, msg, x[Len(stream) + 1], y[Len(stream) + 1])
  <2>1. x[Len(stream) + 1] = Len(msgs) + 1 /\ y[Len(stream) + 1] = 1
    BY <1>2 DEF Tracked, Ahead
  <2>2. Remains(msg, msg, 1)
    <3>1. Len(msg) = (Len(msg) - 1) + 1 /\ \A n \in 1..Len(msg) : (1 + n) - 1 = n
      BY <1>3
    <3> QED BY <1>3, <3>1 DEF Remains
  <2> QED BY <1>3, <2>1, <2>2 DEF Ahead
<1>7. Tracked(stream, more, done, arrays, writer, msg, x, y)
  BY <1>2, <1>4, <1>5, <1>6 DEF Tracked
<1>8. done <= Len(more)
  BY <1>1
<1> QED BY <1>1, <1>7, <1>8 DEF Flow

\* One token more, the next one or what came of it when its writer was gone.
LEMMA FlowGrows ==
  ASSUME NEW stream, IsSequence(stream), NEW msgs, Len(msgs) \in Nat,
         \A n \in 1..Len(msgs) : Whole(msgs[n]), NEW done, NEW arrays, NEW writer, writer # "closed",
         NEW rest, rest # <<>>, Flow(stream, msgs, done, arrays, writer, rest),
         NEW after, NEW token, token = Head(rest) \/ (after = "closed" /\ token \in Cut(Head(rest))),
         NEW left, after = "closed" \/ left = Tail(rest)
  PROVE  Flow(Append(stream, token), msgs, done, arrays, after, left)
<1> DEFINE size == Len(stream)
           longer == Append(stream, token)
<1>1. done \in Nat /\ done <= Len(msgs)
  BY DEF Flow
<1>2. PICK x, y : Tracked(stream, msgs, done, arrays, writer, rest, x, y)
  BY DEF Flow
<1>3. /\ size \in Nat /\ Len(longer) = size + 1 /\ longer[size + 1] = token
      /\ \A n \in 1..size : longer[n] = stream[n]
  BY AppendIs
<1> DEFINE a == x[size + 1]
           b == y[size + 1]
<1>4. /\ a = Len(msgs) /\ a \in 1..Len(msgs) /\ b \in 1..Len(msgs[a])
      /\ Remains(rest, msgs[a], b)
  BY <1>2 DEF Tracked, Ahead
<1>5. IsSequence(msgs[a]) /\ Len(msgs[a]) \in Nat
  BY <1>4, AppendIs DEF Whole
<1>6. /\ Head(rest) = msgs[a][b]
      /\ Tail(rest) = <<>> <=> b = Len(msgs[a])
      /\ b < Len(msgs[a]) => Remains(Tail(rest), msgs[a], b + 1)
  <2> HIDE DEF a, b
  <2> DEFINE msg == msgs[a]
  <2>1. IsSequence(msg) /\ b \in 1..Len(msg) /\ Remains(rest, msg, b)
    BY <1>4, <1>5
  <2> HIDE DEF msg
  <2>2. /\ rest # <<>> /\ Head(rest) = msg[b]
        /\ Tail(rest) = <<>> <=> b = Len(msg)
        /\ b < Len(msg) => Remains(Tail(rest), msg, b + 1)
    BY <2>1, RemainsLess
  <2> QED BY <2>2 DEF msg
<1> DEFINE x2 == [n \in 1..(size + 2) |-> IF n <= size + 1 THEN x[n] ELSE IF b < Len(msgs[a]) THEN a ELSE a + 1]
           y2 == [n \in 1..(size + 2) |-> IF n <= size + 1 THEN y[n] ELSE IF b < Len(msgs[a]) THEN b + 1 ELSE 1]
<1>7. /\ \A n \in 1..(size + 1) : x2[n] = x[n] /\ y2[n] = y[n]
      /\ x2[size + 2] = IF b < Len(msgs[a]) THEN a ELSE a + 1
      /\ y2[size + 2] = IF b < Len(msgs[a]) THEN b + 1 ELSE 1
  BY <1>3
<1> HIDE DEF x2, y2, longer
<1>8. x2[1] = done + 1 /\ ReadSoFar(msgs, done, arrays, y2[1])
  <2>1. x2[1] = x[1] /\ y2[1] = y[1]
    BY <1>3, <1>7
  <2> QED BY <1>2, <2>1 DEF Tracked
<1>9. ASSUME NEW n \in 1..(size + 1)
      PROVE  IsToken(longer, msgs, x2, y2, after, n) /\ Follows(msgs, x2, y2, n)
  <2>1. x2[n] = x[n] /\ y2[n] = y[n]
    BY <1>7
  <2>2. CASE n \in 1..size
    <3>1. IsToken(stream, msgs, x, y, writer, n) /\ Follows(msgs, x, y, n)
      BY <1>2, <2>2 DEF Tracked
    <3>2. n + 1 \in 1..(size + 1) /\ longer[n] = stream[n]
      BY <1>3, <2>2
    <3>3. x2[n + 1] = x[n + 1] /\ y2[n + 1] = y[n + 1]
      BY <1>7, <3>2
    <3> QED BY <2>1, <3>1, <3>2, <3>3 DEF IsToken, Follows
  <2>3. CASE n \notin 1..size
    <3>1. n = size + 1 /\ n + 1 = size + 2
      BY <1>3, <2>3
    <3>2. x2[n] = a /\ y2[n] = b
      BY <2>1, <3>1
    <3> HIDE DEF a, b
    <3>3. IsToken(longer, msgs, x2, y2, after, n)
      BY <1>3, <1>4, <1>6, <3>1, <3>2 DEF IsToken
    <3>4. Follows(msgs, x2, y2, n)
      BY <1>7, <3>1, <3>2 DEF Follows
    <3> QED BY <3>3, <3>4
  <2> QED BY <2>2, <2>3
<1>10. ASSUME after # "closed" PROVE Ahead(msgs, left, x2[size + 2], y2[size + 2])
  <2> HIDE DEF a, b
  <2>0. left = Tail(rest)
    BY <1>10
  <2>1. CASE b < Len(msgs[a])
    <3>1. x2[size + 2] = a /\ y2[size + 2] = b + 1 /\ left # <<>> /\ b + 1 \in 1..Len(msgs[a])
      BY <1>4, <1>5, <1>6, <1>7, <2>0, <2>1
    <3>2. Remains(left, msgs[a], b + 1) /\ a = Len(msgs) /\ a > 0
      BY <1>4, <1>6, <2>0, <2>1
    <3> QED BY <3>1, <3>2 DEF Ahead
  <2>2. CASE ~(b < Len(msgs[a]))
    <3>1. b = Len(msgs[a])
      BY <1>4, <1>5, <2>2
    <3>2. x2[size + 2] = a + 1 /\ y2[size + 2] = 1 /\ left = <<>>
      BY <1>6, <1>7, <2>0, <2>2, <3>1
    <3> QED BY <1>4, <3>2 DEF Ahead
  <2> QED BY <2>1, <2>2
<1>11. Tracked(longer, msgs, done, arrays, after, left, x2, y2)
  <2>1. (size + 1) + 1 = size + 2
    BY <1>3
  <2> HIDE DEF size
  <2> QED BY <1>3, <1>8, <1>9, <1>10, <2>1 DEF Tracked
<1>12. Flow(longer, msgs, done, arrays, after, left)
  BY <1>1, <1>11 DEF Flow
<1> QED BY <1>12 DEF longer

\* The writer writes one token.
LEMMA FlowWrite ==
  ASSUME NEW stream, IsSequence(stream), NEW msgs, Len(msgs) \in Nat,
         \A n \in 1..Len(msgs) : Whole(msgs[n]), NEW done, NEW arrays, NEW writer, writer # "closed",
         NEW rest, rest # <<>>, Flow(stream, msgs, done, arrays, writer, rest)
  PROVE  Flow(Append(stream, Head(rest)), msgs, done, arrays, writer, Tail(rest))
<1> DEFINE token == Head(rest)
           left == Tail(rest)
<1>1. token = Head(rest) /\ left = Tail(rest)
  OBVIOUS
<1> HIDE DEF token, left
<1>2. Flow(Append(stream, token), msgs, done, arrays, writer, left)
  BY <1>1, FlowGrows
<1> QED BY <1>1, <1>2

\* The writer is gone, and the line it was writing has arrived in part.
LEMMA FlowBreaks ==
  ASSUME NEW stream, IsSequence(stream), NEW msgs, Len(msgs) \in Nat,
         \A n \in 1..Len(msgs) : Whole(msgs[n]), NEW done, NEW arrays, NEW writer, writer # "closed",
         NEW rest, rest # <<>>, Flow(stream, msgs, done, arrays, writer, rest),
         NEW part \in Cut(Head(rest))
  PROVE  Flow(Append(stream, part), msgs, done, arrays, "closed", rest)
<1> DEFINE after == "closed"
<1>1. after = "closed"
  OBVIOUS
<1> HIDE DEF after
<1>2. Flow(Append(stream, part), msgs, done, arrays, after, rest)
  BY <1>1, FlowGrows
<1> QED BY <1>1, <1>2

\* The writer is gone, and nothing of the line it was writing has arrived.
LEMMA FlowEnds ==
  ASSUME NEW stream, NEW msgs, NEW done, NEW arrays, NEW writer, NEW rest,
         Flow(stream, msgs, done, arrays, writer, rest)
  PROVE  Flow(stream, msgs, done, arrays, "closed", rest)
<1>1. CASE writer = "closed"
  BY <1>1
<1>2. CASE writer # "closed"
  <2>1. PICK x, y : Tracked(stream, msgs, done, arrays, writer, rest, x, y)
    BY <1>2 DEF Flow
  <2>2. ASSUME NEW n \in 1..Len(stream) PROVE IsToken(stream, msgs, x, y, "closed", n) /\ Follows(msgs, x, y, n)
    BY <1>2, <2>1 DEF Tracked, IsToken
  <2>3. Tracked(stream, msgs, done, arrays, "closed", rest, x, y)
    BY <2>1, <2>2 DEF Tracked
  <2> QED BY <2>3 DEF Flow
<1> QED BY <1>1, <1>2

\* The reader reads one token.
LEMMA FlowRead ==
  ASSUME NEW stream, IsSequence(stream), stream # <<>>, ~Malformed(Head(stream)),
         NEW msgs, Len(msgs) \in Nat, \A n \in 1..Len(msgs) : Whole(msgs[n]),
         NEW done, NEW arrays, NEW writer, NEW rest, Flow(stream, msgs, done, arrays, writer, rest),
         NEW read, read = read_frame(arrays, Head(stream))
  PROVE  /\ Unfinished(read.open)
         /\ read.frame = NoFrame => Flow(Tail(stream), msgs, done, read.open, writer, rest)
         /\ read.frame # NoFrame =>
              /\ done + 1 \in 1..Len(msgs)
              /\ Flow(Tail(stream), msgs, done + 1, read.open, writer, rest)
              /\ \/ /\ read.frame = Reading(msgs[done + 1])[Len(msgs[done + 1])].frame
                    /\ ~Malformed(msgs[done + 1][Len(msgs[done + 1])])
                 \/ /\ writer = "closed" /\ done + 1 = Len(msgs)
                    /\ read.frame \in CutShort(msgs[done + 1]) /\ Sensible(read.frame)
<1> DEFINE size == Len(stream)
           token == Head(stream)
           left == Tail(stream)
           msg == msgs[done + 1]
           last == Len(msg)
<1>1. done \in Nat /\ done <= Len(msgs)
  BY DEF Flow
<1>2. PICK x, y : Tracked(stream, msgs, done, arrays, writer, rest, x, y)
  BY DEF Flow
<1>3. /\ size \in Nat \ {0} /\ Len(left) = size - 1 /\ token = stream[1]
      /\ \A n \in 1..(size - 1) : left[n] = stream[n + 1]
      /\ left = <<>> <=> size = 1
  BY TailIs
<1> DEFINE b == y[1]
<1>4. /\ x[1] = done + 1 /\ ReadSoFar(msgs, done, arrays, b)
      /\ IsToken(stream, msgs, x, y, writer, 1) /\ Follows(msgs, x, y, 1)
  BY <1>2, <1>3 DEF Tracked
<1>5. done + 1 \in 1..Len(msgs) /\ b \in 1..last
  BY <1>4 DEF IsToken
<1>6. Whole(msg)
  BY <1>5
<1>7. arrays = Reading(msg)[b - 1].open
  BY <1>1, <1>4, <1>5 DEF ReadSoFar
<1>8. \/ token = msg[b]
      \/ writer = "closed" /\ size = 1 /\ done + 1 = Len(msgs) /\ token \in Cut(msg[b])
  <2>1. \/ stream[1] = msgs[x[1]][b]
        \/ writer = "closed" /\ 1 = size /\ x[1] = Len(msgs) /\ stream[1] \in Cut(msgs[x[1]][b])
    BY <1>4 DEF IsToken
  <2>2. x[1] = done + 1 /\ token = stream[1]
    BY <1>3, <1>4
  <2> HIDE DEF size, token, b
  <2> QED BY <2>1, <2>2
<1> HIDE DEF token, left, msg, b
<1>9. IsSequence(msg) /\ Headed(msg) /\ last \in Nat \ {0}
  BY <1>6, FrontLast DEF Whole
<1>10. b - 1 \in 0..last /\ b \in 1..last /\ b \in 0..last
  BY <1>5, <1>9 DEF msg
<1>11. Unfinished(arrays)
  BY <1>7, <1>9, <1>10, ReadingUnfinished
<1>12. Reading(msg)[b] = read_frame(arrays, msg[b])
  BY <1>7, <1>9, <1>10, ReadingUnrolls
<1>13. CASE token = msg[b]
  <2>1. read = Reading(msg)[b]
    BY <1>12, <1>13 DEF token
  <2>2. Unfinished(read.open)
    BY <1>9, <1>10, <2>1, ReadingUnfinished
  <2> DEFINE x2 == [n \in 1..size |-> x[n + 1]]
             y2 == [n \in 1..size |-> y[n + 1]]
  <2>3. /\ \A n \in 1..size : x2[n] = x[n + 1] /\ y2[n] = y[n + 1]
        /\ 1 \in 1..size /\ x2[1] = x[2] /\ y2[1] = y[2]
    BY <1>3
  <2> HIDE DEF x2, y2
  <2>4. ASSUME NEW n \in 1..Len(left)
        PROVE  IsToken(left, msgs, x2, y2, writer, n) /\ Follows(msgs, x2, y2, n)
    <3>1. n \in 1..size /\ n + 1 \in 1..size /\ left[n] = stream[n + 1] /\ (n = Len(left) <=> n + 1 = size)
      BY <1>3
    <3>2. IsToken(stream, msgs, x, y, writer, n + 1) /\ Follows(msgs, x, y, n + 1)
      BY <1>2, <3>1 DEF Tracked
    <3>3. x2[n] = x[n + 1] /\ y2[n] = y[n + 1] /\ x2[n + 1] = x[(n + 1) + 1] /\ y2[n + 1] = y[(n + 1) + 1]
      BY <2>3, <3>1
    <3> QED BY <3>1, <3>2, <3>3 DEF IsToken, Follows
  <2>5. writer # "closed" => Ahead(msgs, rest, x2[Len(left) + 1], y2[Len(left) + 1])
    <3>1. Len(left) + 1 \in 1..size /\ (Len(left) + 1) + 1 = size + 1 /\ Len(left) + 1 = size /\ size \in 1..size
      BY <1>3
    <3>2. x2[Len(left) + 1] = x[size + 1] /\ y2[Len(left) + 1] = y[size + 1]
      BY <2>3, <3>1
    <3> QED BY <1>2, <3>2 DEF Tracked
  <2>6. IF b < last THEN x[2] = done + 1 /\ y[2] = b + 1 ELSE x[2] = done + 2 /\ y[2] = 1
    <3>1. 1 + 1 = 2 /\ (done + 1) + 1 = done + 2
      BY <1>1
    <3>2. IF y[1] < Len(msgs[done + 1]) THEN x[1 + 1] = done + 1 /\ y[1 + 1] = y[1] + 1
          ELSE x[1 + 1] = (done + 1) + 1 /\ y[1 + 1] = 1
      BY <1>4 DEF Follows
    <3> QED BY <3>1, <3>2 DEF msg, b
  <2>7. CASE b < last
    <3>1. read.frame = NoFrame
      <4>1. b \in 1..(last - 1)
        BY <1>9, <1>10, <2>7
      <4> QED BY <1>6, <2>1, <4>1 DEF Whole
    <3>2. ReadSoFar(msgs, done, read.open, y2[1])
      <4>1. y2[1] = b + 1 /\ b + 1 \in 1..last /\ (b + 1) - 1 = b /\ done < Len(msgs)
        BY <1>1, <1>5, <1>9, <1>10, <2>3, <2>6, <2>7
      <4>2. y2[1] \in 1..Len(msgs[done + 1]) /\ read.open = Reading(msgs[done + 1])[y2[1] - 1].open
        BY <2>1, <4>1 DEF msg
      <4> QED BY <4>1, <4>2 DEF ReadSoFar
    <3>3. x2[1] = done + 1
      BY <2>3, <2>6, <2>7
    <3>4. Tracked(left, msgs, done, read.open, writer, rest, x2, y2)
      BY <2>4, <2>5, <3>2, <3>3 DEF Tracked
    <3>5. Flow(left, msgs, done, read.open, writer, rest)
      BY <1>1, <3>4 DEF Flow
    <3> QED BY <2>2, <3>1, <3>5 DEF left
  <2>8. CASE ~(b < last)
    <3>1. b = last
      BY <1>9, <1>10, <2>8
    <3>2. ~Malformed(msg[last])
      BY <1>13, <3>1 DEF token
    <3>3. read.open = <<>> /\ read.frame # NoFrame
      BY <1>6, <2>1, <3>1, <3>2 DEF Whole
    <3>4. ReadSoFar(msgs, done + 1, read.open, y2[1])
      <4>1. y2[1] = 1
        BY <2>3, <2>6, <2>8
      <4>2. CASE done + 1 < Len(msgs)
        <5> DEFINE next == msgs[(done + 1) + 1]
        <5>1. Whole(next)
          BY <1>1, <4>2
        <5> HIDE DEF next
        <5>2. Len(next) \in Nat \ {0}
          BY <5>1, FrontLast DEF Whole
        <5>3. Reading(next)[0].open = <<>>
          BY <5>2, ReadingUnrolls
        <5>4. 1 \in 1..Len(next) /\ 1 - 1 = 0
          BY <5>2
        <5>5. y2[1] \in 1..Len(next) /\ read.open = Reading(next)[y2[1] - 1].open
          BY <3>3, <4>1, <5>3, <5>4
        <5> QED BY <4>2, <5>5 DEF ReadSoFar, next
      <4>3. CASE ~(done + 1 < Len(msgs))
        BY <3>3, <4>1, <4>3 DEF ReadSoFar
      <4> QED BY <4>2, <4>3
    <3>5. x2[1] = (done + 1) + 1
      BY <1>1, <2>3, <2>6, <2>8
    <3>6. Tracked(left, msgs, done + 1, read.open, writer, rest, x2, y2)
      BY <2>4, <2>5, <3>4, <3>5 DEF Tracked
    <3>7. Flow(left, msgs, done + 1, read.open, writer, rest)
      BY <1>1, <1>5, <3>6 DEF Flow
    <3>8. read.frame = Reading(msg)[last].frame
      BY <2>1, <3>1
    <3> QED BY <1>5, <2>2, <3>2, <3>3, <3>7, <3>8 DEF left, msg
  <2> QED BY <2>7, <2>8
<1>14. CASE writer = "closed" /\ size = 1 /\ done + 1 = Len(msgs) /\ token \in Cut(msg[b])
  <2>1. left = <<>>
    BY <1>3, <1>14
  <2>2. /\ Unfinished(read.open)
        /\ Reading(msg)[b].frame = NoFrame => read.frame = NoFrame
        /\ Reading(msg)[b].frame # NoFrame => Sensible(read.frame) /\ read.open = <<>>
    <3> DEFINE full == msg[b]
    <3>1. token \in Cut(full)
      BY <1>14
    <3> HIDE DEF full
    <3>2. /\ Unfinished(read_frame(arrays, token).open)
          /\ read_frame(arrays, full).frame = NoFrame => read_frame(arrays, token).frame = NoFrame
          /\ read_frame(arrays, full).frame # NoFrame =>
               Sensible(read_frame(arrays, token).frame) /\ read_frame(arrays, token).open = <<>>
      BY <1>11, <3>1, CutRead
    <3> QED BY <1>12, <3>2 DEF full, token
  <2>3. Flow(left, msgs, done, read.open, writer, rest) /\ Flow(left, msgs, done + 1, read.open, writer, rest)
    BY <1>1, <1>14, <2>1 DEF Flow
  <2>4. ASSUME read.frame # NoFrame PROVE read.frame \in CutShort(msg) /\ Sensible(read.frame)
    <3>1. Reading(msg)[b].frame # NoFrame
      BY <2>2, <2>4
    <3>2. b = last
      <4>1. b \notin 1..(last - 1)
        BY <1>6, <3>1 DEF Whole
      <4> QED BY <1>9, <1>10, <4>1
    <3>3. Last(msg) = msg[b] /\ arrays = Reading(msg)[last - 1].open
      BY <1>7, <3>2 DEF Last
    <3>4. read.frame = read_frame(arrays, token).frame
      BY DEF token
    <3>5. read.frame \in CutShort(msg)
      BY <1>14, <3>3, <3>4 DEF CutShort
    <3> QED BY <2>2, <3>1, <3>5
  <2> QED BY <1>5, <1>14, <2>2, <2>3, <2>4 DEF left, msg
<1> QED BY <1>8, <1>13, <1>14

----------------------------------------------------------------------------
(* Responses.                                                              *)

\* The frames the program responds with.
Shaped(frame) == IsTable(frame) \/ IsLine(frame)

LEMMA ErrorIsLine ==
  ASSUME NEW error
  PROVE  IsLine(error_frame(error))
<1>1. ASSUME NEW words PROVE IsLine(ErrorFrame(words))
  BY DEF IsLine
<1>2. CASE error = "WrongType"
  BY <1>1, <1>2 DEF error_frame
<1>3. CASE error = "OutOfMemory"
  BY <1>1, <1>3 DEF error_frame
<1>4. CASE error # "WrongType" /\ error # "OutOfMemory"
  BY <1>1, <1>4 DEF error_frame
<1> QED BY <1>2, <1>3, <1>4

LEMMA LinesNotErrors ==
  ASSUME NEW x
  PROVE  /\ IsLine(BulkFrame(x)) /\ BulkFrame(x)[1] # "error"
         /\ IsLine(IntegerFrame(x)) /\ IntegerFrame(x)[1] # "error"
         /\ IsLine(SimpleFrame(x)) /\ IsLine(NullFrame)
BY DEF IsLine, BulkFrame, IntegerFrame, SimpleFrame

\* The items of an array are numbered from one.
LEMMA NumberedIsSequence ==
  ASSUME NEW n \in Nat, NEW f, DOMAIN f = 1..n, f = [i \in 1..n |-> f[i]]
  PROVE  IsSequence(f) /\ Len(f) = n
<1> DEFINE S == {f[i] : i \in 1..n}
<1>1. [i \in 1..n |-> f[i]] \in Seq(S) /\ Len([i \in 1..n |-> f[i]]) = n
  OBVIOUS
<1>2. f \in Seq(S) /\ Len(f) = n
  BY <1>1
<1> QED BY <1>2 DEF IsSequence

LEMMA BulksShaped ==
  ASSUME NEW payloads, NEW n \in Nat, DOMAIN payloads = 1..n
  PROVE  Shaped(Bulks(payloads))
<1> DEFINE items == [i \in DOMAIN payloads |-> BulkFrame(payloads[i])]
<1>1. DOMAIN items = 1..n /\ items = [i \in 1..n |-> items[i]]
  OBVIOUS
<1>2. \A i \in 1..n : items[i] = BulkFrame(payloads[i])
  OBVIOUS
<1>3. Bulks(payloads) = ArrayFrame(items)
  BY DEF Bulks
<1> HIDE DEF items
<1>4. IsSequence(items) /\ Len(items) = n
  BY <1>1, NumberedIsSequence
<1>5. \A i \in 1..Len(items) : IsLine(items[i]) /\ items[i][1] # "error"
  BY <1>2, <1>4, LinesNotErrors
<1>6. IsRow(ArrayFrame(items))
  BY <1>4, <1>5 DEF IsRow
<1> QED BY <1>3, <1>6 DEF Shaped, IsTable

LEMMA InspectionIsRow ==
  ASSUME NEW row
  PROVE  IsRow(inspection_to_frame(row))
<1> DEFINE items == <<BulkFrame(row.key), BulkFrame(row.value_type), IntegerFrame(row.ttl_seconds),
                      IntegerFrame(row.payload_bytes), IntegerFrame(row.estimated_memory_bytes),
                      IntegerFrame(row.list_items)>>
<1>1. inspection_to_frame(row) = ArrayFrame(items)
  BY DEF inspection_to_frame
<1>2. IsSequence(items) /\ Len(items) = 6
  <2>1. \A a, b, c, d, f, g : <<a, b, c, d, f, g>> \in Seq({a, b, c, d, f, g}) /\ Len(<<a, b, c, d, f, g>>) = 6
    OBVIOUS
  <2> QED BY <2>1 DEF IsSequence
<1>3. /\ items[1] = BulkFrame(row.key) /\ items[2] = BulkFrame(row.value_type)
      /\ items[3] = IntegerFrame(row.ttl_seconds) /\ items[4] = IntegerFrame(row.payload_bytes)
      /\ items[5] = IntegerFrame(row.estimated_memory_bytes) /\ items[6] = IntegerFrame(row.list_items)
  OBVIOUS
<1> HIDE DEF items
<1>4. ASSUME NEW i \in 1..6 PROVE IsLine(items[i]) /\ items[i][1] # "error"
  <2>1. i = 1 \/ i = 2 \/ i = 3 \/ i = 4 \/ i = 5 \/ i = 6
    OBVIOUS
  <2> QED BY <1>3, <2>1, LinesNotErrors
<1> QED BY <1>1, <1>2, <1>4 DEF IsRow

\* What the store answers, by command.
LEMMA StoreReplies ==
  ASSUME NEW e \in EntriesType, NEW s \in CommandSpace, NEW o \in Execute(e, s, 0, 0)
  PROVE  \/ o.reply[1] = "error"
         \/ s.op = "SET" /\ o.reply[1] = "ok"
         \/ s.op = "LRANGE" /\ o.reply[1] = "array" /\ IsSequence(o.reply[2])
         \/ s.op = "INSPECT" /\ o.reply[1] = "array" /\ \E n \in Nat : DOMAIN o.reply[2] = 1..n
         \/ s.op = "STATS" /\ o.reply[1] = "stats"
         \/ s.op = "CLEANUP"
         \/ /\ s.op \notin {"SET", "LRANGE", "INSPECT", "STATS"}
            /\ o.reply[1] \in {"int", "bulk", "null"}
<1> DEFINE tag == o.reply[1]
<1>1. Runs(e, s, 0, 0, o)
  BY ExecuteCases
<1>2. /\ \A x : Integer(x)[1] = "int" /\ Bulk(x)[1] = "bulk" /\ Array(x)[1] = "array" /\ Array(x)[2] = x
      /\ Null[1] = "null" /\ WrongType[1] = "error" /\ OutOfMemory[1] = "error"
  BY DEF Integer, Bulk, Array, Null, WrongType, OutOfMemory
<1>3. \A f, r : Quiet(f, r).reply = r
  BY DEF Quiet, Outcome
<1>4. CASE s.op = "GET"
  <2> DEFINE e1 == remove_if_expired(e, s.key, 0)
             found == e1[s.key]
  <2>1. o = get(e, s.key, 0)
    BY <1>1, <1>4 DEF Runs
  <2>2. o.reply = IF found = None THEN Null
                  ELSE IF found.type = "string" THEN Bulk(found.items[1]) ELSE WrongType
    BY <1>3, <2>1 DEF get
  <2> HIDE DEF found
  <2> QED BY <1>2, <1>4, <2>2
<1>5. CASE s.op \in {"DEL", "EXISTS"}
  BY <1>1, <1>2, <1>3, <1>5 DEF Runs, del, exists
<1>6. CASE s.op \in {"EXPIRE", "EXPIREAT"}
  BY <1>1, <1>2, <1>3, <1>6 DEF Runs, expire_at
<1>7. CASE s.op = "TTL"
  BY <1>1, <1>2, <1>3, <1>7 DEF Runs, ttl
<1>8. CASE s.op = "PERSIST"
  BY <1>1, <1>2, <1>3, <1>8 DEF Runs, persist
<1>15. CASE s.op = "SET"
  <2>1. WriteEnds(s, remove_if_expired(e, s.key, 0), o)
    BY <1>15, WritesEnd DEF Writes
  <2>2. o.reply \in {WrongType, OutOfMemory, Ok}
    BY <1>15, <2>1 DEF WriteEnds, Written
  <2>3. Ok[1] = "ok"
    BY DEF Ok
  <2> QED BY <1>2, <1>15, <2>2, <2>3
<1>9. CASE s.op \in {"LPUSH", "RPUSH"}
  <2>1. WriteEnds(s, remove_if_expired(e, s.key, 0), o)
    BY <1>9, WritesEnd DEF Writes
  <2>2. o.reply \in {WrongType, OutOfMemory} \/ \E x : o.reply = Integer(x)
    BY <1>9, <2>1 DEF WriteEnds, Written
  <2> QED BY <1>2, <1>9, <2>2
<1>10. CASE s.op \in {"LPOP", "RPOP"}
  <2> DEFINE e1 == remove_if_expired(e, s.key, 0)
             items == e1[s.key].items
             rest == IF SideOf(s) = "left" THEN Tail(items) ELSE Front(items)
             left_over == IF rest = <<>> THEN Without(e1, {s.key}) ELSE [e1 EXCEPT ![s.key].items = rest]
             popped == IF SideOf(s) = "left" THEN Head(items) ELSE Last(items)
  <2>1. o = pop(e, s.key, SideOf(s), 0)
    BY <1>1, <1>10 DEF Runs
  <2>2. pop(e, s.key, SideOf(s), 0)
          = IF e1[s.key] = None THEN Quiet(e1, Null)
            ELSE IF e1[s.key].type # "list" THEN Quiet(e1, WrongType)
            ELSE Quiet(left_over, Bulk(popped))
    BY DEF pop
  <2> HIDE DEF e1, left_over, popped
  <2>3. o.reply \in {Null, WrongType, Bulk(popped)}
    BY <1>3, <2>1, <2>2
  <2> QED BY <1>2, <1>10, <2>3
<1>11. CASE s.op = "LRANGE"
  <2> DEFINE e1 == remove_if_expired(e, s.key, 0)
             items == e1[s.key].items
             range == normalize_range(Len(items), s.start, s.stop)
  <2>1. o = lrange(e, s.key, s.start, s.stop, 0)
    BY <1>1, <1>11 DEF Runs
  <2>2. o.reply = IF e1[s.key] = None THEN Array(<<>>)
                  ELSE IF e1[s.key].type # "list" THEN WrongType
                  ELSE Array(IF range = None THEN <<>> ELSE SubSeq(items, range[1] + 1, range[2] + 1))
    BY <1>3, <2>1 DEF lrange
  <2>3. s.key \in Keys /\ s.start \in Int /\ s.stop \in Int
    BY <1>11 DEF CommandSpace
  <2>4. IsSequence(<<>>)
    <3>1. <<>> \in Seq({})
      OBVIOUS
    <3> QED BY <3>1 DEF IsSequence
  <2>5. ASSUME e1[s.key] # None, range # None PROVE IsSequence(SubSeq(items, range[1] + 1, range[2] + 1))
    <3>1. items \in Seq(Values)
      BY <2>3, <2>5, RemoveIfExpiredType, EntryAt, EntryFields
    <3> HIDE DEF items
    <3>2. Len(items) \in Nat
      BY <3>1
    <3>3. \E p \in Nat, q \in Nat : range = <<p, q>> /\ p <= q /\ q < Len(items)
      BY <2>3, <2>5, <3>2 DEF normalize_range
    <3>4. PICK p \in Nat, q \in Nat : range = <<p, q>> /\ p <= q /\ q < Len(items)
      BY <3>3
    <3> HIDE DEF range
    <3>5. range[1] + 1 = p + 1 /\ range[2] + 1 = q + 1
      BY <3>4
    <3>6. SubSeq(items, p + 1, q + 1) \in Seq(Values)
      <4>1. \A i \in (p + 1)..(q + 1) : i \in 1..Len(items) /\ items[i] \in Values
        BY <3>1, <3>2, <3>4
      <4> QED BY <3>1, <4>1
    <3> QED BY <3>5, <3>6 DEF IsSequence
  <2> HIDE DEF e1, items, range
  <2> QED BY <1>2, <1>11, <2>2, <2>4, <2>5
<1>12. CASE s.op = "INSPECT"
  <2>1. s.limit \in Nat
    BY <1>12 DEF CommandSpace
  <2>2. o = inspect_keys(e, s.limit, 0)
    BY <1>1, <1>12 DEF Runs
  <2>3. o.reply[1] = "array" /\ \E n \in 0..s.limit : DOMAIN o.reply[2] = 1..n
    BY <2>1, <2>2, InspectedRows
  <2>4. \A n \in 0..s.limit : n \in Nat
    BY <2>1
  <2> QED BY <1>12, <2>3, <2>4
<1>13. CASE s.op = "STATS"
  BY <1>1, <1>13 DEF Runs, stats, Outcome
<1>14. s.op \in {"SET", "GET", "DEL", "EXISTS", "EXPIRE", "EXPIREAT", "TTL", "PERSIST", "LPUSH",
                 "RPUSH", "LPOP", "RPOP", "LRANGE", "STATS", "INSPECT", "CLEANUP"}
  BY CommandFields
<1> QED BY <1>4, <1>5, <1>6, <1>7, <1>8, <1>9, <1>10, <1>11, <1>12, <1>13, <1>14, <1>15

LEMMA RenamedOp ==
  ASSUME NEW c, NEW op, [c EXCEPT !.op = op] \in CommandSpace
  PROVE  [c EXCEPT !.op = op].op = op
<1>1. \A s \in CommandSpace : "op" \in DOMAIN s
  BY DEF CommandSpace
<1>2. "op" \in DOMAIN [c EXCEPT !.op = op]
  BY <1>1
<1>3. DOMAIN [c EXCEPT !.op = op] = DOMAIN c
  OBVIOUS
<1> QED BY <1>2, <1>3

LEMMA ResponseShaped ==
  ASSUME NEW e \in EntriesType, NEW c, c.op \in StoreCommands, NEW s \in CommandSpace,
         s.op = StoreOp(c.op), NEW o \in Execute(e, s, 0, 0)
  PROVE  Shaped(response(c, o.reply, None))
<1> DEFINE r == response(c, o.reply, None)
           payload == o.reply[2]
<1>1. /\ c.op = "DBSIZE" => s.op = "STATS"
      /\ c.op = "AERUGO.INSPECT" => s.op = "INSPECT"
      /\ c.op \notin {"DBSIZE", "AERUGO.INSPECT"} =>
           s.op = c.op /\ s.op \notin {"STATS", "INSPECT", "CLEANUP"}
  BY DEF StoreOp, StoreCommands
<1>2. \/ o.reply[1] = "error"
      \/ s.op = "SET" /\ o.reply[1] = "ok"
      \/ s.op = "LRANGE" /\ o.reply[1] = "array" /\ IsSequence(payload)
      \/ s.op = "INSPECT" /\ o.reply[1] = "array" /\ \E n \in Nat : DOMAIN payload = 1..n
      \/ s.op = "STATS" /\ o.reply[1] = "stats"
      \/ /\ s.op \notin {"SET", "LRANGE", "INSPECT", "STATS"}
         /\ o.reply[1] \in {"int", "bulk", "null"}
  <2>1. s.op # "CLEANUP"
    BY <1>1
  <2> QED BY <2>1, StoreReplies
<1> HIDE DEF payload
<1>3. \A x : /\ Shaped(BulkFrame(x)) /\ Shaped(IntegerFrame(x)) /\ Shaped(SimpleFrame(x))
             /\ Shaped(error_frame(x)) /\ Shaped(NullFrame)
  BY LinesNotErrors, ErrorIsLine DEF Shaped
<1>4. IsSequence(payload) => Shaped(Bulks(payload))
  <2>1. ASSUME IsSequence(payload) PROVE Len(payload) \in Nat /\ DOMAIN payload = 1..Len(payload)
    BY <2>1, AppendIs
  <2> QED BY <2>1, BulksShaped
<1> DEFINE rows == [i \in DOMAIN payload |-> inspection_to_frame(payload[i])]
<1>5. ASSUME NEW n \in Nat, DOMAIN payload = 1..n PROVE Shaped(ArrayFrame(rows))
  <2>1. DOMAIN rows = 1..n /\ rows = [i \in 1..n |-> rows[i]]
    BY <1>5
  <2>2. \A i \in 1..n : rows[i] = inspection_to_frame(payload[i])
    BY <1>5
  <2> HIDE DEF rows
  <2>3. IsSequence(rows) /\ Len(rows) = n
    BY <2>1, NumberedIsSequence
  <2>4. \A i \in 1..Len(rows) : IsRow(rows[i])
    BY <2>2, <2>3, InspectionIsRow
  <2> QED BY <2>3, <2>4 DEF Shaped, IsTable
<1>6. CASE o.reply[1] = "error"
  <2>1. r = error_frame(payload)
    BY <1>6 DEF response, payload
  <2> QED BY <1>3, <2>1
<1> DEFINE f == success_frame(c, o.reply, None)
           tag == o.reply[1]
<1>7. tag # "error" => r = f
  BY DEF response
<1> HIDE DEF f, r, tag
<1>8. CASE tag # "error" /\ c.op = "SET"
  <2>1. tag = "ok"
    BY <1>1, <1>2, <1>8 DEF tag
  <2>2. f = SimpleFrame("OK")
    BY ONLY <1>8, <2>1 DEF success_frame, f, tag
  <2> QED BY <1>3, <1>7, <1>8, <2>2 DEF r
<1>9. CASE tag # "error" /\ c.op = "LRANGE"
  <2>1. tag = "array" /\ IsSequence(payload)
    BY <1>1, <1>2, <1>9 DEF tag
  <2>2. f = Bulks(payload)
    BY ONLY <1>9, <2>1 DEF success_frame, f, tag, payload
  <2> QED BY <1>4, <1>7, <1>9, <2>1, <2>2 DEF r
<1>10. CASE tag # "error" /\ c.op = "AERUGO.INSPECT"
  <2>1. tag = "array" /\ \E n \in Nat : DOMAIN payload = 1..n
    BY <1>1, <1>2, <1>10 DEF tag
  <2>2. f = ArrayFrame(rows)
    BY ONLY <1>10, <2>1 DEF success_frame, f, tag, payload
  <2> HIDE DEF rows
  <2> QED BY <1>5, <1>7, <1>10, <2>1, <2>2 DEF r
<1>11. CASE tag # "error" /\ c.op = "DBSIZE"
  <2>1. tag = "stats"
    BY <1>1, <1>2, <1>11 DEF tag
  <2> DEFINE total == payload.total_keys
  <2>2. f = IntegerFrame(total)
    BY ONLY <1>11, <2>1 DEF success_frame, f, tag, payload
  <2> HIDE DEF total
  <2> QED BY <1>3, <1>7, <1>11, <2>2 DEF r
<1>12. CASE /\ tag # "error"
            /\ c.op \notin {"SET", "LRANGE", "AERUGO.INSPECT", "DBSIZE", "INFO", "AERUGO.STATS"}
  <2>1. tag \in {"int", "bulk", "null"}
    BY <1>1, <1>2, <1>12 DEF tag
  <2>2. f \in {IntegerFrame(payload), BulkFrame(payload), NullFrame}
    BY ONLY <1>12, <2>1 DEF success_frame, f, tag, payload
  <2> QED BY <1>3, <1>7, <1>12, <2>2 DEF r
<1>13. c.op \notin {"INFO", "AERUGO.STATS"}
  BY DEF StoreCommands
<1> QED BY <1>6, <1>8, <1>9, <1>10, <1>11, <1>12, <1>13 DEF r, tag

\* What a request that the store understands may be answered.
LEMMA HandledOK ==
  ASSUME entries \in EntriesType, Sound(entries), NEW frame, Understood(frame), NEW h \in Handled(frame)
  PROVE  h[1] \in EntriesType /\ Sound(h[1]) /\ Shaped(h[2])
<1> DEFINE c == from_frame(frame)
           s == [c EXCEPT !.op = StoreOp(c.op)]
<1>1. h \in (IF Failed(c) THEN {<<entries, error_frame(c.error)>>} ELSE Executed(c))
  BY DEF Handled
<1>2. \/ Failed(c) \/ c.op \in {"PING", "ECHO"}
      \/ c.op \in StoreCommands /\ s \in CommandSpace
  BY DEF Understood
<1> HIDE DEF c
<1>3. ASSUME NEW x, NEW y, h = <<x, y>> PROVE h[1] = x /\ h[2] = y
  BY <1>3
<1>4. CASE Failed(c)
  <2>1. h = <<entries, error_frame(c.error)>>
    BY <1>1, <1>4
  <2>2. h[1] = entries /\ h[2] = error_frame(c.error)
    BY <1>3, <2>1
  <2> QED BY <2>2, ErrorIsLine DEF Shaped
<1>5. CASE ~Failed(c) /\ c.op \in {"PING", "ECHO"}
  <2>1. h = <<entries, own_response(c)>>
    BY <1>1, <1>5 DEF Executed
  <2>2. h[1] = entries /\ h[2] = own_response(c)
    BY <1>3, <2>1
  <2>3. IsLine(own_response(c))
    BY LinesNotErrors DEF own_response
  <2> QED BY <2>2, <2>3 DEF Shaped
<1>6. CASE ~Failed(c) /\ c.op \notin {"PING", "ECHO"}
  <2>1. c.op \in StoreCommands /\ s \in CommandSpace /\ s.op = StoreOp(c.op)
    BY <1>2, <1>6, RenamedOp
  <2>2. h \in {<<o.entries, response(c, o.reply, None)>> : o \in Execute(entries, s, 0, 0)}
    BY <1>1, <1>6 DEF Executed
  <2> HIDE DEF s
  <2>3. PICK o \in Execute(entries, s, 0, 0) : h = <<o.entries, response(c, o.reply, None)>>
    BY <2>2
  <2>4. h[1] = o.entries /\ h[2] = response(c, o.reply, None)
    BY <1>3, <2>3
  <2>5. o.entries \in EntriesType /\ Sound(o.entries)
    BY <2>1, ExecutedOK, ZeroIsTime
  <2>6. Shaped(response(c, o.reply, None))
    BY <2>1, ResponseShaped
  <2> QED BY <2>4, <2>5, <2>6
<1> QED BY <1>4, <1>5, <1>6

\* A response is a whole message, and an error line arrives as an inline command.
LEMMA ShapedIsWhole ==
  ASSUME NEW frame, Shaped(frame), NEW msg, msg = write_frame(frame)
  PROVE  /\ Whole(msg)
         /\ Plain(msg)
         /\ Reading(msg)[Len(msg)].frame = Arrives(frame)
         /\ Sensible(Arrives(frame))
<1>1. Sends(msg, Arrives(frame)) /\ Sensible(Arrives(frame))
  <2>1. CASE IsLine(frame)
    <3>1. Arrives(frame) = AsRead(frame)
      BY DEF Arrives, AsRead
    <3>2. Sensible(FrameOf(Line(frame))) /\ FrameOf(Line(frame)) = AsRead(frame)
      BY <2>1, LineRead, LineIsSensible
    <3> QED BY <2>1, <3>1, <3>2, LineSends
  <2>2. CASE ~IsLine(frame)
    <3>1. IsTable(frame) /\ \E items : frame = ArrayFrame(items)
      BY <2>2 DEF Shaped, IsTable, IsRow
    <3>2. PICK items : frame = <<"array", items>>
      BY <3>1 DEF ArrayFrame
    <3>3. frame[1] = "array" /\ frame # NoFrame
      <4>1. Len(<<"array", items>>) = 2 /\ Len(<<>>) = 0 /\ <<"array", items>>[1] = "array"
        OBVIOUS
      <4> QED BY <3>2, <4>1 DEF NoFrame
    <3>4. Arrives(frame) = frame
      BY <3>3 DEF Arrives
    <3> QED BY <3>1, <3>3, <3>4, TableSends DEF Sensible
  <2> QED BY <2>1, <2>2
<1>2. /\ Len(msg) \in Nat \ {0}
      /\ \A i \in 1..(Len(msg) - 1) : Reading(msg)[i].frame = NoFrame
      /\ Reading(msg)[Len(msg)] = [open |-> <<>>, frame |-> Arrives(frame)]
  BY <1>1, SendsReading
<1>3. IsSequence(msg) /\ msg # <<>> /\ Headed(msg) /\ \A i \in 1..Len(msg) : ~Malformed(msg[i])
  BY <1>1 DEF Sends
<1>4. Reading(msg)[Len(msg)].open = <<>> /\ Reading(msg)[Len(msg)].frame = Arrives(frame)
  BY <1>2
<1> QED BY <1>1, <1>2, <1>3, <1>4 DEF Whole, Plain, Sensible

\* So is a request, if it parses to the end, and its frame is the one meant.
LEMMA RequestIsWhole ==
  ASSUME NEW r \in Requests
  PROVE  /\ Whole(r.tokens)
         /\ ~Malformed(r.tokens[Len(r.tokens)]) =>
              Reading(r.tokens)[Len(r.tokens)].frame = r.frame /\ Understood(r.frame)
         /\ \A frame \in CutShort(r.tokens) : Sensible(frame) => Understood(frame)
<1> DEFINE msg == r.tokens
<1>1. Complete(msg, r.frame)
  BY SessionAssumption
<1>2. ~Malformed(Last(msg)) => \A frame \in {r.frame} \cup CutShort(msg) : Understood(frame)
  BY SessionAssumption
<1> HIDE DEF msg
<1>3. msg \in Seq(ToSet(msg)) /\ msg # <<>>
  BY <1>1 DEF Complete
<1>4. IsSequence(msg) /\ Len(msg) \in Nat \ {0} /\ Last(msg) = msg[Len(msg)]
  BY <1>3 DEF IsSequence, Last
<1>5. Headed(msg)
  <2>1. \A i \in 1..Len(msg) : msg[i] \in ToSet(msg)
    BY <1>4, AppendIs DEF ToSet
  <2> QED BY <1>1, <2>1 DEF Headed, Complete
<1>6. \A i \in 1..(Len(msg) - 1) : ~Malformed(msg[i]) /\ Reading(msg)[i].frame = NoFrame
  BY <1>1 DEF Complete
<1>7. ASSUME ~Malformed(msg[Len(msg)])
      PROVE  /\ Reading(msg)[Len(msg)].open = <<>> /\ Reading(msg)[Len(msg)].frame = r.frame
             /\ r.frame # NoFrame
  <2>1. Reading(msg)[Len(msg)] = [open |-> <<>>, frame |-> r.frame] /\ r.frame # NoFrame
    BY <1>1, <1>4, <1>7 DEF Complete
  <2> QED BY <2>1
<1>8. Whole(msg)
  BY <1>3, <1>4, <1>5, <1>6, <1>7 DEF Whole
<1>9. ASSUME NEW frame \in CutShort(msg) PROVE Understood(frame)
  <2>1. PICK t : t \in Cut(Last(msg))
    BY DEF CutShort
  <2>2. ~Malformed(Last(msg))
    BY <2>1 DEF Malformed, Cut
  <2> QED BY <1>2, <2>2
<1> QED BY <1>2, <1>4, <1>7, <1>8, <1>9 DEF msg

\* Where no message holds a token that does not parse, none is under way.
LEMMA FlowPlain ==
  ASSUME NEW stream, IsSequence(stream), stream # <<>>,
         NEW msgs, Len(msgs) \in Nat, \A n \in 1..Len(msgs) : Plain(msgs[n]),
         NEW done, NEW arrays, NEW writer, NEW rest, Flow(stream, msgs, done, arrays, writer, rest)
  PROVE  ~Malformed(Head(stream))
<1>1. PICK x, y : Tracked(stream, msgs, done, arrays, writer, rest, x, y)
  BY DEF Flow
<1>2. Len(stream) \in Nat \ {0} /\ Head(stream) = stream[1]
  BY TailIs
<1>3. IsToken(stream, msgs, x, y, writer, 1)
  BY <1>1, <1>2 DEF Tracked
<1> DEFINE token == msgs[x[1]][y[1]]
<1>4. ~Malformed(token)
  BY <1>3 DEF IsToken, Plain
<1>5. stream[1] = token \/ stream[1] \in Cut(token)
  BY <1>3 DEF IsToken
<1> HIDE DEF token
<1>6. ASSUME stream[1] \in Cut(token) PROVE ~Malformed(stream[1])
  BY <1>6, NoArrays, CutRead
<1> QED BY <1>2, <1>4, <1>5, <1>6

\* A writer that begins or ends a message is as alive as before.
LEMMA FlowOn ==
  ASSUME NEW stream, NEW msgs, NEW done, NEW arrays, NEW writer, writer # "closed", NEW rest,
         Flow(stream, msgs, done, arrays, writer, rest), NEW after, after # "closed"
  PROVE  Flow(stream, msgs, done, arrays, after, rest)
<1>1. PICK x, y : Tracked(stream, msgs, done, arrays, writer, rest, x, y)
  BY DEF Flow
<1>2. ASSUME NEW n \in 1..Len(stream) PROVE IsToken(stream, msgs, x, y, after, n) /\ Follows(msgs, x, y, n)
  BY <1>1 DEF Tracked, IsToken
<1>3. Tracked(stream, msgs, done, arrays, after, rest, x, y)
  BY <1>1, <1>2 DEF Tracked
<1> QED BY <1>3 DEF Flow

----------------------------------------------------------------------------
(* The invariant.                                                          *)

\* The messages of the two directions: what was asked, and the responses.
SentBy(s) == [n \in 1..Len(s) |-> s[n].tokens]
AnswersTo(s) == [n \in 1..Len(s) |-> write_frame(s[n].response)]

LEMMA SentByIs ==
  ASSUME NEW s, Len(s) \in Nat
  PROVE  Len(SentBy(s)) = Len(s) /\ \A n \in 1..Len(s) : SentBy(s)[n] = s[n].tokens
BY NumberedIsSequence DEF SentBy

LEMMA AnswersToIs ==
  ASSUME NEW s, Len(s) \in Nat
  PROVE  Len(AnswersTo(s)) = Len(s) /\ \A n \in 1..Len(s) : AnswersTo(s)[n] = write_frame(s[n].response)
BY NumberedIsSequence DEF AnswersTo

Ends ==
  /\ client \in {"open", "closed"} /\ window \in Windows
  /\ server \in {"reading", "writing", "closed"}
  /\ server # "closed" => (reply # <<>> <=> server = "writing")

Histories ==
  /\ IsSequence(asked) /\ \A n \in 1..Len(asked) : asked[n] \in Requests
  /\ IsSequence(served) /\ \A n \in 1..Len(served) : Shaped(served[n].response)
  /\ IsSequence(got)
  /\ IsSequence(outbox) /\ IsSequence(reply)

\* Neither direction takes more than it holds, but for the last line of a writer
\* that dies.
Room ==
  /\ IsSequence(up) /\ Len(up) <= Capacity + 1 /\ (client = "open" => Len(up) <= Capacity)
  /\ IsSequence(down) /\ Len(down) <= Capacity + 1 /\ (server # "closed" => Len(down) <= Capacity)

Upward == Flow(up, SentBy(asked), Len(served), open, client, outbox)

\* Nobody reads what arrives for a client that is gone.
Downward == client = "open" => Flow(down, AnswersTo(served), Len(got), inbox, server, reply)

ArraysOpen == Unfinished(open) /\ Unfinished(inbox)

StoreSound == entries \in EntriesType /\ Sound(entries)

Inv ==
  /\ Ends /\ Histories /\ Room /\ Upward /\ Downward /\ ArraysOpen /\ StoreSound
  /\ OnlyWholeRequestsRun /\ AnswersMatch

LEMMA InvInit == Init => Inv
<1> SUFFICES ASSUME Init PROVE Inv
  OBVIOUS
<1> USE DEF Init
<1>1. IsSequence(<<>>) /\ Len(<<>>) = 0 /\ DOMAIN <<>> = {}
  BY NoArrays DEF Unfinished
<1>2. Ends
  BY DEF Ends
<1>3. Histories
  BY <1>1 DEF Histories
<1>4. Room
  BY <1>1, SessionAssumption DEF Room
<1>5. Upward
  <2> DEFINE m == SentBy(<<>>)
  <2>1. Len(m) = 0
    BY <1>1, SentByIs
  <2> HIDE DEF m
  <2>2. Flow(<<>>, m, 0, <<>>, client, <<>>)
    BY <2>1, FlowInit
  <2> QED BY <1>1, <2>2 DEF Upward, m
<1>6. Downward
  <2> DEFINE m == AnswersTo(<<>>)
  <2>1. Len(m) = 0
    BY <1>1, AnswersToIs
  <2> HIDE DEF m
  <2>2. Flow(<<>>, m, 0, <<>>, server, <<>>)
    BY <2>1, FlowInit
  <2> QED BY <1>1, <2>2 DEF Downward, m
<1>7. ArraysOpen
  BY NoArrays DEF ArraysOpen
<1>8. StoreSound
  BY NoKeysSound DEF StoreSound
<1>9. OnlyWholeRequestsRun /\ AnswersMatch
  BY <1>1 DEF OnlyWholeRequestsRun, AnswersMatch
<1> QED BY <1>2, <1>3, <1>4, <1>5, <1>6, <1>7, <1>8, <1>9 DEF Inv

\* The messages of both directions are whole.
LEMMA MessagesWhole ==
  ASSUME Histories
  PROVE  /\ Len(asked) \in Nat /\ Len(SentBy(asked)) = Len(asked)
         /\ \A n \in 1..Len(asked) : SentBy(asked)[n] = asked[n].tokens /\ Whole(SentBy(asked)[n])
         /\ Len(served) \in Nat /\ Len(AnswersTo(served)) = Len(served)
         /\ \A n \in 1..Len(served) : /\ AnswersTo(served)[n] = write_frame(served[n].response)
                                      /\ Whole(AnswersTo(served)[n]) /\ Plain(AnswersTo(served)[n])
<1>1. Len(asked) \in Nat /\ Len(served) \in Nat
  BY AppendIs DEF Histories
<1>2. ASSUME NEW n \in 1..Len(asked) PROVE SentBy(asked)[n] = asked[n].tokens /\ Whole(SentBy(asked)[n])
  <2>1. SentBy(asked)[n] = asked[n].tokens
    BY <1>1, SentByIs
  <2>2. asked[n] \in Requests
    BY DEF Histories
  <2> QED BY <2>1, <2>2, RequestIsWhole
<1>3. ASSUME NEW n \in 1..Len(served)
      PROVE  /\ AnswersTo(served)[n] = write_frame(served[n].response)
             /\ Whole(AnswersTo(served)[n]) /\ Plain(AnswersTo(served)[n])
  <2>1. AnswersTo(served)[n] = write_frame(served[n].response)
    BY <1>1, AnswersToIs
  <2>2. Shaped(served[n].response)
    BY DEF Histories
  <2> QED BY <2>1, <2>2, ShapedIsWhole
<1> QED BY <1>1, <1>2, <1>3, SentByIs, AnswersToIs

----------------------------------------------------------------------------
(* The steps of the client.                                                *)

LEMMA BeginKeeps ==
  ASSUME Inv, NEW r \in Requests, Begin(r)
  PROVE  Inv'
<1>1. /\ Ends /\ Histories /\ Room /\ Upward /\ Downward /\ ArraysOpen /\ StoreSound
      /\ OnlyWholeRequestsRun /\ AnswersMatch
  BY DEF Inv
<1>2. /\ client = "open" /\ outbox = <<>> /\ asked' = Append(asked, r) /\ outbox' = r.tokens
      /\ UNCHANGED <<client, inbox, got, window, up, down, server, open, reply, served, entries>>
  BY DEF Begin, serverVars
<1>3. /\ Len(asked) \in Nat /\ Len(SentBy(asked)) = Len(asked)
      /\ \A n \in 1..Len(asked) : SentBy(asked)[n] = asked[n].tokens
      /\ DOMAIN served = 1..Len(served) /\ Len(served) \in Nat
  BY <1>1, MessagesWhole, AppendIs DEF Histories
<1>4. /\ IsSequence(asked') /\ Len(asked') = Len(asked) + 1 /\ asked'[Len(asked) + 1] = r
      /\ \A n \in 1..Len(asked) : asked'[n] = asked[n]
  BY <1>1, <1>2, AppendIs DEF Histories
<1>5. Whole(r.tokens)
  BY RequestIsWhole
<1>6. Histories'
  <2>1. ASSUME NEW n \in 1..Len(asked') PROVE asked'[n] \in Requests
    <3>1. n \in 1..Len(asked) \/ n = Len(asked) + 1
      BY <1>3, <1>4
    <3> QED BY <1>1, <1>4, <3>1 DEF Histories
  <2>2. IsSequence(outbox')
    BY <1>2, <1>5 DEF Whole
  <2> QED BY <1>1, <1>2, <1>4, <2>1, <2>2 DEF Histories
<1>7. Upward'
  <2> DEFINE msgs == SentBy(asked)
             more == SentBy(asked')
             msg == r.tokens
             done == Len(served)
  <2>1. Len(more) = Len(asked) + 1 /\ \A n \in 1..(Len(asked) + 1) : more[n] = asked'[n].tokens
    BY <1>3, <1>4, SentByIs
  <2>2. more[Len(asked) + 1] = msg /\ Len(more) = Len(msgs) + 1
    BY <1>3, <1>4, <2>1
  <2>3. \A n \in 1..Len(msgs) : more[n] = msgs[n]
    BY <1>3, <1>4, <2>1
  <2>4. Flow(up, msgs, done, open, client, <<>>) /\ client # "closed"
    BY <1>1, <1>2 DEF Upward
  <2>5. Len(up) \in Nat /\ Len(msgs) \in Nat /\ more[Len(msgs) + 1] = msg
    BY <1>1, <1>3, <2>2, AppendIs DEF Room
  <2>6. Whole(msg)
    BY <1>5
  <2> HIDE DEF msgs, more, msg, done
  <2>7. Flow(up, more, done, open, client, msg)
    BY <2>2, <2>3, <2>4, <2>5, <2>6, FlowBegin
  <2> QED BY <1>2, <2>7 DEF Upward, more, msg, done
<1>8. Ends' /\ Room' /\ Downward' /\ ArraysOpen' /\ StoreSound' /\ AnswersMatch'
  BY <1>1, <1>2 DEF Ends, Room, Downward, ArraysOpen, StoreSound, AnswersMatch
<1>9. OnlyWholeRequestsRun'
  <2>1. Len(served) <= Len(asked) /\ \A n \in DOMAIN served : served[n].request = asked[n].frame
    BY <1>1, <1>2 DEF OnlyWholeRequestsRun
  <2>2. \A n \in DOMAIN served : asked'[n] = asked[n]
    BY <1>3, <1>4, <2>1
  <2>3. Len(served) <= Len(asked')
    BY <1>3, <1>4, <2>1
  <2> QED BY <1>2, <2>1, <2>2, <2>3 DEF OnlyWholeRequestsRun
<1> QED BY <1>6, <1>7, <1>8, <1>9 DEF Inv

LEMMA ClientWriteKeeps ==
  ASSUME Inv, ClientWrite
  PROVE  Inv'
<1>1. /\ Ends /\ Histories /\ Room /\ Upward /\ Downward /\ ArraysOpen /\ StoreSound
      /\ OnlyWholeRequestsRun /\ AnswersMatch
  BY DEF Inv
<1>2. /\ client = "open" /\ outbox # <<>> /\ Len(up) < Capacity
      /\ up' = Append(up, Head(outbox)) /\ outbox' = Tail(outbox)
      /\ UNCHANGED <<client, asked, inbox, got, window, down, server, open, reply, served, entries>>
  BY DEF ClientWrite, serverVars
<1>3. IsSequence(up) /\ IsSequence(outbox)
  BY <1>1 DEF Room, Histories
<1>4. Histories'
  BY <1>1, <1>2, <1>3, TailIs DEF Histories
<1>5. Room'
  <2>1. IsSequence(up') /\ Len(up) \in Nat /\ Len(up') = Len(up) + 1
    BY <1>2, <1>3, AppendIs
  <2> QED BY <1>1, <1>2, <2>1, SessionAssumption DEF Room
<1>6. Upward'
  <2> DEFINE msgs == SentBy(asked)
             done == Len(served)
  <2>1. Len(msgs) \in Nat /\ \A n \in 1..Len(msgs) : Whole(msgs[n])
    BY <1>1, MessagesWhole
  <2>2. Flow(up, msgs, done, open, client, outbox) /\ client # "closed"
    BY <1>1, <1>2 DEF Upward
  <2> HIDE DEF msgs, done
  <2>3. Flow(Append(up, Head(outbox)), msgs, done, open, client, Tail(outbox))
    BY <1>2, <1>3, <2>1, <2>2, FlowWrite
  <2> QED BY <1>2, <2>3 DEF Upward, msgs, done
<1>7. /\ Ends' /\ Downward' /\ ArraysOpen' /\ StoreSound'
      /\ OnlyWholeRequestsRun' /\ AnswersMatch'
  BY <1>1, <1>2 DEF Ends, Downward, ArraysOpen, StoreSound, OnlyWholeRequestsRun, AnswersMatch
<1> QED BY <1>4, <1>5, <1>6, <1>7 DEF Inv

\* A client that is gone has sent what it sent, a part of its last line perhaps.
LEMMA ClientEndsKeeps ==
  ASSUME Inv, ClientFails \/ ClientDrops
  PROVE  Inv'
<1>1. /\ Ends /\ Histories /\ Room /\ Upward /\ Downward /\ ArraysOpen /\ StoreSound
      /\ OnlyWholeRequestsRun /\ AnswersMatch
  BY DEF Inv
<1>2. /\ client = "open" /\ client' = "closed"
      /\ UNCHANGED <<asked, outbox, inbox, got, window, down, server, open, reply, served, entries>>
      /\ \/ up' = up
         \/ outbox # <<>> /\ \E part \in Cut(Head(outbox)) : up' = Append(up, part)
  BY DEF ClientFails, ClientDrops, serverVars
<1>3. IsSequence(up) /\ Len(up) <= Capacity /\ Len(up) \in Nat
  BY <1>1, <1>2, AppendIs DEF Room
<1> DEFINE msgs == SentBy(asked)
           done == Len(served)
<1>4. Len(msgs) \in Nat /\ \A n \in 1..Len(msgs) : Whole(msgs[n])
  BY <1>1, MessagesWhole
<1>5. Flow(up, msgs, done, open, client, outbox) /\ client # "closed"
  BY <1>1, <1>2 DEF Upward
<1> HIDE DEF msgs, done
<1>6. Flow(up', msgs, done, open, "closed", outbox) /\ IsSequence(up') /\ Len(up') <= Capacity + 1
  <2>1. CASE up' = up
    <3>1. Flow(up, msgs, done, open, "closed", outbox)
      BY <1>5, FlowEnds
    <3> QED BY <1>3, <2>1, <3>1, SessionAssumption
  <2>2. CASE outbox # <<>> /\ \E part \in Cut(Head(outbox)) : up' = Append(up, part)
    <3>1. PICK part \in Cut(Head(outbox)) : up' = Append(up, part)
      BY <2>2
    <3>2. Flow(Append(up, part), msgs, done, open, "closed", outbox)
      BY <1>3, <1>4, <1>5, <2>2, FlowBreaks
    <3>3. IsSequence(Append(up, part)) /\ Len(Append(up, part)) = Len(up) + 1
      BY <1>3, AppendIs
    <3> QED BY <1>3, <3>1, <3>2, <3>3, SessionAssumption
  <2> QED BY <1>2, <2>1, <2>2
<1>7. Upward'
  BY <1>2, <1>6 DEF Upward, msgs, done
<1>8. Room'
  BY <1>1, <1>2, <1>6 DEF Room
<1>9. Ends' /\ Histories' /\ Downward' /\ ArraysOpen' /\ StoreSound' /\ AnswersMatch'
  BY <1>1, <1>2 DEF Ends, Histories, Downward, ArraysOpen, StoreSound, AnswersMatch
<1>10. OnlyWholeRequestsRun'
  BY <1>1, <1>2 DEF OnlyWholeRequestsRun
<1> QED BY <1>7, <1>8, <1>9, <1>10 DEF Inv

LEMMA ClientReadKeeps ==
  ASSUME Inv, ClientRead
  PROVE  Inv'
<1>1. /\ Ends /\ Histories /\ Room /\ Upward /\ Downward /\ ArraysOpen /\ StoreSound
      /\ OnlyWholeRequestsRun /\ AnswersMatch
  BY DEF Inv
<1> DEFINE read == read_frame(inbox, Head(down))
           frame == read.frame
<1>2. /\ client = "open" /\ down # <<>> /\ down' = Tail(down)
      /\ inbox' = read.open
      /\ got' = IF frame = NoFrame THEN got ELSE Append(got, Outcome_(frame))
      /\ UNCHANGED <<client, asked, outbox, window, up, server, open, reply, served, entries>>
  BY DEF ClientRead, Awaits, serverVars
<1> DEFINE msgs == AnswersTo(served)
           done == Len(got)
<1>3. /\ Len(msgs) \in Nat /\ Len(msgs) = Len(served)
      /\ \A n \in 1..Len(msgs) : Whole(msgs[n]) /\ Plain(msgs[n]) /\ msgs[n] = write_frame(served[n].response)
  BY <1>1, MessagesWhole
<1>4. Flow(down, msgs, done, inbox, server, reply) /\ IsSequence(down)
  BY <1>1, <1>2 DEF Downward, Room
<1> HIDE DEF read, msgs, done
<1>5. ~Malformed(Head(down))
  <2>1. \A n \in 1..Len(msgs) : Plain(msgs[n])
    BY <1>3
  <2> QED BY <1>2, <1>3, <1>4, <2>1, FlowPlain
<1>6. /\ Unfinished(read.open)
      /\ read.frame = NoFrame => Flow(Tail(down), msgs, done, read.open, server, reply)
      /\ read.frame # NoFrame =>
           /\ done + 1 \in 1..Len(msgs)
           /\ Flow(Tail(down), msgs, done + 1, read.open, server, reply)
           /\ \/ /\ read.frame = Reading(msgs[done + 1])[Len(msgs[done + 1])].frame
                 /\ ~Malformed(msgs[done + 1][Len(msgs[done + 1])])
              \/ /\ server = "closed" /\ done + 1 = Len(msgs)
                 /\ read.frame \in CutShort(msgs[done + 1]) /\ Sensible(read.frame)
  <2>1. read = read_frame(inbox, Head(down)) /\ \A n \in 1..Len(msgs) : Whole(msgs[n])
    BY <1>3 DEF read
  <2> QED BY <1>2, <1>3, <1>4, <1>5, <2>1, FlowRead
<1>7. IsSequence(got) /\ done \in Nat /\ DOMAIN got = 1..done
  BY <1>1, AppendIs DEF Histories, done
<1>8. Room' /\ ArraysOpen'
  <2>1. IsSequence(down') /\ Len(down') = Len(down) - 1 /\ Len(down) \in Nat
    BY <1>2, <1>4, TailIs
  <2> QED BY <1>1, <1>2, <1>6, <2>1, SessionAssumption DEF Room, ArraysOpen
<1>9. Ends' /\ Upward' /\ StoreSound' /\ OnlyWholeRequestsRun'
  BY <1>1, <1>2 DEF Ends, Upward, StoreSound, OnlyWholeRequestsRun
<1>10. CASE frame = NoFrame
  <2>1. got' = got
    BY <1>2, <1>10
  <2>2. Downward'
    BY <1>2, <1>6, <1>10, <2>1 DEF Downward, msgs, done
  <2>3. Histories' /\ AnswersMatch'
    BY <1>1, <1>2, <2>1 DEF Histories, AnswersMatch
  <2> QED BY <1>8, <1>9, <2>2, <2>3 DEF Inv
<1>11. CASE frame # NoFrame
  <2> DEFINE result == Outcome_(frame)
             n == done + 1
             answer == served[n].response
  <2>1. /\ IsSequence(got') /\ Len(got') = n /\ got'[n] = result
        /\ DOMAIN got' = 1..n /\ \A i \in 1..done : got'[i] = got[i]
    <3>1. got' = Append(got, result)
      BY <1>2, <1>11
    <3> HIDE DEF result
    <3> QED BY <1>7, <3>1, AppendIs DEF done
  <2>2. n \in 1..Len(served) /\ msgs[n] = write_frame(answer) /\ Shaped(answer)
    BY <1>1, <1>3, <1>6, <1>11 DEF Histories
  <2>3. \/ frame = Arrives(answer) /\ Sensible(frame)
        \/ /\ server = "closed" /\ n = Len(served)
           /\ frame \in CutShort(write_frame(answer)) /\ Sensible(frame)
    <3> HIDE DEF answer
    <3> DEFINE msg == write_frame(answer)
    <3>1. Reading(msg)[Len(msg)].frame = Arrives(answer) /\ Sensible(Arrives(answer))
      BY <2>2, ShapedIsWhole
    <3>2. msgs[done + 1] = msg
      BY <2>2
    <3> HIDE DEF msg
    <3> QED BY <1>3, <1>6, <1>11, <3>1, <3>2 DEF msg
  <2>4. result = <<"ok", frame>>
    BY <2>3 DEF Outcome_, Sensible
  <2> HIDE DEF frame, result, answer
  <2>5. AnswersMatch'
    <3> SUFFICES ASSUME NEW i \in 1..n
                 PROVE  /\ i <= Len(served)
                        /\ \/ got'[i] = <<"ok", Arrives(served[i].response)>>
                           \/ /\ server = "closed" /\ i = Len(served)
                              /\ \E f \in CutShort(write_frame(served[i].response)) : got'[i] = <<"ok", f>>
      BY <1>2, <2>1 DEF AnswersMatch, Arrives
    <3>1. CASE i = n
      BY <2>1, <2>2, <2>3, <2>4, <3>1 DEF answer
    <3>2. CASE i # n
      <4>1. i \in 1..done
        BY <1>7, <3>2
      <4> QED BY <1>1, <1>7, <2>1, <4>1 DEF AnswersMatch
    <3> QED BY <3>1, <3>2
  <2>6. Downward'
    BY <1>2, <1>6, <1>11, <2>1 DEF Downward, msgs, frame
  <2>7. Histories'
    BY <1>1, <1>2, <2>1 DEF Histories
  <2> QED BY <1>8, <1>9, <2>5, <2>6, <2>7 DEF Inv
<1> QED BY <1>10, <1>11

----------------------------------------------------------------------------
(* The steps of the connection task.                                       *)

\* The task executes a request that it has read whole, or its last line in part.
LEMMA RespondKeeps ==
  ASSUME Inv, ServerRead, NEW frame, frame = read_frame(open, Head(up)).frame, frame # NoFrame
  PROVE  Inv'
<1>1. /\ Ends /\ Histories /\ Room /\ Upward /\ Downward /\ ArraysOpen /\ StoreSound
      /\ OnlyWholeRequestsRun /\ AnswersMatch
  BY DEF Inv
<1> DEFINE read == read_frame(open, Head(up))
<1>2. /\ server = "reading" /\ up # <<>> /\ up' = Tail(up) /\ ~Malformed(Head(up))
      /\ open' = read.open /\ Respond(frame)
      /\ UNCHANGED <<client, asked, outbox, inbox, got, window, down>>
  BY DEF ServerRead, clientVars
<1>3. PICK h \in Handled(frame) :
        /\ entries' = h[1] /\ reply' = write_frame(h[2]) /\ server' = "writing"
        /\ served' = Append(served, [request |-> frame, response |-> h[2]])
  BY <1>2 DEF Respond
<1> DEFINE msgs == SentBy(asked)
           done == Len(served)
           n == done + 1
<1>4. /\ Len(msgs) \in Nat /\ Len(msgs) = Len(asked)
      /\ \A i \in 1..Len(msgs) : Whole(msgs[i]) /\ msgs[i] = asked[i].tokens
  BY <1>1, MessagesWhole
<1>5. Flow(up, msgs, done, open, client, outbox) /\ IsSequence(up)
  BY <1>1 DEF Upward, Room
<1> HIDE DEF read, msgs
<1>6. /\ Unfinished(read.open)
      /\ n \in 1..Len(msgs)
      /\ Flow(Tail(up), msgs, n, read.open, client, outbox)
      /\ \/ frame = Reading(msgs[n])[Len(msgs[n])].frame /\ ~Malformed(msgs[n][Len(msgs[n])])
         \/ /\ client = "closed" /\ n = Len(msgs)
            /\ frame \in CutShort(msgs[n]) /\ Sensible(frame)
  <2>1. read = read_frame(open, Head(up)) /\ read.frame = frame /\ \A i \in 1..Len(msgs) : Whole(msgs[i])
    BY <1>4 DEF read
  <2> HIDE DEF done
  <2>2. /\ Unfinished(read.open)
        /\ read.frame # NoFrame =>
             /\ done + 1 \in 1..Len(msgs)
             /\ Flow(Tail(up), msgs, done + 1, read.open, client, outbox)
             /\ \/ /\ read.frame = Reading(msgs[done + 1])[Len(msgs[done + 1])].frame
                   /\ ~Malformed(msgs[done + 1][Len(msgs[done + 1])])
                \/ /\ client = "closed" /\ done + 1 = Len(msgs)
                   /\ read.frame \in CutShort(msgs[done + 1]) /\ Sensible(read.frame)
    BY <1>2, <1>4, <1>5, <2>1, FlowRead
  <2> QED BY <2>1, <2>2
<1>7. /\ asked[n] \in Requests /\ n <= Len(asked)
      /\ \/ frame = asked[n].frame
         \/ client = "closed" /\ n = Len(asked) /\ frame \in CutShort(asked[n].tokens)
      /\ Understood(frame)
  <2> HIDE DEF n
  <2> DEFINE r == asked[n]
  <2>1. r \in Requests /\ msgs[n] = r.tokens /\ n <= Len(asked)
    BY <1>1, <1>4, <1>6 DEF Histories
  <2> HIDE DEF r
  <2>2. /\ ~Malformed(r.tokens[Len(r.tokens)]) =>
             Reading(r.tokens)[Len(r.tokens)].frame = r.frame /\ Understood(r.frame)
        /\ \A f \in CutShort(r.tokens) : Sensible(f) => Understood(f)
    BY <2>1, RequestIsWhole
  <2>3. \/ frame = r.frame /\ Understood(frame)
        \/ client = "closed" /\ n = Len(asked) /\ frame \in CutShort(r.tokens) /\ Understood(frame)
    BY <1>4, <1>6, <2>1, <2>2
  <2> QED BY <2>1, <2>3 DEF r
<1>8. StoreSound' /\ Shaped(h[2])
  BY <1>1, <1>3, <1>7, HandledOK DEF StoreSound
<1> DEFINE entry == [request |-> frame, response |-> h[2]]
<1>9. /\ IsSequence(served') /\ Len(served') = n /\ done \in Nat
      /\ served'[n] = entry /\ \A i \in 1..done : served'[i] = served[i]
      /\ DOMAIN served' = 1..n /\ DOMAIN served = 1..done
  <2>1. IsSequence(served) /\ served' = Append(served, entry)
    BY <1>1, <1>3 DEF Histories
  <2> HIDE DEF entry
  <2> QED BY <2>1, AppendIs
<1>10. entry.request = frame /\ entry.response = h[2]
  OBVIOUS
<1> HIDE DEF entry
<1> DEFINE msg == write_frame(h[2])
<1>11. Whole(msg)
  BY <1>8, ShapedIsWhole
<1>12. Histories'
  <2>1. IsSequence(reply')
    BY <1>3, <1>11 DEF Whole
  <2>2. ASSUME NEW i \in 1..n PROVE Shaped(served'[i].response)
    <3>1. i \in 1..done \/ i = n
      BY <1>9
    <3> QED BY <1>1, <1>8, <1>9, <1>10, <3>1 DEF Histories
  <2> QED BY <1>1, <1>2, <1>9, <2>1, <2>2 DEF Histories
<1>13. Ends'
  <2>1. reply' # <<>>
    BY <1>3, <1>11 DEF Whole
  <2> QED BY <1>1, <1>2, <1>3, <2>1 DEF Ends
<1>14. Room' /\ ArraysOpen' /\ Upward'
  <2>1. IsSequence(up') /\ Len(up') = Len(up) - 1 /\ Len(up) \in Nat
    BY <1>2, <1>5, TailIs
  <2>2. Room'
    BY <1>1, <1>2, <1>3, <2>1, SessionAssumption DEF Room
  <2>3. ArraysOpen'
    BY <1>1, <1>2, <1>6 DEF ArraysOpen
  <2>4. Upward'
    BY <1>2, <1>6, <1>9 DEF Upward, msgs
  <2> QED BY <2>2, <2>3, <2>4
<1>15. Downward'
  <2> SUFFICES ASSUME client = "open"
               PROVE  Flow(down, AnswersTo(served'), Len(got), inbox, server', reply')
    BY <1>2 DEF Downward
  <2> DEFINE replies == AnswersTo(served)
             more == AnswersTo(served')
             after == server'
  <2>1. Len(more) = n /\ \A i \in 1..n : more[i] = write_frame(served'[i].response)
    BY <1>9, AnswersToIs
  <2>2. Len(replies) = done /\ \A i \in 1..done : replies[i] = write_frame(served[i].response)
    BY <1>9, AnswersToIs
  <2>3. /\ Len(more) = Len(replies) + 1 /\ Len(replies) \in Nat
        /\ more[Len(replies) + 1] = msg
        /\ \A i \in 1..Len(replies) : more[i] = replies[i]
    BY <1>9, <1>10, <2>1, <2>2
  <2>4. Flow(down, replies, Len(got), inbox, server, <<>>) /\ server # "closed"
    <3>1. reply = <<>>
      BY <1>1, <1>2 DEF Ends
    <3> QED BY <1>1, <1>2, <3>1 DEF Downward
  <2>5. Len(down) \in Nat
    BY <1>1, AppendIs DEF Room
  <2>6. after # "closed" /\ reply' = msg
    BY <1>3
  <2> HIDE DEF replies, more, msg, after
  <2>7. Flow(down, more, Len(got), inbox, server, msg)
    BY <1>11, <2>3, <2>4, <2>5, FlowBegin
  <2>8. Flow(down, more, Len(got), inbox, after, msg)
    BY <2>4, <2>6, <2>7, FlowOn
  <2> QED BY <2>6, <2>8 DEF more, after
<1>16. OnlyWholeRequestsRun'
  <2> SUFFICES ASSUME NEW i \in 1..n
               PROVE  \/ served'[i].request = asked[i].frame
                      \/ /\ client = "closed" /\ i = Len(asked)
                         /\ served'[i].request \in CutShort(asked[i].tokens)
    BY <1>2, <1>7, <1>9 DEF OnlyWholeRequestsRun
  <2>1. CASE i = n
    BY <1>7, <1>9, <1>10, <2>1
  <2>2. CASE i # n
    <3>1. i \in 1..done
      BY <1>9, <2>2
    <3> QED BY <1>1, <1>9, <3>1 DEF OnlyWholeRequestsRun
  <2> QED BY <2>1, <2>2
<1>17. AnswersMatch'
  <2>1. \A i \in DOMAIN got : i <= Len(served) /\ got[i] = <<"ok", Arrives(served[i].response)>>
    BY <1>1, <1>2 DEF AnswersMatch
  <2>2. ASSUME NEW i \in DOMAIN got PROVE i \in 1..done /\ i <= Len(served')
    <3>1. i \in Nat \ {0}
      BY <1>1, AppendIs DEF Histories
    <3> QED BY <1>9, <2>1, <3>1
  <2>3. \A i \in DOMAIN got : i <= Len(served') /\ got[i] = <<"ok", Arrives(served'[i].response)>>
    BY <1>9, <2>1, <2>2
  <2> QED BY <1>2, <2>3 DEF AnswersMatch, Arrives
<1> QED BY <1>8, <1>12, <1>13, <1>14, <1>15, <1>16, <1>17 DEF Inv

LEMMA ServerReadKeeps ==
  ASSUME Inv, ServerRead
  PROVE  Inv'
<1> DEFINE read == read_frame(open, Head(up))
           frame == read.frame
<1>1. CASE frame # NoFrame
  <2> HIDE DEF frame
  <2>1. frame = read_frame(open, Head(up)).frame
    BY DEF frame
  <2> QED BY <1>1, <2>1, RespondKeeps
<1>2. CASE frame = NoFrame
  <2>1. /\ Ends /\ Histories /\ Room /\ Upward /\ Downward /\ ArraysOpen /\ StoreSound
        /\ OnlyWholeRequestsRun /\ AnswersMatch
    BY DEF Inv
  <2>2. /\ server = "reading" /\ up # <<>> /\ up' = Tail(up) /\ ~Malformed(Head(up))
        /\ open' = read.open
        /\ UNCHANGED <<client, asked, outbox, inbox, got, window, down, server, reply, served, entries>>
    BY <1>2 DEF ServerRead, clientVars
  <2> DEFINE msgs == SentBy(asked)
             done == Len(served)
  <2>3. Len(msgs) \in Nat /\ \A i \in 1..Len(msgs) : Whole(msgs[i])
    BY <2>1, MessagesWhole
  <2>4. Flow(up, msgs, done, open, client, outbox) /\ IsSequence(up)
    BY <2>1 DEF Upward, Room
  <2>5. read = read_frame(open, Head(up)) /\ read.frame = NoFrame
    BY <1>2
  <2> HIDE DEF read, frame, msgs, done
  <2>6. /\ Unfinished(read.open)
        /\ read.frame = NoFrame => Flow(Tail(up), msgs, done, read.open, client, outbox)
    BY <2>2, <2>3, <2>4, <2>5, FlowRead
  <2>7. Upward'
    BY <2>2, <2>5, <2>6 DEF Upward, msgs, done
  <2>8. Room' /\ ArraysOpen'
    <3>1. IsSequence(up') /\ Len(up') = Len(up) - 1 /\ Len(up) \in Nat
      BY <2>2, <2>4, TailIs
    <3> QED BY <2>1, <2>2, <2>6, <3>1, SessionAssumption DEF Room, ArraysOpen
  <2>9. /\ Ends' /\ Histories' /\ Downward' /\ StoreSound'
        /\ OnlyWholeRequestsRun' /\ AnswersMatch'
    BY <2>1, <2>2 DEF Ends, Histories, Downward, StoreSound, OnlyWholeRequestsRun, AnswersMatch
  <2> QED BY <2>7, <2>8, <2>9 DEF Inv
<1> QED BY <1>1, <1>2

LEMMA ServerWriteKeeps ==
  ASSUME Inv, ServerWrite
  PROVE  Inv'
<1>1. /\ Ends /\ Histories /\ Room /\ Upward /\ Downward /\ ArraysOpen /\ StoreSound
      /\ OnlyWholeRequestsRun /\ AnswersMatch
  BY DEF Inv
<1>2. /\ server = "writing" /\ reply' = Tail(reply)
      /\ server' = (IF Len(reply) = 1 THEN "reading" ELSE "writing")
      /\ client = "open" => Len(down) < Capacity /\ down' = Append(down, Head(reply))
      /\ client # "open" => down' = down
      /\ UNCHANGED <<client, asked, outbox, inbox, got, window, up, open, served, entries>>
  BY DEF ServerWrite, clientVars
<1>3. reply # <<>> /\ IsSequence(reply) /\ IsSequence(down) /\ server # "closed" /\ server' # "closed"
  BY <1>1, <1>2 DEF Ends, Histories, Room
<1>4. IsSequence(reply') /\ (reply' = <<>> <=> Len(reply) = 1)
  BY <1>2, <1>3, TailIs
<1>5. Ends' /\ Histories'
  BY <1>1, <1>2, <1>4 DEF Ends, Histories
<1>6. Room'
  <2>1. CASE client = "open"
    <3> DEFINE token == Head(reply)
    <3> HIDE DEF token
    <3>1. IsSequence(Append(down, token)) /\ Len(down) \in Nat /\ Len(Append(down, token)) = Len(down) + 1
      BY <1>3, AppendIs
    <3>2. down' = Append(down, token) /\ Len(down) < Capacity
      BY <1>2, <2>1 DEF token
    <3> QED BY <1>1, <1>2, <2>1, <3>1, <3>2, SessionAssumption DEF Room
  <2>2. CASE client # "open"
    BY <1>1, <1>2, <1>3, <2>2 DEF Room
  <2> QED BY <2>1, <2>2
<1>7. Downward'
  <2> SUFFICES ASSUME client = "open"
               PROVE  Flow(Append(down, Head(reply)), AnswersTo(served), Len(got), inbox, server', Tail(reply))
    BY <1>2 DEF Downward
  <2> DEFINE msgs == AnswersTo(served)
             done == Len(got)
             after == server'
  <2>1. Len(msgs) \in Nat /\ \A n \in 1..Len(msgs) : Whole(msgs[n])
    BY <1>1, MessagesWhole
  <2>2. Flow(down, msgs, done, inbox, server, reply) /\ after # "closed"
    BY <1>1, <1>3 DEF Downward
  <2> HIDE DEF msgs, done, after
  <2>3. Flow(Append(down, Head(reply)), msgs, done, inbox, server, Tail(reply))
    BY <1>3, <2>1, <2>2, FlowWrite
  <2> DEFINE longer == Append(down, Head(reply))
             left == Tail(reply)
  <2> HIDE DEF longer, left
  <2>4. Flow(longer, msgs, done, inbox, server, left)
    BY <2>3 DEF longer, left
  <2>5. Flow(longer, msgs, done, inbox, after, left)
    BY <1>3, <2>2, <2>4, FlowOn
  <2> QED BY <2>5 DEF longer, left, msgs, done, after
<1>8. /\ Upward' /\ ArraysOpen' /\ StoreSound' /\ OnlyWholeRequestsRun'
  BY <1>1, <1>2 DEF Upward, ArraysOpen, StoreSound, OnlyWholeRequestsRun
<1>9. AnswersMatch'
  BY <1>1, <1>2, <1>3 DEF AnswersMatch
<1> QED BY <1>5, <1>6, <1>7, <1>8, <1>9 DEF Inv

\* A task that is gone has written what it wrote, a part of its last line perhaps.
LEMMA ServerEndsKeeps ==
  ASSUME Inv, ServerRefuses \/ ServerEof \/ ServerWriteFails \/ ServerDies
  PROVE  Inv'
<1>1. /\ Ends /\ Histories /\ Room /\ Upward /\ Downward /\ ArraysOpen /\ StoreSound
      /\ OnlyWholeRequestsRun /\ AnswersMatch
  BY DEF Inv
<1>2. /\ server # "closed" /\ server' = "closed"
      /\ UNCHANGED <<client, asked, outbox, inbox, got, window, up, open, reply, served, entries>>
      /\ \/ down' = down
         \/ reply # <<>> /\ \E part \in Cut(Head(reply)) : down' = Append(down, part)
  BY DEF ServerRefuses, ServerEof, ServerWriteFails, ServerDies, clientVars
<1>3. IsSequence(down) /\ Len(down) <= Capacity /\ Len(down) \in Nat
  BY <1>1, <1>2, AppendIs DEF Room
<1>4. IsSequence(down') /\ Len(down') <= Capacity + 1
  <2>1. CASE down' = down
    BY <1>3, <2>1, SessionAssumption
  <2>2. CASE \E part \in Cut(Head(reply)) : down' = Append(down, part)
    BY <1>3, <2>2, AppendIs, SessionAssumption
  <2> QED BY <1>2, <2>1, <2>2
<1>5. Room'
  BY <1>1, <1>2, <1>4 DEF Room
<1>6. Downward'
  <2> SUFFICES ASSUME client = "open"
               PROVE  Flow(down', AnswersTo(served), Len(got), inbox, "closed", reply)
    BY <1>2 DEF Downward
  <2> DEFINE msgs == AnswersTo(served)
             done == Len(got)
  <2>1. Len(msgs) \in Nat /\ \A n \in 1..Len(msgs) : Whole(msgs[n])
    BY <1>1, MessagesWhole
  <2>2. Flow(down, msgs, done, inbox, server, reply) /\ server # "closed"
    BY <1>1, <1>2 DEF Downward
  <2> HIDE DEF msgs, done
  <2>3. CASE down' = down
    BY <2>2, <2>3, FlowEnds DEF msgs, done
  <2>4. CASE reply # <<>> /\ \E part \in Cut(Head(reply)) : down' = Append(down, part)
    <3>1. PICK part \in Cut(Head(reply)) : down' = Append(down, part)
      BY <2>4
    <3>2. Flow(Append(down, part), msgs, done, inbox, "closed", reply)
      BY <1>3, <2>1, <2>2, <2>4, FlowBreaks
    <3> QED BY <3>1, <3>2 DEF msgs, done
  <2> QED BY <1>2, <2>3, <2>4
<1>7. Ends' /\ Histories' /\ Upward' /\ ArraysOpen' /\ StoreSound' /\ OnlyWholeRequestsRun'
  BY <1>1, <1>2 DEF Ends, Histories, Upward, ArraysOpen, StoreSound, OnlyWholeRequestsRun
<1>8. AnswersMatch'
  BY <1>1, <1>2 DEF AnswersMatch, Arrives
<1> QED BY <1>5, <1>6, <1>7, <1>8 DEF Inv

----------------------------------------------------------------------------
(* The specification.                                                      *)

\* Nothing is lost, invented or reordered in either direction, whoever waits for
\* whom and whoever goes first.
THEOREM SessionInvariant == Spec => []Inv
<1>1. Inv /\ [Next]_vars => Inv'
  <2> SUFFICES ASSUME Inv, [Next]_vars PROVE Inv'
    OBVIOUS
  <2>1. CASE UNCHANGED vars
    BY <2>1 DEF vars, clientVars, serverVars, Inv, Ends, Histories, Room, Upward, Downward, ArraysOpen,
       StoreSound, OnlyWholeRequestsRun, AnswersMatch, Arrives
  <2>2. CASE \E r \in Requests : Begin(r)
    BY <2>2, BeginKeeps
  <2>3. CASE ClientProgress
    BY <2>3, ClientWriteKeeps, ClientReadKeeps, ClientEndsKeeps DEF ClientProgress
  <2>4. CASE ClientDrops
    BY <2>4, ClientEndsKeeps
  <2>5. CASE ServerProgress
    BY <2>5, ServerReadKeeps, ServerWriteKeeps, ServerEndsKeeps DEF ServerProgress
  <2>6. CASE ServerDies
    BY <2>6, ServerEndsKeeps
  <2> QED BY <2>1, <2>2, <2>3, <2>4, <2>5, <2>6 DEF Next
<1> QED BY <1>1, InvInit, PTL DEF Spec

\* Both ends, the socket between them and the store keep their types.
THEOREM SessionTypeCorrect == Spec => []TypeOK
<1>1. Inv => TypeOK
  <2> SUFFICES ASSUME Inv PROVE TypeOK
    OBVIOUS
  <2>1. Ends /\ Histories /\ Room /\ ArraysOpen /\ StoreSound /\ OnlyWholeRequestsRun /\ AnswersMatch
    BY DEF Inv
  <2>2. ToSet(asked) \subseteq Requests
    BY <2>1, AppendIs DEF Histories, ToSet
  <2>3. Len(got) <= Len(asked)
    <3>1. IsSequence(got) /\ IsSequence(served) /\ IsSequence(asked)
      BY <2>1 DEF Histories
    <3>2. /\ Len(got) \in Nat /\ DOMAIN got = 1..Len(got)
          /\ Len(served) \in Nat /\ Len(asked) \in Nat
      BY <3>1, AppendIs
    <3>3. Len(got) > 0 => Len(got) <= Len(served)
      <4>1. ASSUME Len(got) > 0 PROVE Len(got) \in DOMAIN got
        BY <3>2, <4>1
      <4> QED BY <2>1, <4>1 DEF AnswersMatch
    <3> QED BY <2>1, <3>2, <3>3 DEF OnlyWholeRequestsRun
  <2> QED BY <2>1, <2>2, <2>3 DEF TypeOK, Ends, Room, ArraysOpen, Unfinished, StoreSound
<1> QED BY <1>1, SessionInvariant, PTL

\* Whatever the requests, the window and the capacity, and however the connection
\* is cut: only whole requests run, in the order they were sent, but for the last
\* line of the last one.
THEOREM OnlyWholeRequestsAreRun == Spec => []OnlyWholeRequestsRun
<1>1. Inv => OnlyWholeRequestsRun
  BY DEF Inv
<1> QED BY <1>1, SessionInvariant, PTL

\* The n-th call returns the response to the n-th request, for clients that wait
\* for each answer and for those that pipeline.
THEOREM EveryAnswerMatches == Spec => []AnswersMatch
<1>1. Inv => AnswersMatch
  BY DEF Inv
<1> QED BY <1>1, SessionInvariant, PTL

=============================================================================

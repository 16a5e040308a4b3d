--------------------------------- MODULE Resp ---------------------------------
(***************************************************************************)
(* The RESP protocol (src/src/protocol): frames, what write_frame puts on  *)
(* the wire for them, and the frames read_frame makes of what arrives.     *)
(*                                                                         *)
(* The wire is a sequence of tokens, one per line, a bulk string's length  *)
(* line and payload being one.  read_frame is an incremental reader: its   *)
(* state, the arrays still open, outermost first, is what the nested       *)
(* read_array calls hold while they await more input.                      *)
(***************************************************************************)
EXTENDS Integers, Sequences, SequencesExt

----------------------------------------------------------------------------
(* Frames.                                                                 *)

SimpleFrame(s) == <<"simple", s>>
ErrorFrame(words) == <<"error", words>>     \* the words of the message
IntegerFrame(n) == <<"integer", n>>
BulkFrame(payload) == <<"bulk", payload>>
NullFrame == <<"null">>
ArrayFrame(items) == <<"array", items>>

NoFrame == <<>>

Bulks(payloads) == ArrayFrame([i \in DOMAIN payloads |-> BulkFrame(payloads[i])])

----------------------------------------------------------------------------
(* Writing.                                                                *)

Header(n) == <<"*", n>>

Line(frame) ==
  CASE frame[1] = "simple" -> <<"+", frame[2]>>
    [] frame[1] = "error" -> <<"-", frame[2]>>
    [] frame[1] = "integer" -> <<":", frame[2]>>
    [] frame[1] = "bulk" -> <<"$", frame[2]>>
    [] frame[1] = "null" -> <<"$-1">>

\* A frame none of whose items is an array.
write_row(frame) ==
  IF frame[1] = "array"
  THEN <<Header(Len(frame[2]))>> \o [i \in DOMAIN frame[2] |-> Line(frame[2][i])]
  ELSE <<Line(frame)>>

\* The program's frames nest twice at most: the rows of AERUGO.INSPECT.
write_frame(frame) ==
  IF frame[1] = "array"
  THEN <<Header(Len(frame[2]))>> \o FlattenSeq([i \in DOMAIN frame[2] |-> write_row(frame[2][i])])
  ELSE <<Line(frame)>>

----------------------------------------------------------------------------
(* Reading.                                                                *)

\* A line that is none of the RESP types is an inline command; one that
\* begins with a minus sign is among them.
parse_inline_command(words) == Bulks(words)

MinusWords(words) == [i \in DOMAIN words |-> IF i = 1 THEN "-" \o words[1] ELSE words[i]]

\* An array that is still being read: its length and the items so far.
Open(len) == [len |-> len, items |-> <<>>]

\* The array lacks one item.
Closing(array) == Len(array.items) + 1 = array.len

\* How many arrays stay open when a frame arrives: it completes the innermost
\* one perhaps, which then completes the next one, and so on.
StillOpen(open) ==
  CHOOSE k \in 0..Len(open) :
    /\ \A i \in (k + 1)..Len(open) : Closing(open[i])
    /\ k > 0 => ~Closing(open[k])

\* The frame that arrives, as the last item of the innermost array, which is the
\* last item of the next one: n times.
Nested(open, frame) ==
  LET nested[n \in 0..Len(open)] ==
        IF n = 0 THEN frame
        ELSE ArrayFrame(Append(open[Len(open) + 1 - n].items, nested[n - 1]))
  IN  nested

\* What is left open, and the frame that read_frame returns, NoFrame as long as
\* there is none.
Deliver(open, frame) ==
  LET left == StillOpen(open)
      item == Nested(open, frame)[Len(open) - left]
  IN  IF left = 0 THEN [open |-> <<>>, frame |-> item]
      ELSE [open |-> [SubSeq(open, 1, left) EXCEPT ![left].items = Append(@, item)],
            frame |-> NoFrame]

\* The frame of a token that opens no array.
FrameOf(token) ==
  CASE token[1] = "*" -> ArrayFrame(<<>>)
    [] token[1] = "$" -> BulkFrame(token[2])
    [] token[1] = "$-1" -> NullFrame
    [] token[1] = ":" -> IntegerFrame(token[2])
    [] token[1] = "+" -> SimpleFrame(token[2])
    [] token[1] = "-" -> parse_inline_command(MinusWords(token[2]))
    [] token[1] = "inline" -> parse_inline_command(token[2])
    [] token[1] = "blank" -> ErrorFrame(<<"ERR", "empty", "request">>)

\* Mutant: the header of an array inside an array is skipped.
read_frame_flat(open, token) ==
  IF token[1] = "*" /\ open # <<>> THEN [open |-> open, frame |-> NoFrame]
  ELSE IF token[1] = "*" THEN [open |-> <<Open(token[2])>>, frame |-> NoFrame]
  ELSE Deliver(open, FrameOf(token))

\* One token more.
read_frame(open, token) ==
  IF token[1] = "*" /\ token[2] > 0
  THEN [open |-> Append(open, Open(token[2])), frame |-> NoFrame]
  ELSE Deliver(open, FrameOf(token))

\* A length or a number that does not parse: read_frame fails.
Malformed(token) == token[1] = "malformed"

\* The arrays a reader has open, and the frame it returns, after each of the
\* first tokens it reads; Reading(tokens)[0] is before all of them.
Reading(tokens) ==
  LET read[n \in 0..Len(tokens)] ==
        IF n = 0 THEN [open |-> <<>>, frame |-> NoFrame]
        ELSE read_frame(read[n - 1].open, tokens[n])
  IN  read

\* The numbers that the first digits of n spell, n itself left out.
Leading(n) ==
  LET leading[m \in 0..n] == IF m < 10 THEN {} ELSE {m \div 10} \cup leading[m \div 10]
  IN  IF n < 10 THEN {} ELSE leading[n]

\* What a reader may still see of a line whose writer died before its end:
\* read_until returns the rest of the input as a line.  Of a bulk string or an
\* array header nothing comes of it: the payload or the items are missing.
Cut(token) ==
  CASE token[1] = "+" -> {<<"+", "">>}
    [] token[1] = ":" -> {<<":", m>> : m \in Leading(token[2])}
    [] token[1] \in {"-", "inline"} -> {<<token[1], SubSeq(token[2], 1, n)>> : n \in 1..(Len(token[2]) - 1)}
    [] OTHER -> {}

\* The frames a reader may return when the last line of a frame is cut.
CutShort(tokens) ==
  {read_frame(Reading(tokens)[Len(tokens) - 1].open, t).frame : t \in Cut(Last(tokens))}

=============================================================================

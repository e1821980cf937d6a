----------------------------- MODULE Heatshrink -----------------------------
(***************************************************************************)
(* lib/heatshrink: an encoder and a decoder that take their input and give *)
(* their output in pieces of any size.  Both are machines with a state; a  *)
(* call of poll runs one until its input is used up ("EMPTY") or its       *)
(* output buffer is full ("MORE").                                         *)
(*                                                                         *)
(* out and room are the output buffer of a call, what is in it and its     *)
(* size; bits are the bits of the byte at which the machine is, those put  *)
(* into it so far or those left in it.  w and l are the sizes of window    *)
(* and lookahead as powers of two.                                         *)
(***************************************************************************)
EXTENDS Integers, SequencesExt

BitsOf(value, count) == [k \in 1 .. count |-> (value \div 2 ^ (count - k)) % 2]

ValueOf(bits) ==
  LET value[k \in 0 .. Len(bits)] == IF k = 0 THEN 0 ELSE 2 * value[k - 1] + bits[k]
  IN value[Len(bits)]

can_take_byte(m) == Len(m.out) < m.room

-----------------------------------------------------------------------------
(* The encoder.  buffer holds a window of what was processed, then a        *)
(* window of input; flags and states are those of the code, and has_literal *)
(* is left out: it is never set when a search begins.                       *)

InputOffset(e) == 2 ^ e.w
InputSpace(e)  == 2 ^ e.w
Lookahead(e)   == 2 ^ e.l

heatshrink_encoder_alloc(w, l) ==
  [encoding |-> TRUE, w |-> w, l |-> l,
   buffer |-> [i \in 0 .. 2 ^ (w + 1) - 1 |-> 0], input_size |-> 0,
   state |-> "NOT_FULL", match_scan_index |-> 0, match_pos |-> 0, match_length |-> 0,
   finishing |-> FALSE, backlog |-> "none", outgoing |-> <<>>, bits |-> <<>>,
   out |-> <<>>, room |-> 0, res |-> "OK", sunk |-> 0]

\* As much as fits; sunk says how much that was.
heatshrink_encoder_sink(e, in) ==
  LET offset == InputOffset(e) + e.input_size
      rem    == InputSpace(e) - e.input_size
      size   == Min({rem, Len(in)})
  IN IF e.finishing \/ e.state # "NOT_FULL" THEN [e EXCEPT !.res = "ERROR_MISUSE"]
     ELSE [e EXCEPT !.buffer = [i \in DOMAIN @ |-> IF i \in offset .. offset + size - 1
                                                     THEN in[i - offset + 1] ELSE @[i]],
                    !.input_size = @ + size, !.sunk = size, !.res = "OK",
                    !.state = IF size = rem THEN "FILLED" ELSE @]

\* The result is DONE or MORE.
heatshrink_encoder_finish(e) ==
  [e EXCEPT !.finishing = TRUE, !.state = IF @ = "NOT_FULL" THEN "FILLED" ELSE @,
            !.res = IF e.state = "DONE" THEN "DONE" ELSE "MORE"]

\* A whole byte goes to the output buffer.
push_bits(e, bits) ==
  LET all == e.bits \o bits
  IN IF Len(all) < 8 THEN [e EXCEPT !.bits = all]
     ELSE [e EXCEPT !.bits = SubSeq(all, 9, Len(all)),
                    !.out = Append(@, ValueOf(SubSeq(all, 1, 8)))]

\* How many bytes from pos on are those from end on.
MatchLength(buffer, pos, end, maxlen) ==
  Max({n \in 0 .. maxlen : \A i \in 0 .. n - 1 : buffer[pos + i] = buffer[end + i]})

\* Of the longest matches the nearest one; it may reach into what it matches.
\* A match of less than three bytes is none.
find_longest_match(e, start, end, maxlen) ==
  LET candidates == {pos \in start .. end - 1 : e.buffer[pos] = e.buffer[end]}
      length     == [pos \in candidates |-> MatchLength(e.buffer, pos, end, maxlen)]
      longest    == Max({length[pos] : pos \in candidates} \cup {0})
  IN IF longest < 3 THEN [length |-> 0, back |-> 0]
     ELSE [length |-> longest,
           back   |-> end - Max({pos \in candidates : length[pos] = longest})]

\* Where the search begins: of the first backlog the first bytes are undefined.
SearchStart(e, end) ==
  CASE e.backlog = "filled"  -> end - InputSpace(e) + 1
    [] e.backlog = "partial" -> Max({end - InputSpace(e) + 1, Lookahead(e)})
    [] e.backlog = "none"    -> InputOffset(e)

st_step_search(e) ==
  LET msi   == e.match_scan_index
      end   == InputOffset(e) + msi
      match == find_longest_match(e, SearchStart(e, end), end,
                                  Min({Lookahead(e), e.input_size - msi}))
  IN IF msi >= e.input_size - (IF e.finishing THEN 0 ELSE Lookahead(e))
       THEN [e EXCEPT !.state = "SAVE_BACKLOG"]
     ELSE [e EXCEPT !.state = "YIELD_TAG_BIT", !.match_length = match.length,
                    !.match_pos = IF match.length > 0 THEN match.back ELSE @,
                    !.match_scan_index = IF match.length > 0 THEN @ ELSE @ + 1]

st_yield_tag_bit(e) ==
  IF ~can_take_byte(e) THEN e
  ELSE IF e.match_length = 0 THEN [push_bits(e, <<1>>) EXCEPT !.state = "YIELD_LITERAL"]
  ELSE [push_bits(e, <<0>>) EXCEPT !.outgoing = BitsOf(e.match_pos - 1, e.w),
                                   !.state = "YIELD_BR_INDEX"]

st_yield_literal(e) ==
  LET byte == e.buffer[InputOffset(e) + e.match_scan_index - 1]
  IN IF ~can_take_byte(e) THEN e
     ELSE [push_bits(e, BitsOf(byte, 8)) EXCEPT !.state = "SEARCH"]

\* The first eight bits or what is left of them.
push_outgoing_bits(e) ==
  LET count == Min({8, Len(e.outgoing)})
  IN [push_bits(e, SubSeq(e.outgoing, 1, count)) EXCEPT
        !.outgoing = SubSeq(@, count + 1, Len(@))]

st_yield_br_index(e) ==
  IF ~can_take_byte(e) THEN e
  ELSE IF e.outgoing # <<>> THEN push_outgoing_bits(e)
  ELSE [e EXCEPT !.outgoing = BitsOf(e.match_length - 1, e.l), !.state = "YIELD_BR_LENGTH"]

st_yield_br_length(e) ==
  IF ~can_take_byte(e) THEN e
  ELSE IF e.outgoing # <<>> THEN push_outgoing_bits(e)
  ELSE [e EXCEPT !.match_scan_index = @ + e.match_length, !.match_length = 0,
                 !.state = "SEARCH"]

\* What is not processed moves to the beginning of the input, and the window
\* before it along with it.
save_backlog_WindowOnly(e) ==
  LET msi   == e.match_scan_index
      moved == [i \in DOMAIN e.buffer |-> IF i < InputSpace(e) THEN e.buffer[msi + i]
                                          ELSE e.buffer[i]]
  IN [e EXCEPT !.buffer = moved, !.match_scan_index = 0, !.input_size = @ - msi,
               !.backlog = IF @ = "none" THEN "partial" ELSE "filled"]

save_backlog(e) ==
  LET msi   == e.match_scan_index
      rem   == InputSpace(e) - msi
      moved == [i \in DOMAIN e.buffer |-> IF i < InputSpace(e) + rem THEN e.buffer[msi + i]
                                          ELSE e.buffer[i]]
  IN [e EXCEPT !.buffer = moved, !.match_scan_index = 0, !.input_size = @ - msi,
               !.backlog = IF @ = "none" THEN "partial" ELSE "filled"]

st_save_backlog(e) ==
  IF e.finishing THEN [e EXCEPT !.state = "FLUSH_BITS"]
  ELSE [save_backlog(e) EXCEPT !.state = "NOT_FULL"]

st_flush_bit_buffer(e) ==
  IF e.bits = <<>> THEN [e EXCEPT !.state = "DONE"]
  ELSE IF ~can_take_byte(e) THEN e
  ELSE [e EXCEPT !.out = Append(@, ValueOf(e.bits \o [k \in 1 .. 8 - Len(e.bits) |-> 0])),
                 !.state = "DONE"]

EncoderStep(e) ==
  CASE e.state = "FILLED"          -> [e EXCEPT !.state = "SEARCH"]
    [] e.state = "SEARCH"          -> st_step_search(e)
    [] e.state = "YIELD_TAG_BIT"   -> st_yield_tag_bit(e)
    [] e.state = "YIELD_LITERAL"   -> st_yield_literal(e)
    [] e.state = "YIELD_BR_INDEX"  -> st_yield_br_index(e)
    [] e.state = "YIELD_BR_LENGTH" -> st_yield_br_length(e)
    [] e.state = "SAVE_BACKLOG"    -> st_save_backlog(e)
    [] e.state = "FLUSH_BITS"      -> st_flush_bit_buffer(e)
    [] OTHER                       -> e

\* Flushing falls through to the end of the call, whether it did or not.
RECURSIVE EncoderPolling(_)
EncoderPolling(e) ==
  LET Goes(next) ==
        IF e.state \in {"NOT_FULL", "FLUSH_BITS", "DONE"} THEN [next EXCEPT !.res = "EMPTY"]
        ELSE IF next.state = e.state /\ ~can_take_byte(next) THEN [next EXCEPT !.res = "MORE"]
        ELSE EncoderPolling(next)
  IN Goes(EncoderStep(e))

heatshrink_encoder_poll(e, room) ==
  IF room = 0 THEN [e EXCEPT !.out = <<>>, !.res = "ERROR_MISUSE"]
  ELSE EncoderPolling([e EXCEPT !.out = <<>>, !.room = room])

-----------------------------------------------------------------------------
(* The decoder.  input is its input buffer of size bytes: a byte leaves it   *)
(* when the last one has been read.                                          *)

heatshrink_decoder_alloc(size, w, l) ==
  [encoding |-> FALSE, size |-> size, w |-> w, l |-> l,
   window |-> [i \in 0 .. 2 ^ w - 1 |-> 0], head_index |-> 0,
   input |-> <<>>, input_index |-> 0, bits |-> <<>>, state |-> "EMPTY", output_index |-> 0,
   output_count |-> 0, out |-> <<>>, room |-> 0, res |-> "OK", sunk |-> 0]

heatshrink_decoder_sink(d, in) ==
  LET size == Min({d.size - Len(d.input), Len(in)})
  IN IF Len(d.input) = d.size THEN [d EXCEPT !.sunk = 0, !.res = "FULL"]
     ELSE [d EXCEPT !.input = @ \o SubSeq(in, 1, size), !.sunk = size, !.res = "OK",
                    !.state = IF @ = "EMPTY" THEN "INPUT_AVAILABLE" ELSE @]

\* There are count bits, of which it takes all or none.
HasBits(d, count) == d.input # <<>> \/ Len(d.bits) >= count

\* At most eight bits: one more byte is enough.
Pulled(d) ==
  LET last == d.input_index + 1 = Len(d.input)
  IN [d EXCEPT !.bits = @ \o BitsOf(d.input[d.input_index + 1], 8),
               !.input_index = IF last THEN 0 ELSE @ + 1,
               !.input = IF last THEN <<>> ELSE @]

\* The decoder with the bits taken, and their value.
get_bits(d, count) ==
  LET e == IF Len(d.bits) < count /\ d.input # <<>> THEN Pulled(d) ELSE d
  IN [d     |-> [e EXCEPT !.bits = SubSeq(@, count + 1, Len(@))],
      value |-> ValueOf(SubSeq(e.bits, 1, count))]

st_input_available(d) ==
  LET tag == get_bits(d, 1)
  IN IF tag.value = 1 THEN [tag.d EXCEPT !.state = "YIELD_LITERAL"]
     ELSE IF d.w > 8 THEN [tag.d EXCEPT !.state = "BACKREF_INDEX_MSB"]
     ELSE [tag.d EXCEPT !.output_index = 0, !.state = "BACKREF_INDEX_LSB"]

\* A byte is put out and into the window.
Emitted(d, byte) ==
  [d EXCEPT !.window[d.head_index % 2 ^ d.w] = byte, !.head_index = (@ + 1) % 2 ^ 16,
            !.out = Append(@, byte)]

DecodeLiteral(d) ==
  LET byte == get_bits(d, 8)
  IN IF ~can_take_byte(d) \/ ~HasBits(d, 8) THEN d
     ELSE [Emitted(byte.d, byte.value) EXCEPT !.state = "CHECK_FOR_MORE_INPUT"]

st_backref_index_msb(d) ==
  LET high == get_bits(d, d.w - 8)
  IN IF ~HasBits(d, d.w - 8) THEN d
     ELSE [high.d EXCEPT !.output_index = 256 * high.value, !.state = "BACKREF_INDEX_LSB"]

st_backref_index_lsb(d) ==
  LET count == Min({d.w, 8})
      low   == get_bits(d, count)
  IN IF ~HasBits(d, count) THEN d
     ELSE [low.d EXCEPT !.output_index = @ + low.value + 1, !.output_count = 0,
                        !.state = IF d.l > 8 THEN "BACKREF_COUNT_MSB" ELSE "BACKREF_COUNT_LSB"]

st_backref_count_msb(d) ==
  LET high == get_bits(d, d.l - 8)
  IN IF ~HasBits(d, d.l - 8) THEN d
     ELSE [high.d EXCEPT !.output_count = 256 * high.value, !.state = "BACKREF_COUNT_LSB"]

st_backref_count_lsb(d) ==
  LET count == Min({d.l, 8})
      low   == get_bits(d, count)
  IN IF ~HasBits(d, count) THEN d
     ELSE [low.d EXCEPT !.output_count = @ + low.value + 1, !.state = "YIELD_BACKREF"]

\* As many bytes as there is room for; the repetition can include itself.
st_yield_backref(d) ==
  LET count == Min({d.room - Len(d.out), d.output_count})
      copied[k \in 0 .. count] ==
        IF k = 0 THEN d
        ELSE LET c == copied[k - 1]
             IN Emitted(c, c.window[(c.head_index - d.output_index) % 2 ^ d.w])
  IN [copied[count] EXCEPT !.output_count = @ - count,
        !.state = IF count > 0 /\ count = d.output_count THEN "CHECK_FOR_MORE_INPUT" ELSE @]

DecoderStep(d) ==
  CASE d.state = "INPUT_AVAILABLE"      -> st_input_available(d)
    [] d.state = "YIELD_LITERAL"        -> DecodeLiteral(d)
    [] d.state = "BACKREF_INDEX_MSB"    -> st_backref_index_msb(d)
    [] d.state = "BACKREF_INDEX_LSB"    -> st_backref_index_lsb(d)
    [] d.state = "BACKREF_COUNT_MSB"    -> st_backref_count_msb(d)
    [] d.state = "BACKREF_COUNT_LSB"    -> st_backref_count_lsb(d)
    [] d.state = "YIELD_BACKREF"        -> st_yield_backref(d)
    [] d.state = "CHECK_FOR_MORE_INPUT" ->
         [d EXCEPT !.state = IF d.input = <<>> THEN "EMPTY" ELSE "INPUT_AVAILABLE"]
    [] OTHER                            -> d

RECURSIVE DecoderPolling(_)
DecoderPolling(d) ==
  LET Goes(next) ==
        IF next.state # d.state THEN DecoderPolling(next)
        ELSE [next EXCEPT !.res = IF d.state # "EMPTY" /\ ~can_take_byte(next) THEN "MORE"
                                  ELSE "EMPTY"]
  IN Goes(DecoderStep(d))

heatshrink_decoder_poll(d, room) == DecoderPolling([d EXCEPT !.out = <<>>, !.room = room])

\* Bits that pad the last byte look like the beginning of something.
heatshrink_decoder_finish(d) ==
  \/ d.state = "EMPTY"
  \/ d.state \notin {"INPUT_AVAILABLE", "YIELD_BACKREF", "CHECK_FOR_MORE_INPUT"} /\ d.input = <<>>

-----------------------------------------------------------------------------
(* heatshrink.c, the command line tool: what a file becomes.  The file is   *)
(* read in chunks, and out_sz is the size of the buffer between the coder   *)
(* and the output, 4096 in the code.                                        *)

Poll(c, room) ==
  IF c.encoding THEN heatshrink_encoder_poll(c, room) ELSE heatshrink_decoder_poll(c, room)

Sink(c, in) ==
  IF c.encoding THEN heatshrink_encoder_sink(c, in) ELSE heatshrink_decoder_sink(c, in)

\* Polls until one does not end with MORE: c is the coder, written what was put
\* out so far, last what the last poll put out.
RECURSIVE PollAll(_, _, _)
PollAll(c, out_sz, written) ==
  LET Goes(next) ==
        IF next.res = "MORE" THEN PollAll(next, out_sz, written \o next.out)
        ELSE [c |-> next, written |-> written \o next.out, last |-> next.out]
  IN Goes(Poll(c, out_sz))

\* encoder_sink_read and decoder_sink_read
RECURSIVE sink_read(_, _, _, _)
sink_read(c, data, out_sz, written) ==
  LET Goes(polled, rest) ==
        IF rest = <<>> THEN polled ELSE sink_read(polled.c, rest, out_sz, polled.written)
      Polls(sunk) ==
        Goes(PollAll(sunk, out_sz, written), SubSeq(data, sunk.sunk + 1, Len(data)))
  IN Polls(Sink(c, data))

RECURSIVE ReadChunks(_, _, _, _)
ReadChunks(c, chunks, out_sz, written) ==
  LET Goes(read) == ReadChunks(read.c, Tail(chunks), out_sz, read.written)
  IN IF chunks = <<>> THEN [c |-> c, written |-> written]
     ELSE Goes(sink_read(c, Head(chunks), out_sz, written))

\* At the end of the file: the encoder is polled and finished until it is done.
RECURSIVE EncodeEnd(_, _, _)
EncodeEnd(c, out_sz, written) ==
  LET Finish(e, all) == IF e.res # "DONE" THEN EncodeEnd(e, out_sz, all) ELSE all
      Goes(polled) ==
        IF polled.last # <<>> THEN EncodeEnd(polled.c, out_sz, polled.written)
        ELSE Finish(heatshrink_encoder_finish(polled.c), polled.written)
  IN Goes(PollAll(c, out_sz, written))

encode(chunks, w, l, out_sz) ==
  LET End(read) == EncodeEnd(read.c, out_sz, read.written)
  IN End(ReadChunks(heatshrink_encoder_alloc(w, l), chunks, out_sz, <<>>))

\* done is whether the decoder says so at the end of the file; if it does not,
\* decode asks it again without end.
decode(chunks, ibs, w, l, out_sz) ==
  LET End(read) == [written |-> read.written, done |-> heatshrink_decoder_finish(read.c)]
  IN End(ReadChunks(heatshrink_decoder_alloc(ibs, w, l), chunks, out_sz, <<>>))
=============================================================================

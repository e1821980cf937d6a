-------------------------------- MODULE EspFs --------------------------------
(***************************************************************************)
(* The read-only file system: mkespfsimage puts files into an image on the *)
(* host, espfs.c reads them from the flash of the device.                  *)
(*                                                                         *)
(* An image has bytes, the sequence of its bytes, and headers, a function  *)
(* from the offset of each header to what is in it; the bytes of a header  *)
(* themselves are of no interest.  Texts are sequences of character codes. *)
(***************************************************************************)
EXTENDS Heatshrink

HeaderSize == 16   \* sizeof(EspFsHeader)

COMPRESS_NONE       == 0
COMPRESS_HEATSHRINK == 1

Zeros(n) == [i \in 1 .. n |-> 0]

\* The next multiple of four, and the zeros up to there.
Aligned(n) == ((n + 3) \div 4) * 4

Padded(bytes) == bytes \o Zeros(Aligned(Len(bytes)) - Len(bytes))

-----------------------------------------------------------------------------
(* mkespfsimage *)

\* Window and lookahead for the levels 1 to 9; -1 is level 8.
LevelParms(level) ==
  LET n == ((IF level = -1 THEN 8 ELSE level) - 1) \div 2 + 1
  IN [w |-> <<5, 6, 8, 11, 13>>[n], l |-> <<3, 3, 4, 4, 4>>[n]]

\* One poll after each sink, with the rest of the output buffer; finish is
\* called when all input is sunk.
RECURSIVE CompressInto(_, _, _, _)
CompressInto(e, in, outsize, out) ==
  LET Polled(ready) == heatshrink_encoder_poll(ready, outsize - Len(out))
      Goes(polled, rest) ==
        IF rest = <<>> THEN out \o polled.out
        ELSE CompressInto(polled, rest, outsize, out \o polled.out)
      Polls(sunk, rest) ==
        Goes(Polled(IF rest = <<>> THEN heatshrink_encoder_finish(sunk) ELSE sunk), rest)
      Sunk(sunk) == Polls(sunk, SubSeq(in, sunk.sunk + 1, Len(in)))
  IN Sunk(heatshrink_encoder_sink(e, in))

\* The parameters of the encoder are the first byte.
compressHeatshrink(in, outsize, level) ==
  LET p == LevelParms(level)
  IN CompressInto(heatshrink_encoder_alloc(p.w, p.l), in, outsize, <<16 * p.w + p.l>>)

\* The last header says that there are no more files.
finishArchive(image) ==
  [bytes   |-> image.bytes \o Zeros(HeaderSize),
   headers |-> image.headers @@ (Len(image.bytes) :> [last |-> TRUE])]

\* What compression made larger is stored as it is.
Packed(data, compression, level) ==
  LET Smaller(packed) ==
        IF compression = COMPRESS_HEATSHRINK /\ Len(packed) <= Len(data)
          THEN [compression |-> COMPRESS_HEATSHRINK, data |-> packed]
        ELSE [compression |-> COMPRESS_NONE, data |-> data]
  IN Smaller(compressHeatshrink(data, 2 * Len(data), level))

\* Header, name with its terminator, data, each ending at a multiple of four.  An
\* empty file cannot be mapped and is left out.
handleFile(image, file, compression, level) ==
  LET Header(packed) ==
        [last |-> FALSE, compression |-> packed.compression,
         nameLen |-> Aligned(Len(file.name) + 1),
         fileLenComp |-> Len(packed.data), fileLenDecomp |-> Len(file.data)]
      With(packed) ==
        [bytes   |-> image.bytes \o Zeros(HeaderSize) \o Padded(file.name \o <<0>>)
                       \o Padded(packed.data),
         headers |-> image.headers @@ (Len(image.bytes) :> Header(packed))]
  IN IF file.data = <<>> THEN image ELSE With(Packed(file.data, compression, level))

Dot   == 46
Slash == 47

\* Without the "./" that find puts in front.
realName(path) ==
  LET undotted == IF path[1] = Dot THEN Tail(path) ELSE path
  IN IF undotted # <<>> /\ undotted[1] = Slash THEN Tail(undotted) ELSE undotted

\* The image of a list of files, each with its path and data.
mkespfsimage(files, compression, level) ==
  LET after[k \in 0 .. Len(files)] ==
        IF k = 0 THEN [bytes |-> <<>>, headers |-> <<>>]
        ELSE handleFile(after[k - 1], [name |-> realName(files[k].path), data |-> files[k].data],
                        compression, level)
  IN finishArchive(after[Len(files)])

-----------------------------------------------------------------------------
(* espfs.c.  Offsets count from 0; an open file has the image, the header, *)
(* where its data begins and where it is read, and how much is read.       *)

NoFile == [open |-> FALSE]

BytesAt(image, offset, n) ==
  SubSeq(image.bytes, offset + 1, Min({offset + n, Len(image.bytes)}))

\* The text from an offset to its terminator.
NameAt(image, offset) ==
  LET end == CHOOSE e \in offset .. Len(image.bytes) - 1 :
               /\ image.bytes[e + 1] = 0
               /\ \A i \in offset .. e - 1 : image.bytes[i + 1] # 0
  IN BytesAt(image, offset, end - offset)

RECURSIVE StripSlashes(_)
StripSlashes(name) ==
  IF name # <<>> /\ name[1] = Slash THEN StripSlashes(Tail(name)) ELSE name

\* Behind name and data, at the next multiple of four.
NextHeader(h, contents) == Aligned(contents + h.nameLen + h.fileLenComp)

\* NULL where a header is missing or the last one says so.
RECURSIVE FindFile(_, _, _)
FindFile(image, name, offset) ==
  LET h == image.headers[offset]
      contents == offset + HeaderSize
  IN IF offset \notin DOMAIN image.headers THEN NoFile
     ELSE IF h.last THEN NoFile
     ELSE IF NameAt(image, contents) = name
       THEN [open |-> TRUE, image |-> image, header |-> h, posStart |-> contents + h.nameLen,
             posComp |-> contents + h.nameLen, posDecomp |-> 0, dec |-> <<>>]
     ELSE FindFile(image, name, NextHeader(h, contents))

\* The decoder's parameters are the first byte of the data.
espFsOpen(image, name) ==
  LET Opened(file, parm) ==
        [file EXCEPT !.posComp = @ + 1,
                     !.dec = heatshrink_decoder_alloc(16, parm \div 16, parm % 16)]
      Found(file) ==
        IF ~file.open THEN NoFile
        ELSE IF file.header.compression = COMPRESS_NONE THEN file
        ELSE Opened(file, image.bytes[file.posComp + 1])
  IN Found(FindFile(image, StripSlashes(name), 0))

\* How much of the stored data is left.
Left(file) == file.header.fileLenComp - (file.posComp - file.posStart)

\* What is left of the data is sunk, as much as the decoder takes, and it is
\* polled; once nothing is left that is the last time, however little it gave.
RECURSIVE Decompress(_, _, _)
Decompress(file, buff, len) ==
  LET elen == Left(file)
      sunk == IF elen > 0 THEN heatshrink_decoder_sink(file.dec,
                                 BytesAt(file.image, file.posComp, Min({elen, 16})))
              ELSE [file.dec EXCEPT !.sunk = 0]
      Goes(now, all) ==
        IF elen = 0 \/ Len(all) >= len THEN [file |-> now, buff |-> all]
        ELSE Decompress(now, all, len)
      Polled(polled) ==
        Goes([file EXCEPT !.dec = polled, !.posComp = @ + sunk.sunk,
                          !.posDecomp = @ + Len(polled.out)],
             buff \o polled.out)
  IN Polled(heatshrink_decoder_poll(sunk, len - Len(buff)))

\* At most len bytes of an open file, and the file behind them.
espFsRead(file, len) ==
  LET n == Min({len, Left(file)})
  IN IF file.header.compression = COMPRESS_NONE
       THEN [file |-> [file EXCEPT !.posDecomp = @ + n, !.posComp = @ + n],
             buff |-> BytesAt(file.image, file.posComp, n)]
     ELSE IF file.posDecomp = file.header.fileLenDecomp THEN [file |-> file, buff |-> <<>>]
     ELSE Decompress(file, <<>>, len)

\* The pieces a reader gets who stops at the first one that is not full.
RECURSIVE Pieces(_, _)
Pieces(file, len) ==
  LET Goes(read) ==
        IF Len(read.buff) < len THEN <<read.buff>>
        ELSE <<read.buff>> \o Pieces(read.file, len)
  IN Goes(espFsRead(file, len))
=============================================================================

---------------------------- MODULE FrameDecoder ----------------------------
(***************************************************************************)
(* EslFrameDecoder (server/esl.ts): the frames of a connection, cut out of *)
(* the chunks TCP delivers.  A frame is a header section, an empty line,   *)
(* and as many bytes of body as the header section says; a body may hold   *)
(* empty lines itself.                                                     *)
(*                                                                         *)
(* A header section is one byte: the length it announces.  A section that  *)
(* announces no number, or a frame above 8 MiB, ends the connection, which *)
(* is SocketFails of EslClient.                                            *)
(***************************************************************************)
EXTENDS Naturals, Sequences, SequencesExt

CONSTANTS
  Bodies,      \* sequences of bytes that frames carry
  MaxStream    \* bound on the frames of a stream

LF == 10
CR == 13

ASSUME BodyAssumption == \A b \in Bodies : b \in Seq(Nat) /\ Len(b) < LF

EmptyLines == {<<LF, LF>>, <<CR, LF, CR, LF>>}

\* indexOf(): the first place of a delimiter from a place on, or 0.
IndexOf(bytes, from, delimiter) ==
  LET places == {i \in from..Len(bytes) + 1 - Len(delimiter) :
                   SubSeq(bytes, i, i + Len(delimiter) - 1) = delimiter} IN
  IF places = {} THEN 0 ELSE Min(places)

\* Where the header section ends, and how: at the first empty line of either kind.
Separator(bytes, from) ==
  LET lf == IndexOf(bytes, from, <<LF, LF>>)
      crlf == IndexOf(bytes, from, <<CR, LF, CR, LF>>) IN
  IF crlf > 0 /\ (lf = 0 \/ crlf < lf) THEN [at |-> crlf, length |-> 4] ELSE [at |-> lf, length |-> 2]

\* push(): the bodies of the frames that are whole, and the bytes that wait for more.
Push(buffer, chunk) ==
  LET bytes == buffer \o chunk
      split[from \in 1..Len(bytes) + 1] ==
        LET separator == Separator(bytes, from)
            body == separator.at + separator.length
            end == body + bytes[from] IN
        IF from > Len(bytes) \/ separator.at = 0 \/ end > Len(bytes) + 1
        THEN [frames |-> <<>>, buffer |-> SubSeq(bytes, from, Len(bytes))]
        ELSE [frames |-> <<SubSeq(bytes, body, end - 1)>> \o split[end].frames,
              buffer |-> split[end].buffer] IN
  split[1]

Decoded(chunks) ==
  FoldLeft(LAMBDA read, chunk :
             LET next == Push(read.buffer, chunk) IN
             [frames |-> read.frames \o next.frames, buffer |-> next.buffer],
           [frames |-> <<>>, buffer |-> <<>>], chunks)

-----------------------------------------------------------------------------
(* What the gateway writes: frames one after the other. *)

Encoded(frame) == <<Len(frame.body)>> \o frame.line \o frame.body
Streams == BoundedSeq([body : Bodies, line : EmptyLines], MaxStream)
Bytes(stream) == FlattenSeq([i \in DOMAIN stream |-> Encoded(stream[i])])

\* However a stream is cut into chunks, every frame is delivered once, in order and whole,
\* and as soon as its last byte arrived: nothing waits for a byte of the next frame, as the
\* reply of a command would while FreeSWITCH is silent.  (EslFrameDecoder.push)
DecodesAsSent ==
  \A stream \in Streams :
    LET bytes == Bytes(stream)
        whole(n) == SelectSeq([k \in DOMAIN stream |-> k],
                              LAMBDA k : Len(Bytes(SubSeq(stream, 1, k))) <= n) IN
    \A i \in 0..Len(bytes) : \A j \in i..Len(bytes) :
      LET chunks == <<SubSeq(bytes, 1, i), SubSeq(bytes, i + 1, j)>> IN
      Decoded(chunks).frames = [n \in DOMAIN whole(j) |-> stream[n].body]
=============================================================================

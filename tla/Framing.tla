------------------------------ MODULE Framing -------------------------------
(***************************************************************************)
(* The receive buffer of one connection: the loop of connnection_handler   *)
(* (server/aesdsocket.c) with append_string (server/datafile.c).  Each     *)
(* recv() is cut after its first newline; what comes before completes the  *)
(* line in the buffer, which is written out, and what comes after starts   *)
(* the next one.  The buffer is a C string in a block of maxbuflen bytes;  *)
(* buflen is the length the code computes for it.                          *)
(***************************************************************************)
EXTENDS Integers, SequencesExt

CONSTANTS Byte, NL, NUL, \* the characters received, newline and '\0' among them
          Chunks,        \* what one recv() may return
          BufferSize,    \* BUFFER_SIZE (128 in the code)
          MaxRecvs       \* bound: how many times recv() returns

ASSUME ChunksAssumption ==
  /\ {NL, NUL} \subseteq Byte /\ NL # NUL
  /\ Chunks \subseteq Seq(Byte)
  /\ \A w \in Chunks : Len(w) \in 1..BufferSize
ASSUME BufferSizeAssumption == BufferSize \in Nat \ {0}
ASSUME MaxRecvsAssumption == MaxRecvs \in Nat

VARIABLES text,      \* the string in *args->buffer, without its '\0'
          buflen, maxbuflen,
          room,      \* bytes of the block left when a line had been completed
          written,   \* the strings passed to append_datafile, in order
          received   \* everything recv() returned so far, for the properties

fvars == <<text, buflen, maxbuflen, room, written, received>>

\* The length of w as strncat and strlen see it, and that part of w.
StrLen(w) == LET first == SelectInSeq(w, LAMBDA c : c = NUL)
             IN  IF first = 0 THEN Len(w) ELSE first - 1
CString(w) == SubSeq(w, 1, StrLen(w))

\* The number of bytes up to and with the first newline, all if there is none.
HasNL(w) == Contains(w, NL)
CurrLen(w) == LET first == SelectInSeq(w, LAMBDA c : c = NL)
              IN  IF first = 0 THEN Len(w) ELSE first

\* Mutant: no room is kept for the terminating '\0'.
GrownExactly(max, len, n) == IF max < len + n THEN max + len + 2 * n ELSE max

\* append_string: the capacity after appending n bytes to a string of length len
Grown(max, len, n) == IF max < len + n + 1 THEN max + len + 2 * n ELSE max

\* Mutant: what follows the newline is dropped.
ReceiveDropsRest(w) ==
  LET line == text \o CString(SubSeq(w, 1, CurrLen(w)))
      max1 == Grown(maxbuflen, buflen, CurrLen(w))
  IN  /\ Len(received) < MaxRecvs
      /\ received' = Append(received, w)
      /\ IF HasNL(w)
         THEN /\ written' = Append(written, line)
              /\ text' = << >> /\ buflen' = 0
         ELSE /\ text' = line /\ buflen' = buflen + CurrLen(w)
              /\ UNCHANGED written
      /\ maxbuflen' = max1 /\ room' = max1 - (Len(line) + 1)

\* Mutant: the string is not emptied after it was written.
ReceiveKeepsLine(w) ==
  LET n == Len(w)
      line == text \o CString(SubSeq(w, 1, CurrLen(w)))
      rest == SubSeq(w, CurrLen(w) + 1, n)
      max1 == Grown(maxbuflen, buflen, CurrLen(w))
  IN  /\ Len(received) < MaxRecvs
      /\ received' = Append(received, w)
      /\ IF HasNL(w)
         THEN /\ written' = Append(written, line)
              /\ text' = line \o CString(rest) /\ buflen' = Len(rest)
              /\ maxbuflen' = Grown(max1, Len(rest), Len(rest))
              /\ room' = max1 - (Len(line) + 1)
         ELSE /\ text' = line /\ buflen' = buflen + CurrLen(w)
              /\ maxbuflen' = max1 /\ room' = max1 - (Len(line) + 1)
              /\ UNCHANGED written

(***************************************************************************)
(* One iteration of the loop.  For the bytes after the newline             *)
(* append_string is told the new length twice, as the length of the string *)
(* and as the number of bytes to append.                                   *)
(***************************************************************************)
Receive(w) ==
  LET line == text \o CString(SubSeq(w, 1, CurrLen(w)))
      rest == SubSeq(w, CurrLen(w) + 1, Len(w))
      max1 == Grown(maxbuflen, buflen, CurrLen(w))
  IN  /\ Len(received) < MaxRecvs
      /\ received' = Append(received, w)
      /\ room' = max1 - (Len(line) + 1)
      /\ IF HasNL(w)
         THEN /\ written' = Append(written, line)
              /\ text' = CString(rest) /\ buflen' = Len(rest)
              /\ maxbuflen' = Grown(max1, Len(rest), Len(rest))
         ELSE /\ text' = line /\ buflen' = buflen + CurrLen(w)
              /\ maxbuflen' = max1
              /\ UNCHANGED written

FInit ==
  /\ text = << >> /\ buflen = 0 /\ maxbuflen = BufferSize /\ room = BufferSize - 1
  /\ written = << >> /\ received = << >>

FNext == \E w \in Chunks : Receive(w)

FSpec == FInit /\ [][FNext]_fvars

-----------------------------------------------------------------------------
(* Properties *)

(***************************************************************************)
(* append_string never writes outside the block: the string in the buffer  *)
(* and its '\0' fit, after the part up to the newline was appended and     *)
(* after the rest was.  buflen, which the capacity is computed from, is    *)
(* never less than the real length, also when '\0' bytes are received.     *)
(***************************************************************************)
BufferFits ==
  /\ room >= 0
  /\ Len(text) <= buflen
  /\ buflen + 1 <= maxbuflen

(***************************************************************************)
(* What was written out, followed by what is in the buffer, is what was    *)
(* received: without '\0' bytes, cutting at newlines neither loses,        *)
(* repeats nor reorders a byte, however the stream was split.              *)
(***************************************************************************)
Received == FlattenSeq(received)
NothingLost ==
  ~Contains(Received, NUL) => FlattenSeq(written) \o text = Received

(***************************************************************************)
(* When no recv() brings the end of two lines, each string written is one  *)
(* line, and no complete line waits in the buffer for the next recv().     *)
(***************************************************************************)
Newlines(w) == {i \in 1..Len(w) : w[i] = NL}
OneLineAtATime == \A i \in 1..Len(received) : Cardinality(Newlines(received[i])) <= 1

WritesAreLines ==
  OneLineAtATime /\ ~Contains(Received, NUL) =>
    /\ \A i \in 1..Len(written) : Newlines(written[i]) = {Len(written[i])}
    /\ Newlines(text) = {}
=============================================================================

------------------------------ MODULE Session -------------------------------
(***************************************************************************)
(* One connection from recv() to its answer: the receive buffer (module    *)
(* Framing), append_datafile with parse_seekto_cmd (server/datafile.c),    *)
(* the ring of the device (module CircularBuffer) and send_response        *)
(* (server/aesdsocket.c), in the build that uses the char device.  The     *)
(* server's mutex makes appending a line and answering it one step.        *)
(*                                                                         *)
(* A byte of this module is a character or a word no property looks into:  *)
(* a digit is its value and SEEK is "AESDCHAR_IOCSEEKTO:", one byte long.  *)
(* An entry's buffptr is the contents of its block.                        *)
(***************************************************************************)
EXTENDS Framing, CircularBuffer

CONSTANTS SEEK, COMMA,
          ULongMax,    \* ULONG_MAX (2^64 - 1 in the code), what strtoul can return
          UIntMod,     \* 2^32 in the code: x and y of parse_seekto_cmd are uint32_t
          Garbage,     \* what an uninitialised uint32_t may hold
          OtherLines,  \* lines other connections write
          MaxOthers    \* bound: how many of them

IsDigit(b) == b \in 0..9

ASSUME CharactersAssumption ==
  /\ {SEEK, COMMA} \subseteq Byte
  /\ SEEK # COMMA /\ SEEK # NL /\ COMMA # NL
  /\ ~IsDigit(SEEK) /\ ~IsDigit(COMMA) /\ ~IsDigit(NL)
ASSUME SessionAssumption ==
  /\ ULongMax \in Nat /\ UIntMod \in Nat \ {0}
  /\ Garbage \subseteq 0..(UIntMod - 1)
  /\ OtherLines \subseteq Seq(Byte) /\ MaxOthers \in Nat

VARIABLES partial,   \* tmpbuf of the device, a line without its end
          exchange,  \* the last line written here and the bytes sent for it
          log,       \* the lines of the streams in the order of their writes
          others

vars == <<fvars, buffer, partial, exchange, log, others>>

NoExchange == [line |-> << >>, answer |-> << >>]

-----------------------------------------------------------------------------
(* parse_seekto_cmd *)

ERANGE == -1
NotSeek == << >>  \* it returns -1

Number(digits) ==
  LET value[n \in 0..Len(digits)] == IF n = 0 THEN 0 ELSE 10 * value[n - 1] + digits[n]
  IN  value[Len(digits)]

\* strtoul, its result assigned to a uint32_t: skips white space, stops at the
\* first character that is no digit, sets errno when the number does not fit
Strtoul(s) ==
  LET from == SelectInSeq(s, LAMBDA b : b # NL)
      rest == IF from = 0 THEN << >> ELSE SubSeq(s, from, Len(s))
      end == SelectInSeq(rest, LAMBDA b : ~IsDigit(b))
      digits == IF end = 0 THEN rest ELSE SubSeq(rest, 1, end - 1)
  IN  IF Number(digits) > ULongMax THEN ERANGE ELSE Number(digits) % UIntMod

(***************************************************************************)
(* The results parse_seekto_cmd can have.  The text from the match to the  *)
(* first comma gives x, the rest y; a part that never comes leaves x or y  *)
(* uninitialised.  The loop ends strlen(buf) bytes after the match, not    *)
(* after buf: when the match is not at the start it reads past the '\0',   *)
(* where it may find the comma that was missing.                           *)
(***************************************************************************)
ParseSeekTo(buf) ==
  LET cmd == SelectInSeq(buf, LAMBDA b : b = SEEK)
      args == SubSeq(buf, cmd + 1, Len(buf))
      comma == SelectInSeq(args, LAMBDA b : b = COMMA)
      Value(s) == IF s = << >> THEN Garbage ELSE {Strtoul(s)}
      xy == IF comma # 0
            THEN {Strtoul(SubSeq(args, 1, comma - 1))} \X
                   Value(SubSeq(args, comma + 1, Len(args)))
            ELSE (Garbage \X Value(args))
                   \cup (IF cmd > 1 THEN {Strtoul(args)} \X (Garbage \cup {ERANGE})
                         ELSE {})
  IN  IF cmd = 0 THEN {NotSeek}
      ELSE {IF ERANGE \in {p[1], p[2]} THEN NotSeek ELSE p : p \in xy}

-----------------------------------------------------------------------------
(* append_datafile and send_response, on a descriptor just opened *)

(***************************************************************************)
(* aesd_write takes the bytes up to the first newline; its short count is  *)
(* not looked at, the other bytes are gone.                                *)
(***************************************************************************)
DeviceWrite(buf) ==
  LET tmpbuf == partial \o SubSeq(buf, 1, CurrLen(buf))
  IN  IF Last(tmpbuf) = NL
      THEN /\ buffer' = AddEntry(buffer, [buffptr |-> tmpbuf, size |-> Len(tmpbuf)])
           /\ partial' = << >>
      ELSE partial' = tmpbuf /\ UNCHANGED buffer

\* aesd_unlocked_ioctl: the command number becomes a uint8_t; the position of
\* the new descriptor stays 0 when the seek is refused
DeviceSeek(seekto) ==
  LET pos == JmpEntryOffset(buffer, seekto[1] % 256, seekto[2])
  IN  IF pos < 0 THEN 0 ELSE pos

\* Mutant: a seek command is also stored.
AppendDatafileStoresAll(buf, seekto) == DeviceWrite(buf)

AppendDatafile(buf, seekto) ==
  IF seekto = NotSeek THEN DeviceWrite(buf) ELSE UNCHANGED <<buffer, partial>>

\* Mutant: send_response goes back to the start of the device.
PositionRewound(seekto) == 0

\* aesd_write leaves the position 0, and adjust_datafile_pos does nothing
PositionAfter(seekto) == IF seekto = NotSeek THEN 0 ELSE DeviceSeek(seekto)

\* send_response: each read() returns the rest of one entry
Response(b, pos) ==
  LET sent[p \in Nat] ==
        LET found == FindEntry(b, p)
            data == b.entry[found.ind].buffptr
        IN  IF found = NULL THEN << >>
            ELSE SubSeq(data, found.offset + 1, Len(data))
                   \o sent[p + Len(data) - found.offset]
  IN  sent[pos]

-----------------------------------------------------------------------------
\* The last line of a stream that ends with a newline or goes on after it.
LastLine(s) ==
  LET ends == Newlines(s)
      end == Max(ends)
      before == Max({0} \cup (ends \ {end}))
  IN  SubSeq(s, before + 1, end)

(***************************************************************************)
(* A recv() and what it leads to.  A '\0' before everything else makes an  *)
(* empty string, whose write() the driver does not survive (count 0): such *)
(* a recv() is left out.                                                   *)
(***************************************************************************)
Deliver(w) ==
  /\ Receive(w)
  /\ IF ~HasNL(w) THEN UNCHANGED <<buffer, partial, exchange, log>>
     ELSE /\ Last(written') # << >>
          /\ \E seekto \in ParseSeekTo(Last(written')) :
               /\ AppendDatafile(Last(written'), seekto)
               /\ exchange' = [line |-> Last(written'),
                               answer |-> Response(buffer', PositionAfter(seekto))]
          /\ log' = Append(log, LastLine(FlattenSeq(received')))
  /\ UNCHANGED others

\* Another connection writes a line.
OtherLine(line) ==
  /\ others < MaxOthers
  /\ others' = others + 1
  /\ DeviceWrite(line)
  /\ log' = Append(log, line)
  /\ exchange' = NoExchange
  /\ UNCHANGED fvars

SInit ==
  /\ FInit /\ CBInit
  /\ partial = << >> /\ exchange = NoExchange /\ log = << >> /\ others = 0

SNext == (\E w \in Chunks : Deliver(w)) \/ (\E line \in OtherLines : OtherLine(line))

SSpec == SInit /\ [][SNext]_vars

-----------------------------------------------------------------------------
(* Properties *)

\* The lines the device keeps, oldest first, and everything it holds.
Kept(b) == [k \in 1..Count(b) |-> Contents(b)[k].buffptr]
Stream(b) == FlattenSeq(Kept(b))

\* The numbers of a line, around its comma.
Comma(line) == SelectInSeq(line, LAMBDA b : b = COMMA)
SeekX(line) == SubSeq(line, 2, Comma(line) - 1)
SeekY(line) == SubSeq(line, Comma(line) + 1, Len(line) - 1)

\* "AESDCHAR_IOCSEEKTO:X,Y" and a newline, the numbers in range or not.
IsSeekLine(line) ==
  /\ Comma(line) \in 3..(Len(line) - 2)
  /\ line[1] = SEEK /\ line[Len(line)] = NL
  /\ \A i \in 2..(Len(line) - 1) : i # Comma(line) => IsDigit(line[i])

\* A line to be stored: one that is no seek, or a seek strtoul refuses.
IsCommand(line) ==
  \/ ~Contains(line, SEEK)
  \/ IsSeekLine(line) /\ (Number(SeekX(line)) > ULongMax \/ Number(SeekY(line)) > ULongMax)

\* Other connections write lines; their seeks change nothing and are left out.
ASSUME OtherLinesAssumption ==
  \A line \in OtherLines : Newlines(line) = {Len(line)} /\ IsCommand(line)

\* The lines to be stored among the given ones, in their order.
Commands(lines) ==
  LET upto[n \in 0..Len(lines)] ==
        IF n = 0 THEN << >>
        ELSE IF IsCommand(lines[n]) THEN Append(upto[n - 1], lines[n]) ELSE upto[n - 1]
  IN  upto[Len(lines)]

(***************************************************************************)
(* The commands kept are the latest lines of all connections, in the order *)
(* in which they were completed, and nothing else: no seek command is      *)
(* stored, no line lost, split or merged, as long as clients send one line *)
(* at a time, without '\0', and seek commands are well formed.             *)
(***************************************************************************)
LinesAreCommands ==
  /\ OneLineAtATime /\ ~Contains(Received, NUL)
  /\ \A i \in 1..Len(log) : Contains(log[i], SEEK) => IsSeekLine(log[i])
  => LET commands == Commands(log)
         n == Len(commands)
     IN  /\ partial = << >>
         /\ Count(buffer) = Min({n, MaxEntries})
         /\ Kept(buffer) = SubSeq(commands, n - Count(buffer) + 1, n)

(***************************************************************************)
(* A line is answered with everything the device holds.                    *)
(* AESDCHAR_IOCSEEKTO:X,Y is answered from byte Y of command X on, counted *)
(* from the oldest; X is cut to 32 and then to 8 bits, Y to 32, and        *)
(* everything is sent when there is no such byte.  For commands at slots   *)
(* before the end of the array; the others are what SeekLandsInCommand is  *)
(* about.                                                                  *)
(***************************************************************************)
SeekAnswers ==
  LET line == exchange.line
      x == (Number(SeekX(line)) % UIntMod) % 256
      y == Number(SeekY(line)) % UIntMod
      all == Stream(buffer)
  IN  /\ line # << >> /\ IsCommand(line) => exchange.answer = all
      /\ line # << >> /\ IsSeekLine(line) /\ ~IsCommand(line)
         /\ buffer.out_offs + x < MaxEntries =>
           exchange.answer =
             IF x < Count(buffer) /\ y < Contents(buffer)[x + 1].size
             THEN SubSeq(all, PrefixSize(buffer, x) + y + 1, Len(all))
             ELSE all
=============================================================================

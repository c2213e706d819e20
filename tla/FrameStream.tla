---------------------------- MODULE FrameStream ----------------------------
(* The framing of serial lines: core::FrameStreamWriter and                  *)
(* core::FrameStreamReader (lmrs/core/framestream.cpp), in the formats of    *)
(* the LokProgrammer (esu/lp2stream.h) and the MX1 (zimo/mx1message.h).      *)
(*                                                                           *)
(* A frame is two start markers, its payload, whose markers are escaped, and *)
(* a stop marker.  The reader gets the bytes in chunks of any length and     *)
(* looks for the next frame in what it has buffered.                         *)
(*                                                                           *)
(* Abstractions.  Bytes are the three markers, one other byte and what the   *)
(* mask turns them into.  Each byte carries the number of the frame it was   *)
(* written for, which the code does not see.                                 *)
EXTENDS Integers, SequencesExt, Functions, FiniteSetsExt

CONSTANTS
    Payloads,       \* the frames that are written, at most once each
    MinimumSize,    \* template argument of the reader, the size of a message header
    Errors,         \* what a damaged byte may turn into
    MaxDamage       \* bound: bytes damaged, times the reader is reset

Start  == "S"
Stop   == "E"
Escape == "X"
StartLength == 2
Plain  == {"a"}
Masked == [S |-> "s", E |-> "e", X |-> "x", a |-> "A",
           s |-> "S", e |-> "E", x |-> "X", A |-> "a"]
Byte   == DOMAIN Masked

FrameAssumption ==
    /\ MinimumSize \in Nat \ {0} /\ MaxDamage \in Nat /\ Errors \subseteq Byte
    /\ \A p \in Payloads : p \in Seq(Byte) /\ Len(p) >= MinimumSize

VARIABLES
    masking,    \* FrameFormat::mask is not zero (MX1), or is (LokProgrammer)
    written,    \* payloads written so far
    line,       \* bytes under way: [byte, of]
    buffer,     \* FrameStreamReader::Private::buffer
    frames,     \* the frames read: sequences of [byte, of]
    damaged,    \* numbers of the frames that were tampered with
    damages,
    idle        \* the last call of readNext() found no frame

vars == <<masking, written, line, buffer, frames, damaged, damages, idle>>

Init ==
    /\ masking \in BOOLEAN
    /\ written = <<>> /\ line = <<>> /\ buffer = <<>> /\ frames = <<>>
    /\ damaged = {} /\ damages = 0 /\ idle = TRUE

-----------------------------------------------------------------------------
(* The format.                                                               *)

EscapeNeeded(b) == b \in {Start, Stop, Escape}
\* FrameFormat::escaped() and unescaped().
Escaped(b) == IF masking THEN Masked[b] ELSE b

\* FrameStreamWriter::writeFrame().
Encode(payload) ==
    <<Start, Start>>
        \o FlattenSeq([i \in DOMAIN payload |->
               IF EscapeNeeded(payload[i]) THEN <<Escape, Escaped(payload[i])>>
                                           ELSE <<payload[i]>>])
        \o <<Stop>>

-----------------------------------------------------------------------------
(* FrameStreamReader::readNext(), on the bytes b of its buffer.              *)

\* The payload from position i on, and where its stop marker is: 0 if it is not
\* there yet.  Start markers are passed over, so that a frame without its stop
\* marker runs into the next one.
Scan(b, i) ==
    LET missing == [end |-> 0, frame |-> <<>>]
        with(c, rest) == [rest EXCEPT !.frame = <<c>> \o @]
        scan[k \in i..(Len(b) + 1)] ==
            IF k > Len(b) THEN missing
            ELSE IF b[k].byte = Stop THEN [end |-> k, frame |-> <<>>]
            ELSE IF b[k].byte = Start THEN scan[k + 1]
            ELSE IF b[k].byte # Escape THEN with(b[k], scan[k + 1])
            ELSE IF k + 2 <= Len(b)
                THEN with([b[k + 1] EXCEPT !.byte = Escaped(@)], scan[k + 2])
            ELSE missing
    IN  scan[i]

\* Outcomes: the buffer afterwards and the frame, if there is one.
Nothing(b)   == [buffer |-> b, found |-> FALSE, frame |-> <<>>]
Found(b, s)  == [buffer |-> SubSeq(b, s.end + 1, Len(b)), found |-> TRUE, frame |-> s.frame]

\* A slip: after a frame the rest of the chunk is dropped.
DropRest(b, i) ==
    IF Scan(b, i).end = 0 THEN Nothing(b)
    ELSE [buffer |-> <<>>, found |-> TRUE, frame |-> Scan(b, i).frame]
Complete(b, i) == IF Scan(b, i).end = 0 THEN Nothing(b) ELSE Found(b, Scan(b, i))

\* Without a start marker the buffer is cleared; too few of them are skipped.
NextFrame(b) ==
    LET next[o \in 1..(Len(b) + 1)] ==
            LET starts == {i \in o..Len(b) : b[i].byte = Start}
                start  == Min(starts)
                after  == Min({i \in (start + 1)..Len(b) : b[i].byte # Start} \union {Len(b) + 1})
            IN  IF o > Len(b) THEN Nothing(b)
                ELSE IF starts = {} THEN Nothing(<<>>)
                ELSE IF start - 1 + StartLength + MinimumSize + 1 > Len(b) THEN Nothing(b)
                ELSE IF after - start < StartLength THEN next[after]
                ELSE Complete(b, after)
    IN  next[1]

-----------------------------------------------------------------------------

WriteFrame ==
    /\ \E p \in Payloads \ Range(written) :
        /\ written' = Append(written, p)
        /\ line' = line \o [i \in DOMAIN Encode(p) |->
                               [byte |-> Encode(p)[i], of |-> Len(written) + 1]]
    /\ UNCHANGED <<masking, buffer, frames, damaged, damages, idle>>

\* The n bytes the device has are added to the buffer.
Appended(n) == buffer \o SubSeq(line, 1, n)

ReadNext(n) ==
    /\ n <= Len(line)
    /\ LET result == NextFrame(Appended(n))
       IN  /\ buffer' = result.buffer
           /\ frames' = IF result.found THEN Append(frames, result.frame) ELSE frames
           /\ idle' = ~result.found
    /\ line' = SubSeq(line, n + 1, Len(line))
    /\ UNCHANGED <<masking, written, damaged, damages>>

\* A byte on the line gets lost, or becomes another one.
Damage(i) ==
    /\ damages < MaxDamage /\ damages' = damages + 1
    /\ damaged' = damaged \union {line[i].of}
    /\ \/ line' = RemoveAt(line, i)
       \/ \E e \in Errors \ {line[i].byte} : line' = [line EXCEPT ![i].byte = e]
    /\ UNCHANGED <<masking, written, buffer, frames, idle>>

\* setDevice() for a new session, in the middle of a frame perhaps.
SetDevice ==
    /\ damages < MaxDamage /\ damages' = damages + 1
    /\ damaged' = damaged \union {buffer[i].of : i \in DOMAIN buffer}
    /\ buffer' = <<>> /\ idle' = TRUE
    /\ UNCHANGED <<masking, written, line, frames>>

Next ==
    \/ WriteFrame
    \/ \E n \in 0..Len(line) : ReadNext(n)
    \/ \E i \in DOMAIN line : Damage(i)
    \/ SetDevice

Spec == Init /\ [][Next]_vars

-----------------------------------------------------------------------------
(* Properties.                                                               *)

\* Types, and that bytes are in the line and the buffer in the order of their
\* frames.
TypeOK ==
    /\ masking \in BOOLEAN /\ idle \in BOOLEAN /\ damages \in 0..MaxDamage
    /\ written \in Seq(Payloads) /\ damaged \subseteq DOMAIN written
    /\ LET bytes == buffer \o line
       IN  \A i \in DOMAIN bytes :
               /\ bytes[i].byte \in Byte /\ bytes[i].of \in DOMAIN written
               /\ i > 1 => bytes[i - 1].of <= bytes[i].of

Bytes(frame) == [i \in DOMAIN frame |-> frame[i].byte]

\* On an undamaged line the frames that readNext() returns are those that
\* writeFrame() was given, in order, and none is left behind, whatever the
\* payloads contain and wherever the chunks end.
FramesSurviveChunks ==
    damages = 0 =>
        /\ IsPrefix([i \in DOMAIN frames |-> Bytes(frames[i])], written)
        /\ line = <<>> /\ idle => Len(frames) = Len(written)

\* After damage readNext() finds its way back: a frame that is whole is read if
\* the one before it is, too.
Resynchronises ==
    line = <<>> /\ idle =>
        \A k \in DOMAIN written :
            {k, k - 1} \intersect damaged = {} =>
                written[k] \in {Bytes(frames[i]) : i \in DOMAIN frames}
=============================================================================

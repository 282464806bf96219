------------------------- MODULE BackChannelParser --------------------------
(***************************************************************************)
(* BackChannelParser::feed() and dispatch() (src/Backchannelparser.cpp):   *)
(* the stream of bytes from the phone cut into frames                      *)
(*     MAGIC, length low, length high, command, payload                    *)
(* and turned into callbacks.  feed() keeps nothing between two bytes but  *)
(* the buffer, so how the stream is cut into writes makes no difference    *)
(* and a byte is a step.                                                   *)
(*                                                                         *)
(* The phone sends frames of the set Frames; a run of up to MaxLost bytes  *)
(* of each is lost on the way.  Its reconnection resets the parser.        *)
(***************************************************************************)
EXTENDS Integers, Sequences, FiniteSets

CONSTANTS
    BUF_SIZE,       \* bytes of the parser's buffer
    Frames,         \* what the phone may send
    MaxLost,        \* bound: consecutive bytes lost of a frame
    MaxFaults       \* bound: frames of a session that lose bytes

BC_MAGIC == 165
BC_CMD_PONG == 241
BC_CMD_KEY1 == 242
BC_CMD_KEY2 == 243
BC_CMD_TOUCH_DOWN == 16
BC_CMD_TOUCH_MOVE == 17
BC_CMD_TOUCH_UP == 18
BC_TOUCH_PAYLOAD_LEN == 5

Byte == 0..255

ASSUME FrameAssumption == /\ BUF_SIZE \in Nat /\ BUF_SIZE >= 4
                          /\ \A f \in Frames : f \in Seq(Byte) /\ Len(f) >= 4
                          /\ MaxLost \in Nat /\ MaxFaults \in Nat

VARIABLES
    buf,            \* _buf[0.._len)
    wire,           \* bytes on their way
    frame,          \* the frame those bytes belong to
    faults,         \* frames of this session that lost bytes
    since           \* history: frames since the last one that explains a
                    \* loss of step, up to LongAgo

vars == <<buf, wire, frame, faults, since>>

(* What the parser has taken for a frame is not longer than its buffer,    *)
(* and no frame is shorter than four bytes: so many frames at most are     *)
(* swallowed by one that began before them.                                *)
Swallowed == (BUF_SIZE + 2) \div 4
LongAgo == Swallowed + 1

Init == /\ buf = <<>> /\ wire = <<>> /\ frame = <<>>
        /\ faults = 0 /\ since = LongAgo

-----------------------------------------------------------------------------

(* the size announced by the two length bytes of b, with the header *)
TotalSize(b) == 3 + b[2] + 256 * b[3]

(* What the phone sends keeps to the protocol: it announces its own length *)
(* and is not longer than the buffer.  TypeOK does not depend on it.       *)
ASSUME ProtocolAssumption ==
    \A f \in Frames :
        f[1] = BC_MAGIC /\ TotalSize(f) = Len(f) /\ Len(f) <= BUF_SIZE

Int16(hi, lo) == LET v == 256 * hi + lo IN IF v < 32768 THEN v ELSE v - 65536

None == [call |-> "none"]

(* dispatch(): the callback a complete frame fires *)
Dispatch(b) ==
    CASE b[4] = BC_CMD_PONG -> [call |-> "pong"]
      [] b[4] = BC_CMD_KEY1 -> [call |-> "key", key |-> 1]
      [] b[4] = BC_CMD_KEY2 -> [call |-> "key", key |-> 2]
      [] b[4] \in {BC_CMD_TOUCH_DOWN, BC_CMD_TOUCH_MOVE} ->
            IF Len(b) - 4 >= BC_TOUCH_PAYLOAD_LEN
            THEN [call |-> "touch", cmd |-> b[4],
                  x |-> Int16(b[5], b[6]), y |-> Int16(b[7], b[8])]
            ELSE None
      [] b[4] = BC_CMD_TOUCH_UP ->
            [call |-> "touch", cmd |-> b[4], x |-> 0, y |-> 0]
      [] OTHER -> None

(* one turn of feed(): the buffer it leaves and the callback it fires *)
Turn(b, call) == [buf |-> b, call |-> call]

(* Fault: a frame may start with any byte. *)
FeedAnyStart(old, byte) ==
    LET b == Append(old, byte)
        overrun == old # <<>> /\ Len(old) >= BUF_SIZE
        wrongLength == Len(b) >= 3 /\ (TotalSize(b) < 4 \/ TotalSize(b) > BUF_SIZE)
        complete == Len(b) >= 3 /\ Len(b) >= TotalSize(b)
    IN IF overrun \/ wrongLength THEN Turn(<<>>, None)
       ELSE IF complete THEN Turn(<<>>, Dispatch(b))
       ELSE Turn(b, None)

FeedByte(old, byte) ==
    LET b == Append(old, byte)
        noStart == old = <<>> /\ byte # BC_MAGIC
        overrun == old # <<>> /\ Len(old) >= BUF_SIZE
        wrongLength == Len(b) >= 3 /\ (TotalSize(b) < 4 \/ TotalSize(b) > BUF_SIZE)
        complete == Len(b) >= 3 /\ Len(b) >= TotalSize(b)
    IN IF noStart \/ overrun \/ wrongLength THEN Turn(<<>>, None)
       ELSE IF complete THEN Turn(<<>>, Dispatch(b))
       ELSE Turn(b, None)

-----------------------------------------------------------------------------

(* Whatever feed() takes for a frame when it is out of step, from byte i   *)
(* of f on, it has given up or completed by the end of f.                  *)
Contained(f) ==
    \A i \in 2..Len(f) : f[i] = BC_MAGIC =>
        /\ i + 2 <= Len(f)
        /\ LET total == TotalSize(SubSeq(f, i, Len(f)))
           IN total < 4 \/ total > BUF_SIZE \/ i + total - 1 <= Len(f)

(* The phone writes a frame, of which the bytes first..last get lost. *)
PhoneSends(f, first, last) ==
    /\ wire = <<>>
    /\ last - first < MaxLost
    /\ frame' = f
    /\ wire' = SubSeq(f, 1, first - 1) \o SubSeq(f, last + 1, Len(f))
    /\ IF first <= last
       THEN faults < MaxFaults /\ faults' = faults + 1 /\ since' = 0
       ELSE /\ since' = IF since = LongAgo THEN LongAgo ELSE since + 1
            /\ UNCHANGED faults
    /\ UNCHANGED buf

(* the callback of the frame under way, at its last byte, and none before *)
Right(call) == call = IF Len(wire) = 1 THEN Dispatch(frame) ELSE None

(* A whole frame at the end of which the parser is in the middle of one    *)
(* explains what comes after it only if it is not contained.               *)
Feed ==
    /\ wire # <<>>
    /\ LET turn == FeedByte(buf, Head(wire))
           open == Len(wire) = 1 /\ turn.buf # <<>>
       IN /\ buf' = turn.buf
          /\ since' = IF open /\ ~Contained(frame) THEN 0 ELSE since
    /\ wire' = Tail(wire)
    /\ UNCHANGED <<frame, faults>>

(* Fault: what was half received stays. *)
ResetKeepsBuf ==
    /\ wire' = <<>> /\ frame' = <<>> /\ faults' = 0 /\ since' = LongAgo
    /\ UNCHANGED buf

(* the phone reconnects: reset(), whatever was half received *)
Reset ==
    /\ buf' = <<>>
    /\ wire' = <<>> /\ frame' = <<>> /\ faults' = 0 /\ since' = LongAgo

Next == \/ \E f \in Frames : \E first \in 1..Len(f) :
              \E last \in (first - 1)..Len(f) : PhoneSends(f, first, last)
        \/ Feed \/ Reset

Spec == Init /\ [][Next]_vars

-----------------------------------------------------------------------------
(* Properties.                                                             *)

(* The buffer holds the start of a frame and always has room for the next  *)
(* byte: the check of the announced length makes the overrun branch of     *)
(* feed() unreachable.                                                     *)
TypeOK ==
    /\ buf \in Seq(Byte) /\ Len(buf) < BUF_SIZE
    /\ buf # <<>> => buf[1] = BC_MAGIC
    /\ wire \in Seq(Byte)
    /\ faults \in 0..MaxFaults /\ since \in 0..LongAgo

(* The parser is in step, with the beginning of the frame whose rest is on *)
(* its way and nothing between two frames, unless one of the last          *)
(* Swallowed frames lost a byte, or is not contained and left it open.     *)
InStep == since = LongAgo =>
             IF wire = <<>> THEN buf = <<>> ELSE frame = buf \o wire

(* Then each frame fires its own callback with its last byte, and none     *)
(* comes before: no touch is missed and no key is pressed that was not.    *)
Resync == [][Feed /\ since = LongAgo
                => Right(FeedByte(buf, Head(wire)).call)]_vars

=============================================================================

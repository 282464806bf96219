---------------------- MODULE BackChannelParserProofs -----------------------
(* Proofs about BackChannelParser, for every size of the buffer and every  *)
(* set of frames.                                                          *)
EXTENDS BackChannelParser, SequenceTheorems, TLAPS

(* Where the parser stands.  The bytes on their way are the end of a whole *)
(* frame ...                                                               *)
Fed == Len(frame) - Len(wire)

RestOfFrame == /\ frame \in Frames /\ Len(wire) <= Len(frame)
               /\ \A k \in 1..Len(wire) : wire[k] = frame[Fed + k]

(* ... of which the buffer holds the beginning ...                         *)
InFrame == frame = buf \o wire

(* ... or, out of step, what came from its byte i on ...                   *)
From(b, f, i, j) ==
    /\ i \in 2..(j + 1) /\ Len(b) = j + 1 - i
    /\ \A k \in 1..Len(b) : b[k] = f[i + k - 1]

InsideFrame == /\ since # LongAgo
               /\ \E i \in 2..(Fed + 1) : From(buf, frame, i, Fed)

(* ... or all of it so far, after all of the frames before it down to the  *)
(* one that lost bytes, of which at least one is left.                     *)
AcrossFrames == /\ since # LongAgo /\ buf # <<>>
                /\ Len(buf) >= 1 + 4 * (since - 1) + Fed

PlaceInv ==
    IF wire = <<>>
    THEN buf = <<>> \/ (since # LongAgo /\ Len(buf) >= 1 + 4 * since)
    ELSE since = 0 \/ (RestOfFrame /\ (InFrame \/ InsideFrame \/ AcrossFrames))

IInv == TypeOK /\ PlaceInv

-----------------------------------------------------------------------------
(* One turn of feed().                                                     *)

LEMMA BufferSize == BUF_SIZE \in Nat /\ BUF_SIZE >= 4
  BY FrameAssumption

LEMMA FramesAreBytes ==
    ASSUME NEW f \in Frames
    PROVE  f \in Seq(Byte) /\ Len(f) \in Nat /\ Len(f) >= 4
  BY FrameAssumption, LenProperties

LEMMA ByteAppended ==
    ASSUME NEW old \in Seq(Byte), NEW byte \in Byte
    PROVE  /\ Append(old, byte) \in Seq(Byte)
           /\ Len(old) \in Nat /\ Len(Append(old, byte)) = Len(old) + 1
           /\ \A i \in 1..Len(old) : Append(old, byte)[i] = old[i]
           /\ Append(old, byte)[Len(old) + 1] = byte
  BY AppendProperties, LenProperties

(* The announced length of three bytes or more is a number.                *)
LEMMA TotalSizeIsNat ==
    ASSUME NEW b \in Seq(Byte), Len(b) >= 3
    PROVE  TotalSize(b) \in Nat
<1>1. Len(b) \in Nat
  BY LenProperties
<1>2. b[2] \in Byte /\ b[3] \in Byte
  BY <1>1, ElementOfSeq
<1>3. \A x \in Byte : x \in Nat
  BY DEF Byte
<1>4. b[2] \in Nat /\ b[3] \in Nat
  BY <1>2, <1>3
<1> QED
  BY <1>4 DEF TotalSize

(* A turn leaves nothing, or the buffer with the byte, if that is no       *)
(* complete frame yet and its length is one that can be.                   *)
LEMMA TurnLeaves ==
    ASSUME NEW old \in Seq(Byte), Len(old) < BUF_SIZE, NEW byte \in Byte,
           FeedByte(old, byte).buf # <<>>
    PROVE  LET b == Append(old, byte)
           IN  /\ FeedByte(old, byte).buf = b
               /\ old = <<>> => byte = BC_MAGIC
               /\ Len(b) >= 3 => /\ TotalSize(b) \in Nat
                                 /\ TotalSize(b) >= 4
                                 /\ TotalSize(b) <= BUF_SIZE
                                 /\ Len(b) < TotalSize(b)
<1> DEFINE b == Append(old, byte)
<1>1. /\ b \in Seq(Byte) /\ Len(old) \in Nat /\ Len(b) = Len(old) + 1
  BY ByteAppended
<1>2. FeedByte(old, byte).buf = b
  BY DEF FeedByte, Turn
<1>3. old = <<>> => byte = BC_MAGIC
  BY DEF FeedByte, Turn
<1>4. ASSUME Len(b) >= 3
      PROVE  /\ TotalSize(b) \in Nat /\ TotalSize(b) >= 4
             /\ TotalSize(b) <= BUF_SIZE /\ Len(b) < TotalSize(b)
  <2>1. TotalSize(b) \in Nat
    BY <1>1, <1>4, TotalSizeIsNat
  <2>2. ~(TotalSize(b) < 4 \/ TotalSize(b) > BUF_SIZE)
    BY <1>4 DEF FeedByte, Turn
  <2>3. ~(Len(b) >= TotalSize(b))
    BY <1>4, <2>2 DEF FeedByte, Turn
  <2> QED
    BY <1>1, <2>1, <2>2, <2>3, BufferSize
<1> QED
  BY <1>2, <1>3, <1>4

(* Whatever arrives, what is left is the start of a frame, shorter than    *)
(* the buffer.                                                             *)
LEMMA TurnFits ==
    ASSUME NEW old \in Seq(Byte), Len(old) < BUF_SIZE,
           old # <<>> => old[1] = BC_MAGIC, NEW byte \in Byte
    PROVE  LET b == FeedByte(old, byte).buf
           IN  /\ b \in Seq(Byte) /\ Len(b) < BUF_SIZE
               /\ b # <<>> => b[1] = BC_MAGIC
<1> DEFINE b == Append(old, byte)
<1>1. /\ b \in Seq(Byte) /\ Len(old) \in Nat /\ Len(b) = Len(old) + 1
      /\ \A i \in 1..Len(old) : b[i] = old[i]
      /\ b[Len(old) + 1] = byte
  BY ByteAppended
<1>2. CASE FeedByte(old, byte).buf = <<>>
  BY <1>2, EmptySeq, BufferSize
<1>3. CASE FeedByte(old, byte).buf # <<>>
  <2>1. /\ FeedByte(old, byte).buf = b
        /\ old = <<>> => byte = BC_MAGIC
        /\ Len(b) >= 3 => /\ TotalSize(b) \in Nat
                          /\ TotalSize(b) <= BUF_SIZE
                          /\ Len(b) < TotalSize(b)
    BY <1>3, TurnLeaves
  <2> HIDE DEF b
  <2>2. Len(b) < BUF_SIZE
    BY <1>1, <2>1, BufferSize
  <2>3. b[1] = BC_MAGIC
    <3>1. CASE old = <<>>
      <4>1. Len(old) = 0
        BY <3>1, EmptySeq
      <4> QED
        BY <1>1, <2>1, <3>1, <4>1
    <3>2. CASE old # <<>>
      <4>1. 1 \in 1..Len(old)
        BY <1>1, <3>2, EmptySeq
      <4> QED
        BY <1>1, <3>2, <4>1
    <3> QED
      BY <3>1, <3>2
  <2> QED
    BY <1>1, <2>1, <2>2, <2>3
<1> QED
  BY <1>2, <1>3

-----------------------------------------------------------------------------
(* Types.                                                                  *)

LEMMA Bounds == /\ Swallowed \in Nat /\ Swallowed >= 1
                /\ LongAgo \in Nat /\ LongAgo = Swallowed + 1
                /\ 4 * Swallowed >= BUF_SIZE - 1
                /\ MaxFaults \in Nat
<1>1. ASSUME NEW n \in Nat, n >= 4
      PROVE  (n + 2) \div 4 \in Nat /\ (n + 2) \div 4 >= 1
             /\ 4 * ((n + 2) \div 4) >= n - 1
  BY <1>1
<1> QED
  BY <1>1, BufferSize, FrameAssumption DEF Swallowed, LongAgo

LEMMA Fresh == /\ <<>> \in Seq(Byte) /\ Len(<<>>) < BUF_SIZE
               /\ 0 \in 0..MaxFaults /\ LongAgo \in 0..LongAgo
  BY Bounds, BufferSize, EmptySeq

LEMMA TypeInit == Init => TypeOK
<1> SUFFICES ASSUME Init PROVE TypeOK
  OBVIOUS
<1>1. /\ buf \in Seq(Byte) /\ Len(buf) < BUF_SIZE /\ buf = <<>>
      /\ wire \in Seq(Byte)
  BY Fresh DEF Init
<1>2. faults \in 0..MaxFaults /\ since \in 0..LongAgo
  BY Fresh DEF Init
<1> QED
  BY <1>1, <1>2 DEF TypeOK

(* What is left of a frame that loses a run of bytes.                      *)
LEMMA RestIsBytes ==
    ASSUME NEW f \in Frames, NEW first \in 1..Len(f),
           NEW last \in (first - 1)..Len(f)
    PROVE  /\ SubSeq(f, 1, first - 1) \in Seq(Byte)
           /\ SubSeq(f, last + 1, Len(f)) \in Seq(Byte)
           /\ SubSeq(f, 1, first - 1) \o SubSeq(f, last + 1, Len(f))
                 \in Seq(Byte)
<1>1. f \in Seq(Byte) /\ Len(f) \in Nat /\ \A i \in 1..Len(f) : f[i] \in Byte
  BY FramesAreBytes, ElementOfSeq
<1>2. SubSeq(f, 1, first - 1) \in Seq(Byte)
  <2>1. \A i \in 1..(first - 1) : f[i] \in Byte
    BY <1>1
  <2> QED
    BY <1>1, <2>1, SubSeqProperties
<1>3. SubSeq(f, last + 1, Len(f)) \in Seq(Byte)
  <2>1. \A i \in (last + 1)..Len(f) : f[i] \in Byte
    BY <1>1
  <2> QED
    BY <1>1, <2>1, SubSeqProperties
<1> QED
  BY <1>2, <1>3, ConcatProperties

LEMMA TypeStep == TypeOK /\ [Next]_vars => TypeOK'
<1> SUFFICES ASSUME TypeOK, [Next]_vars PROVE TypeOK'
  OBVIOUS
<1>1. ASSUME NEW f \in Frames, NEW first \in 1..Len(f),
             NEW last \in (first - 1)..Len(f), PhoneSends(f, first, last)
      PROVE  TypeOK'
  <2>1. wire' \in Seq(Byte)
    BY <1>1, RestIsBytes DEF PhoneSends
  <2>2. faults' \in 0..MaxFaults /\ since' \in 0..LongAgo
    BY <1>1, Bounds DEF PhoneSends, TypeOK
  <2> QED
    BY <1>1, <2>1, <2>2 DEF PhoneSends, TypeOK
<1>2. CASE Feed
  <2>1. /\ wire # <<>>
        /\ Head(wire) \in Byte /\ Tail(wire) \in Seq(Byte)
    BY <1>2, HeadTailProperties DEF Feed, TypeOK
  <2>2. /\ buf' \in Seq(Byte) /\ Len(buf') < BUF_SIZE
        /\ buf' # <<>> => buf'[1] = BC_MAGIC
    <3>1. buf' = FeedByte(buf, Head(wire)).buf
      BY <1>2 DEF Feed
    <3>2. /\ buf \in Seq(Byte) /\ Len(buf) < BUF_SIZE
          /\ buf # <<>> => buf[1] = BC_MAGIC
      BY DEF TypeOK
    <3> QED
      BY <2>1, <3>1, <3>2, TurnFits
  <2>3. since' \in 0..LongAgo
    BY <1>2, Bounds DEF Feed, TypeOK
  <2> QED
    BY <1>2, <2>1, <2>2, <2>3 DEF Feed, TypeOK
<1>3. CASE Reset
  <2>1. /\ buf' \in Seq(Byte) /\ Len(buf') < BUF_SIZE /\ buf' = <<>>
        /\ wire' \in Seq(Byte)
    BY <1>3, Fresh DEF Reset
  <2>2. faults' \in 0..MaxFaults /\ since' \in 0..LongAgo
    BY <1>3, Fresh DEF Reset
  <2> QED
    BY <2>1, <2>2 DEF TypeOK
<1>4. CASE UNCHANGED vars
  BY <1>4 DEF vars, TypeOK
<1> QED
  BY <1>1, <1>2, <1>3, <1>4 DEF Next

(* The buffer always has room for the next byte, whatever the phone sends  *)
(* and whatever of it gets lost: the overrun branch of feed() is dead.     *)
THEOREM ParserTyped == Spec => []TypeOK
  BY TypeInit, TypeStep, PTL DEF Spec

-----------------------------------------------------------------------------
(* A whole frame.                                                          *)

(* A frame of which no byte gets lost is on its way as a whole.            *)
LEMMA WholeFrame ==
    ASSUME NEW f \in Frames, NEW first \in 1..Len(f), NEW last \in Int,
           last = first - 1
    PROVE  SubSeq(f, 1, first - 1) \o SubSeq(f, last + 1, Len(f)) = f
<1>1. f \in Seq(Byte) /\ Len(f) \in Nat /\ Len(f) >= 4
  BY FramesAreBytes
<1>2. /\ 1 \in 1..(Len(f) + 1) /\ last \in (1 - 1)..Len(f)
      /\ Len(f) \in last..Len(f)
  BY <1>1
<1>3. SubSeq(f, 1, last) \o SubSeq(f, last + 1, Len(f)) = SubSeq(f, 1, Len(f))
  BY <1>1, <1>2, ConcatAdjacentSubSeq
<1>4. SubSeq(f, 1, Len(f)) = f
  BY <1>1, SubSeqFull
<1> QED
  BY <1>3, <1>4

(* One byte goes over from what is on its way to the buffer.               *)
LEMMA ByteGoesOver ==
    ASSUME NEW b \in Seq(Byte), NEW w \in Seq(Byte), w # <<>>
    PROVE  /\ Head(w) \in Byte /\ Tail(w) \in Seq(Byte)
           /\ Append(b, Head(w)) \in Seq(Byte)
           /\ Append(b, Head(w)) \o Tail(w) = b \o w
           /\ Len(w) \in Nat /\ Len(w) >= 1 /\ Len(Tail(w)) = Len(w) - 1
           /\ Tail(w) = <<>> <=> Len(w) = 1
<1> DEFINE c == Append(b, Head(w))
<1>1. /\ Head(w) \in Byte /\ Tail(w) \in Seq(Byte) /\ Len(w) \in Nat
      /\ Len(b) \in Nat
      /\ Len(Tail(w)) = Len(w) - 1
      /\ \A i \in 1..Len(Tail(w)) : Tail(w)[i] = w[i + 1]
      /\ Head(w) = w[1]
  BY HeadTailProperties, LenProperties
<1>2. Len(w) >= 1
  BY <1>1, EmptySeq
<1>3. /\ c \in Seq(Byte) /\ Len(c) = Len(b) + 1
      /\ \A i \in 1..Len(b) : c[i] = b[i]
      /\ c[Len(b) + 1] = w[1]
  BY <1>1, ByteAppended
<1> HIDE DEF c
<1>4. /\ c \o Tail(w) \in Seq(Byte)
      /\ Len(c \o Tail(w)) = Len(c) + Len(Tail(w))
      /\ \A i \in 1..(Len(c) + Len(Tail(w))) : (c \o Tail(w))[i] =
            IF i <= Len(c) THEN c[i] ELSE Tail(w)[i - Len(c)]
  BY <1>1, <1>3, ConcatProperties
<1>5. /\ b \o w \in Seq(Byte)
      /\ Len(b \o w) = Len(b) + Len(w)
      /\ \A i \in 1..(Len(b) + Len(w)) : (b \o w)[i] =
            IF i <= Len(b) THEN b[i] ELSE w[i - Len(b)]
  BY ConcatProperties
<1>6. Len(c \o Tail(w)) = Len(b \o w)
  BY <1>1, <1>3, <1>4, <1>5
<1>7. ASSUME NEW i \in 1..Len(c \o Tail(w))
      PROVE  (c \o Tail(w))[i] = (b \o w)[i]
  <2>1. i \in Nat /\ 1 <= i /\ i <= Len(b) + Len(w)
    BY <1>1, <1>5, <1>6
  <2>2. CASE i <= Len(b)
    BY <1>1, <1>2, <1>3, <1>4, <1>5, <2>1, <2>2
  <2>3. CASE i = Len(b) + 1
    BY <1>1, <1>2, <1>3, <1>4, <1>5, <2>1, <2>3
  <2>4. CASE i > Len(b) + 1
    <3>1. i - Len(c) \in 1..Len(Tail(w)) /\ (i - Len(c)) + 1 = i - Len(b)
      BY <1>1, <1>3, <2>1, <2>4
    <3>2. Tail(w)[i - Len(c)] = w[i - Len(b)]
      BY <1>1, <3>1
    <3> QED
      BY <1>1, <1>2, <1>3, <1>4, <1>5, <2>1, <2>4, <3>2
  <2> QED
    BY <1>1, <2>1, <2>2, <2>3, <2>4
<1>8. c \o Tail(w) = b \o w
  BY <1>4, <1>5, <1>6, <1>7, SeqEqual
<1>9. Tail(w) = <<>> <=> Len(w) = 1
  <2>1. Len(<<>>) = 0 /\ (Tail(w) # <<>> => Len(Tail(w)) \in Nat \ {0})
    BY <1>1, EmptySeq
  <2>2. CASE Tail(w) = <<>>
    <3>1. Len(Tail(w)) = 0
      BY <2>1, <2>2
    <3>2. Len(w) \in Int /\ Len(w) - 1 = 0
      <4>1. Len(w) - 1 = Len(Tail(w)) /\ Len(w) \in Int
        BY <1>1
      <4> QED
        BY <3>1, <4>1, Zenon
    <3>3. ASSUME NEW n \in Int, n - 1 = 0 PROVE n = 1
      BY <3>3
    <3>4. Len(w) = 1
      BY <3>2, <3>3, Zenon
    <3> QED
      BY <2>2, <3>4
  <2>3. CASE Tail(w) # <<>>
    BY <1>1, <2>1, <2>3
  <2> QED
    BY <2>2, <2>3
<1> QED
  BY <1>1, <1>2, <1>3, <1>8, <1>9 DEF c

(* What feed() does with a byte of a frame of which it has all before.     *)
LEMMA TurnInFrame ==
    ASSUME TypeOK, wire # <<>>, frame \in Frames, frame = buf \o wire
    PROVE  FeedByte(buf, Head(wire)) =
             IF Len(wire) = 1 THEN Turn(<<>>, Dispatch(frame))
             ELSE Turn(Append(buf, Head(wire)), None)
<1> DEFINE b == Append(buf, Head(wire))
<1>1. /\ buf \in Seq(Byte) /\ wire \in Seq(Byte) /\ Len(buf) < BUF_SIZE
      /\ Len(buf) \in Nat
  BY LenProperties DEF TypeOK
<1>2. /\ Head(wire) \in Byte /\ b \in Seq(Byte) /\ Tail(wire) \in Seq(Byte)
      /\ frame = b \o Tail(wire)
      /\ Len(wire) \in Nat /\ Len(wire) >= 1 /\ Len(Tail(wire)) = Len(wire) - 1
      /\ Tail(wire) = <<>> <=> Len(wire) = 1
  BY <1>1, ByteGoesOver
<1>3. Len(b) = Len(buf) + 1 /\ b[Len(buf) + 1] = Head(wire)
  BY <1>1, <1>2, ByteAppended
<1>4. /\ frame[1] = BC_MAGIC /\ TotalSize(frame) = Len(frame)
      /\ Len(frame) <= BUF_SIZE /\ Len(frame) >= 4 /\ Len(frame) \in Nat
  BY ProtocolAssumption, FramesAreBytes
<1> HIDE DEF b
<1>5. /\ Len(frame) = Len(b) + (Len(wire) - 1)
      /\ \A i \in 1..Len(b) : frame[i] = b[i]
  <2>1. /\ Len(b \o Tail(wire)) = Len(b) + Len(Tail(wire))
        /\ \A i \in 1..(Len(b) + Len(Tail(wire))) : (b \o Tail(wire))[i] =
              IF i <= Len(b) THEN b[i] ELSE Tail(wire)[i - Len(b)]
    BY <1>2, ConcatProperties
  <2> QED
    BY <1>1, <1>2, <1>3, <2>1
<1>6. buf = <<>> => Head(wire) = BC_MAGIC
  <2> SUFFICES ASSUME buf = <<>> PROVE Head(wire) = BC_MAGIC
    OBVIOUS
  <2>1. Len(buf) = 0
    BY EmptySeq
  <2> QED
    BY <1>1, <1>3, <1>4, <1>5, <2>1
<1>7. Len(b) >= 3 => TotalSize(b) = Len(frame)
  <2> SUFFICES ASSUME Len(b) >= 3 PROVE TotalSize(b) = Len(frame)
    OBVIOUS
  <2>1. frame[2] = b[2] /\ frame[3] = b[3]
    BY <1>1, <1>3, <1>5
  <2> QED
    BY <1>4, <2>1 DEF TotalSize
<1>8. CASE Len(wire) = 1
  <2>1. b = frame
    <3>1. Tail(wire) = <<>>
      BY <1>2, <1>8
    <3> QED
      BY <1>2, <3>1, ConcatEmptySeq
  <2>2. /\ Len(b) >= 3 /\ TotalSize(b) = Len(b)
        /\ Len(b) >= 4 /\ Len(b) <= BUF_SIZE
    BY <1>4, <2>1
  <2>3. ~(buf = <<>> /\ Head(wire) # BC_MAGIC)
    BY <1>6
  <2>4. ~(buf # <<>> /\ Len(buf) >= BUF_SIZE)
    BY <1>1, BufferSize
  <2>5. ~(TotalSize(b) < 4 \/ TotalSize(b) > BUF_SIZE)
    BY <1>3, <1>1, <2>2, BufferSize
  <2>6. Len(b) >= TotalSize(b)
    BY <1>3, <1>1, <2>2
  <2>7. FeedByte(buf, Head(wire)) = Turn(<<>>, Dispatch(b))
    BY <2>2, <2>3, <2>4, <2>5, <2>6 DEF FeedByte, b
  <2> QED
    BY <1>8, <2>1, <2>7
<1>9. CASE Len(wire) # 1
  <2>1. Len(b) < Len(frame)
    BY <1>1, <1>2, <1>3, <1>5, <1>9
  <2> QED
    BY <1>1, <1>3, <1>4, <1>6, <1>7, <1>9, <2>1, BufferSize DEF FeedByte, b
<1> QED
  BY <1>8, <1>9

-----------------------------------------------------------------------------
(* One byte of a frame that lost none, wherever the parser stands.         *)

LEMMA WireMoves ==
    ASSUME TypeOK, RestOfFrame, Feed
    PROVE  /\ Fed \in Nat /\ Fed' = Fed + 1 /\ Fed + 1 <= Len(frame)
           /\ Head(wire) = frame[Fed + 1] /\ Head(wire) \in Byte
           /\ RestOfFrame' /\ frame' = frame
           /\ (wire' = <<>>) <=> (Len(wire) = 1)
           /\ (Len(wire) = 1) <=> (Fed + 1 = Len(frame))
<1>1. /\ wire \in Seq(Byte) /\ wire # <<>> /\ buf \in Seq(Byte)
      /\ wire' = Tail(wire) /\ frame' = frame
  BY DEF TypeOK, Feed
<1>2. /\ Head(wire) \in Byte /\ Len(wire) \in Nat /\ Len(wire) >= 1
      /\ Len(Tail(wire)) = Len(wire) - 1
      /\ (Tail(wire) = <<>>) <=> (Len(wire) = 1)
  BY <1>1, ByteGoesOver
<1>3. /\ Head(wire) = wire[1]
      /\ \A k \in 1..Len(Tail(wire)) : Tail(wire)[k] = wire[k + 1]
  BY <1>1, HeadTailProperties
<1>4. /\ frame \in Frames /\ Len(frame) \in Nat /\ Len(wire) <= Len(frame)
      /\ \A k \in 1..Len(wire) : wire[k] = frame[Fed + k]
  BY FramesAreBytes DEF RestOfFrame
<1>5. Fed \in Nat /\ Fed' = Fed + 1 /\ Fed + 1 <= Len(frame)
  BY <1>1, <1>2, <1>4 DEF Fed
<1>6. Head(wire) = frame[Fed + 1]
  BY <1>2, <1>3, <1>4
<1>7. RestOfFrame'
  <2>1. frame' \in Frames /\ Len(wire') <= Len(frame')
    BY <1>1, <1>2, <1>4
  <2>2. ASSUME NEW k \in 1..Len(wire') PROVE wire'[k] = frame'[Fed' + k]
    <3>1. k \in Nat /\ k \in 1..Len(Tail(wire)) /\ k + 1 \in 1..Len(wire)
      BY <1>1, <1>2, <2>2
    <3>2. wire'[k] = frame[Fed + (k + 1)]
      BY <1>1, <1>3, <1>4, <3>1
    <3>3. Fed + (k + 1) = Fed' + k
      BY <1>5, <3>1
    <3> QED
      BY <1>1, <3>2, <3>3
  <2> QED
    BY <2>1, <2>2 DEF RestOfFrame
<1>8. (Len(wire) = 1) <=> (Fed + 1 = Len(frame))
  BY <1>2, <1>4 DEF Fed
<1> QED
  BY <1>1, <1>2, <1>5, <1>6, <1>7, <1>8

(* In step it stays, and is through with the frame at the last byte.       *)
LEMMA FeedInFrame ==
    ASSUME TypeOK, RestOfFrame, InFrame, Feed
    PROVE  PlaceInv' /\ Right(FeedByte(buf, Head(wire)).call)
<1>1. /\ RestOfFrame' /\ frame' = frame
      /\ (wire' = <<>>) <=> (Len(wire) = 1)
  BY WireMoves
<1>2. /\ wire # <<>> /\ wire' = Tail(wire)
      /\ buf' = FeedByte(buf, Head(wire)).buf
  BY DEF Feed
<1>3. FeedByte(buf, Head(wire)) =
         IF Len(wire) = 1 THEN Turn(<<>>, Dispatch(frame))
         ELSE Turn(Append(buf, Head(wire)), None)
  BY <1>2, TurnInFrame DEF RestOfFrame, InFrame
<1>4. Append(buf, Head(wire)) \o Tail(wire) = buf \o wire
  BY <1>2, ByteGoesOver DEF TypeOK
<1>5. Right(FeedByte(buf, Head(wire)).call)
  BY <1>3 DEF Right, Turn
<1>6. CASE Len(wire) = 1
  <2>1. buf' = <<>>
    BY <1>2, <1>3, <1>6 DEF Turn
  <2> QED
    BY <1>1, <1>5, <1>6, <2>1 DEF PlaceInv
<1>7. CASE Len(wire) # 1
  <2>1. buf' = Append(buf, Head(wire))
    BY <1>2, <1>3, <1>7 DEF Turn
  <2>2. InFrame'
    BY <1>1, <1>2, <1>4, <2>1 DEF InFrame
  <2> QED
    BY <1>1, <1>5, <1>7, <2>2 DEF PlaceInv
<1> QED
  BY <1>6, <1>7

LEMMA NothingYet ==
    ASSUME NEW f, NEW j \in Nat
    PROVE  From(<<>>, f, j + 1, j) <=> j >= 1
<1>1. Len(<<>>) = 0
  BY EmptySeq
<1>2. 1..0 = {}
  OBVIOUS
<1> QED
  BY <1>1, <1>2 DEF From

(* A turn inside a frame leaves bytes that follow one another in it.       *)
LEMMA TurnInside ==
    ASSUME NEW b \in Seq(Byte), Len(b) < BUF_SIZE, NEW f \in Frames,
           NEW j \in Nat, j + 1 <= Len(f), f[j + 1] \in Byte,
           NEW i \in 2..(j + 1), From(b, f, i, j)
    PROVE  LET r == FeedByte(b, f[j + 1]).buf
           IN  \E k \in 2..(j + 2) : From(r, f, k, j + 1)
<1> DEFINE r == FeedByte(b, f[j + 1]).buf
           c == Append(b, f[j + 1])
<1>1. CASE r = <<>>
  <2>1. From(<<>>, f, (j + 1) + 1, j + 1)
    <3>1. j + 1 \in Nat /\ j + 1 >= 1
      OBVIOUS
    <3> QED
      BY <3>1, NothingYet
  <2>2. (j + 1) + 1 = j + 2 /\ j + 2 \in 2..(j + 2)
    OBVIOUS
  <2> QED
    BY <1>1, <2>1, <2>2
<1>2. CASE r # <<>>
  <2>1. r = c
    BY <1>2, TurnLeaves
  <2>2. /\ Len(b) \in Nat /\ Len(c) = Len(b) + 1
        /\ \A k \in 1..Len(b) : c[k] = b[k]
        /\ c[Len(b) + 1] = f[j + 1]
    BY ByteAppended
  <2>3. Len(b) = (j + 1) - i /\ \A k \in 1..Len(b) : b[k] = f[i + k - 1]
    BY DEF From
  <2>4. i \in Nat /\ i >= 2 /\ i <= j + 1
    OBVIOUS
  <2> HIDE DEF r, c
  <2>5. Len(c) = ((j + 1) + 1) - i /\ i \in 2..((j + 1) + 1)
    BY <2>2, <2>3, <2>4
  <2>6. ASSUME NEW k \in 1..Len(c) PROVE c[k] = f[i + k - 1]
    <3>1. CASE k <= Len(b)
      BY <2>2, <2>3, <3>1
    <3>2. CASE k > Len(b)
      <4>1. k = Len(b) + 1 /\ i + k - 1 = j + 1
        BY <2>2, <2>3, <2>4, <3>2
      <4> QED
        BY <2>2, <4>1
    <3> QED
      BY <2>2, <3>1, <3>2
  <2>7. From(c, f, i, j + 1)
    BY <2>5, <2>6 DEF From
  <2> QED
    BY <2>1, <2>4, <2>7 DEF r
<1> QED
  BY <1>1, <1>2

(* What begins inside a contained frame is gone by its end.                *)
LEMMA NothingLeft ==
    ASSUME NEW b \in Seq(Byte), Len(b) < BUF_SIZE, NEW byte \in Byte,
           b # <<>> => b[1] = BC_MAGIC,
           NEW f \in Frames, Contained(f), NEW i \in 2..(Len(f) + 1),
           From(FeedByte(b, byte).buf, f, i, Len(f))
    PROVE  FeedByte(b, byte).buf = <<>>
<1> DEFINE r == FeedByte(b, byte).buf
<1> SUFFICES ASSUME r # <<>> PROVE FALSE
  OBVIOUS
<1>1. /\ r \in Seq(Byte) /\ r[1] = BC_MAGIC
      /\ Len(r) >= 3 => /\ TotalSize(r) \in Nat
                        /\ TotalSize(r) >= 4
                        /\ TotalSize(r) <= BUF_SIZE
                        /\ Len(r) < TotalSize(r)
  BY TurnFits, TurnLeaves
<1>2. Len(r) = (Len(f) + 1) - i /\ \A k \in 1..Len(r) : r[k] = f[i + k - 1]
  BY DEF From
<1> HIDE DEF r
<1>3. Len(r) \in Nat /\ Len(r) >= 1
  BY <1>1, EmptySeq
<1>4. f \in Seq(Byte) /\ Len(f) \in Nat
  BY FramesAreBytes
<1>5. i \in 2..Len(f) /\ f[i] = BC_MAGIC
  <2>1. r[1] = f[i + 1 - 1] /\ i + 1 - 1 = i
    BY <1>2, <1>3
  <2> QED
    BY <1>1, <1>2, <1>3, <1>4, <2>1
<1>6. /\ i + 2 <= Len(f)
      /\ LET total == TotalSize(SubSeq(f, i, Len(f)))
         IN total < 4 \/ total > BUF_SIZE \/ i + total - 1 <= Len(f)
  BY <1>5 DEF Contained
<1>7. TotalSize(SubSeq(f, i, Len(f))) = TotalSize(r)
  <2>1. \A k \in i..Len(f) : f[k] \in Byte
    BY <1>4, <1>5, ElementOfSeq
  <2>2. /\ Len(SubSeq(f, i, Len(f))) = Len(f) - i + 1
        /\ \A k \in 1..(Len(f) - i + 1) : SubSeq(f, i, Len(f))[k] = f[i + k - 1]
    BY <1>4, <1>5, <1>6, <2>1, SubSeqProperties
  <2>3. 2 \in 1..(Len(f) - i + 1) /\ 3 \in 1..(Len(f) - i + 1)
    BY <1>4, <1>5, <1>6
  <2>4. 2 \in 1..Len(r) /\ 3 \in 1..Len(r)
    BY <1>2, <1>4, <1>5, <1>6
  <2> QED
    BY <1>2, <2>2, <2>3, <2>4 DEF TotalSize
<1>8. Len(r) >= 3
  BY <1>2, <1>4, <1>5, <1>6
<1>9. i + TotalSize(r) - 1 <= Len(f)
  BY <1>1, <1>6, <1>7, <1>8, BufferSize
<1> QED
  BY <1>1, <1>2, <1>3, <1>4, <1>5, <1>8, <1>9

LEMMA FeedInsideFrame ==
    ASSUME TypeOK, since # LongAgo, RestOfFrame, InsideFrame, Feed
    PROVE  PlaceInv'
<1>1. /\ Fed \in Nat /\ Fed' = Fed + 1 /\ Fed + 1 <= Len(frame)
      /\ Head(wire) = frame[Fed + 1] /\ Head(wire) \in Byte
      /\ RestOfFrame' /\ frame' = frame
      /\ (wire' = <<>>) <=> (Len(wire) = 1)
      /\ (Len(wire) = 1) <=> (Fed + 1 = Len(frame))
  BY WireMoves
<1>2. /\ buf \in Seq(Byte) /\ Len(buf) < BUF_SIZE
      /\ buf # <<>> => buf[1] = BC_MAGIC
      /\ frame \in Frames
  BY DEF TypeOK, RestOfFrame
<1>3. /\ buf' = FeedByte(buf, Head(wire)).buf
      /\ since' = IF Len(wire) = 1 /\ buf' # <<>> /\ ~Contained(frame)
                  THEN 0 ELSE since
  BY DEF Feed
<1>4. since' # LongAgo /\ LongAgo' = LongAgo
  BY <1>3, Bounds DEF LongAgo, Swallowed
<1>5. PICK k \in 2..(Fed + 2) : From(buf', frame, k, Fed + 1)
  <2>1. PICK i \in 2..(Fed + 1) : From(buf, frame, i, Fed)
    BY DEF InsideFrame
  <2>2. \E k \in 2..(Fed + 2) :
           From(FeedByte(buf, frame[Fed + 1]).buf, frame, k, Fed + 1)
    BY <1>1, <1>2, <2>1, TurnInside
  <2> QED
    BY <1>1, <1>3, <2>2
<1>6. CASE Len(wire) = 1
  <2>1. buf' \in Seq(Byte) /\ Len(buf') \in Nat /\ (buf' # <<>> => Len(buf') >= 1)
    BY <1>1, <1>2, <1>3, TurnFits, LenProperties, EmptySeq
  <2>2. CASE Contained(frame)
    <3>1. /\ k \in 2..(Len(frame) + 1)
          /\ From(FeedByte(buf, Head(wire)).buf, frame, k, Len(frame))
      <4>1. Fed + 1 = Len(frame) /\ Fed + 2 = Len(frame) + 1
        BY <1>1, <1>6
      <4> QED
        BY <1>3, <1>5, <4>1
    <3>2. buf' = <<>>
      BY <1>1, <1>2, <1>3, <2>2, <3>1, NothingLeft
    <3> QED
      BY <1>1, <1>6, <3>2 DEF PlaceInv
  <2>3. CASE ~Contained(frame) /\ buf' # <<>>
    <3>1. since' = 0 /\ Len(buf') >= 1 + 4 * since'
      BY <1>3, <1>6, <2>1, <2>3
    <3> QED
      BY <1>1, <1>4, <1>6, <3>1 DEF PlaceInv
  <2>4. CASE buf' = <<>>
    BY <1>1, <1>6, <2>4 DEF PlaceInv
  <2> QED
    BY <2>2, <2>3, <2>4
<1>7. CASE Len(wire) # 1
  <2>1. InsideFrame'
    <3>1. Fed' + 1 = Fed + 2
      BY <1>1
    <3> QED
      BY <1>1, <1>4, <1>5, <3>1 DEF InsideFrame
  <2> QED
    BY <1>1, <1>7, <2>1 DEF PlaceInv
<1> QED
  BY <1>6, <1>7

(* What began frames ago grows by the byte, or is given up or completed,   *)
(* and the parser goes on inside this frame.                               *)
LEMMA FeedAcrossFrames ==
    ASSUME TypeOK, since # LongAgo, RestOfFrame, AcrossFrames, Feed
    PROVE  PlaceInv'
<1>1. /\ Fed \in Nat /\ Fed' = Fed + 1 /\ Fed + 1 <= Len(frame)
      /\ Head(wire) \in Byte
      /\ RestOfFrame' /\ frame' = frame
      /\ (wire' = <<>>) <=> (Len(wire) = 1)
      /\ (Len(wire) = 1) <=> (Fed + 1 = Len(frame))
  BY WireMoves
<1>2. /\ buf \in Seq(Byte) /\ Len(buf) < BUF_SIZE
      /\ since \in Nat /\ frame \in Frames
      /\ Len(buf) >= 1 + 4 * (since - 1) + Fed
  BY Bounds DEF TypeOK, RestOfFrame, AcrossFrames
<1>3. /\ buf' = FeedByte(buf, Head(wire)).buf
      /\ since' = 0 \/ since' = since
  BY DEF Feed
<1>4. since' # LongAgo /\ since' \in Nat /\ since' <= since
  BY <1>2, <1>3, Bounds DEF LongAgo, Swallowed
<1>5. LongAgo' = LongAgo
  BY DEF LongAgo, Swallowed
<1>6. CASE buf' = <<>>
  <2>1. CASE Len(wire) = 1
    BY <1>1, <1>6, <2>1 DEF PlaceInv
  <2>2. CASE Len(wire) # 1
    <3>1. From(buf', frame', Fed' + 1, Fed') /\ Fed' + 1 \in 2..(Fed' + 1)
      <4>1. Fed' \in Nat /\ Fed' >= 1
        BY <1>1
      <4>2. From(<<>>, frame', Fed' + 1, Fed')
        BY <4>1, NothingYet
      <4>3. \A n \in Nat : n >= 1 => n + 1 \in 2..(n + 1)
        OBVIOUS
      <4> QED
        BY <1>6, <4>1, <4>2, <4>3
    <3>2. InsideFrame'
      BY <1>4, <1>5, <3>1 DEF InsideFrame
    <3> QED
      BY <1>1, <2>2, <3>2 DEF PlaceInv
  <2> QED
    BY <2>1, <2>2
<1>7. CASE buf' # <<>>
  <2>1. Len(buf') = Len(buf) + 1 /\ Len(buf) \in Nat
    <3>1. buf' = Append(buf, Head(wire))
      BY <1>1, <1>2, <1>3, <1>7, TurnLeaves
    <3> QED
      BY <1>1, <1>2, <3>1, ByteAppended
  <2>2. CASE Len(wire) = 1
    <3>1. Fed + 1 = Len(frame) /\ Len(frame) >= 4
      BY <1>1, <1>2, <2>2, FramesAreBytes
    <3>2. Len(buf') >= 1 + 4 * since'
      BY <1>1, <1>2, <1>4, <2>1, <3>1
    <3> QED
      BY <1>1, <1>4, <1>5, <2>2, <3>2 DEF PlaceInv
  <2>3. CASE Len(wire) # 1
    <3>1. Len(buf') >= 1 + 4 * (since' - 1) + Fed'
      BY <1>1, <1>2, <1>4, <2>1
    <3> QED
      BY <1>1, <1>4, <1>5, <1>7, <2>3, <3>1 DEF PlaceInv, AcrossFrames
  <2> QED
    BY <2>2, <2>3
<1> QED
  BY <1>6, <1>7

(* Of a frame that lost bytes nothing is known but that it was the last.   *)
LEMMA FeedDamaged ==
    ASSUME TypeOK, since = 0, Feed
    PROVE  PlaceInv'
<1>1. since' = 0 /\ since' # LongAgo' /\ wire # <<>>
  BY Bounds DEF Feed, LongAgo, Swallowed
<1>2. buf' \in Seq(Byte)
  <2>1. Head(wire) \in Byte
    BY <1>1, ByteGoesOver DEF TypeOK
  <2>2. buf' = FeedByte(buf, Head(wire)).buf
    BY DEF Feed
  <2> QED
    BY <2>1, <2>2, TurnFits DEF TypeOK
<1>3. buf' # <<>> => Len(buf') >= 1 + 4 * since'
  BY <1>1, <1>2, EmptySeq, LenProperties
<1> QED
  BY <1>1, <1>3 DEF PlaceInv

-----------------------------------------------------------------------------
(* The steps.                                                              *)

LEMMA PlaceInit == Init => PlaceInv
  BY DEF Init, PlaceInv

(* A frame of which nothing gets lost is sent when the parser is between   *)
(* two frames, or in the middle of one that began before it.               *)
LEMMA PhoneSendsKeepsPlace ==
    ASSUME IInv, NEW f \in Frames, NEW first \in 1..Len(f),
           NEW last \in (first - 1)..Len(f), PhoneSends(f, first, last)
    PROVE  PlaceInv'
<1>1. f \in Seq(Byte) /\ Len(f) \in Nat /\ Len(f) >= 4 /\ f # <<>>
  BY FramesAreBytes, EmptySeq
<1>2. CASE first <= last
  <2>1. since' = 0 /\ buf' = buf /\ buf \in Seq(Byte) /\ since' # LongAgo'
    BY <1>2, Bounds DEF PhoneSends, IInv, TypeOK, LongAgo, Swallowed
  <2>2. buf' # <<>> => Len(buf') >= 1 + 4 * since'
    BY <2>1, EmptySeq, LenProperties
  <2> QED
    BY <2>1, <2>2 DEF PlaceInv
<1>3. CASE ~(first <= last)
  <2>1. last = first - 1 /\ last \in Int
    BY <1>1, <1>3
  <2>2. /\ wire = <<>> /\ buf' = buf /\ wire' = f /\ frame' = f
        /\ since' = IF since = LongAgo THEN LongAgo ELSE since + 1
    BY <1>1, <1>3, <2>1, WholeFrame DEF PhoneSends
  <2>3. /\ buf \in Seq(Byte) /\ Len(buf) \in Nat /\ Len(buf) < BUF_SIZE
        /\ since \in Nat /\ since <= LongAgo
    BY Bounds, LenProperties DEF IInv, TypeOK
  <2>4. Fed' = 0
    BY <1>1, <2>2 DEF Fed
  <2>5. RestOfFrame'
    BY <1>1, <2>2, <2>4 DEF RestOfFrame
  <2>6. CASE buf = <<>>
    <3>1. InFrame'
      BY <1>1, <2>2, <2>6, ConcatEmptySeq DEF InFrame
    <3> QED
      BY <1>1, <2>2, <2>5, <3>1 DEF PlaceInv
  <2>7. CASE buf # <<>>
    <3>1. since # LongAgo /\ Len(buf) >= 1 + 4 * since
      BY <2>2, <2>7 DEF IInv, PlaceInv
    <3>2. since' = since + 1
      BY <2>2, <3>1
    <3>3. since < Swallowed
      BY <2>3, <3>1, Bounds, BufferSize
    <3>4. since' # LongAgo /\ LongAgo' = LongAgo
      BY <2>3, <3>2, <3>3, Bounds DEF LongAgo, Swallowed
    <3>5. Len(buf') >= 1 + 4 * (since' - 1) + Fed'
      BY <2>2, <2>3, <2>4, <3>1, <3>2
    <3>6. AcrossFrames'
      BY <2>2, <2>7, <3>4, <3>5 DEF AcrossFrames
    <3> QED
      BY <1>1, <2>2, <2>5, <3>6 DEF PlaceInv
  <2> QED
    BY <2>6, <2>7
<1> QED
  BY <1>2, <1>3

LEMMA FeedKeepsPlace == ASSUME IInv, Feed PROVE PlaceInv'
<1>1. /\ TypeOK /\ wire # <<>>
      /\ since = 0 \/ (RestOfFrame /\ (InFrame \/ InsideFrame \/ AcrossFrames))
  BY DEF IInv, PlaceInv, Feed
<1>2. CASE since = 0
  BY <1>1, <1>2, FeedDamaged
<1>3. CASE RestOfFrame /\ InFrame
  BY <1>1, <1>3, FeedInFrame
<1>4. CASE RestOfFrame /\ InsideFrame
  BY <1>1, <1>4, FeedInsideFrame DEF InsideFrame
<1>5. CASE RestOfFrame /\ AcrossFrames
  BY <1>1, <1>5, FeedAcrossFrames DEF AcrossFrames
<1> QED
  BY <1>1, <1>2, <1>3, <1>4, <1>5

LEMMA PlaceStep == IInv /\ [Next]_vars => PlaceInv'
<1> SUFFICES ASSUME IInv, [Next]_vars PROVE PlaceInv'
  OBVIOUS
<1>1. ASSUME NEW f \in Frames, NEW first \in 1..Len(f),
             NEW last \in (first - 1)..Len(f), PhoneSends(f, first, last)
      PROVE  PlaceInv'
  BY <1>1, PhoneSendsKeepsPlace
<1>2. CASE Feed
  BY <1>2, FeedKeepsPlace
<1>3. CASE Reset
  BY <1>3 DEF Reset, PlaceInv
<1>4. CASE UNCHANGED vars
  BY <1>4 DEF vars, IInv, PlaceInv, RestOfFrame, InFrame, InsideFrame,
              AcrossFrames, Fed, LongAgo, Swallowed
<1> QED
  BY <1>1, <1>2, <1>3, <1>4 DEF Next

LEMMA AlwaysInv == Spec => []IInv
<1>1. Init => IInv
  BY TypeInit, PlaceInit DEF IInv
<1>2. IInv /\ [Next]_vars => IInv'
  BY TypeStep, PlaceStep DEF IInv
<1> QED
  BY <1>1, <1>2, PTL DEF Spec

(* Long after a loss, and after a frame that is not contained, the parser  *)
(* is in step.                                                             *)
LEMMA InStepLongAfter ==
    ASSUME IInv, since = LongAgo
    PROVE  IF wire = <<>> THEN buf = <<>> ELSE RestOfFrame /\ InFrame
<1>1. since # 0
  BY Bounds
<1> QED
  BY <1>1 DEF IInv, PlaceInv, InsideFrame, AcrossFrames

(* The parser of feed() is in step with the phone again once Swallowed     *)
(* frames have come whole after the last that lost a byte or that is not   *)
(* contained and left it open: for every set of frames that keep to the    *)
(* protocol, any number of losses of any length, every size of the buffer. *)
THEOREM ParserInStep == Spec => []InStep
<1>1. IInv => InStep
  BY InStepLongAfter DEF InStep, InFrame
<1> QED
  BY AlwaysInv, <1>1, PTL

(* From then on dispatch() fires the callback of each frame at its last    *)
(* byte, and none before.                                                  *)
THEOREM ParserResyncs == Spec => Resync
<1>1. IInv /\ [Next]_vars
         => [Feed /\ since = LongAgo
               => Right(FeedByte(buf, Head(wire)).call)]_vars
  <2> SUFFICES ASSUME IInv, Feed, since = LongAgo
               PROVE  Right(FeedByte(buf, Head(wire)).call)
    OBVIOUS
  <2>1. RestOfFrame /\ InFrame
    BY InStepLongAfter DEF Feed
  <2> QED
    BY <2>1, FeedInFrame DEF IInv
<1> QED
  BY AlwaysInv, <1>1, PTL DEF Spec, Resync

=============================================================================

-------------------------- MODULE GfxStreamProofs ---------------------------
(* Proofs about GfxStream, for every capacity and every set of bitmaps     *)
(* whose size the length of a frame can tell.                              *)
EXTENDS GfxStream, TLAPS

Streams == [size : Nat, continues : Nat, lacks : Nat, framed : BOOLEAN]
Pieces == [size : Nat, continues : Nat, lacks : Nat]
Phones == [lacks : Nat, framed : BOOLEAN]

(* The drawing call and the piece it is about to send: the head of a       *)
(* bitmap lacks what the tail has, and nothing comes after the tail.       *)
CallInv ==
    /\ buf.size = 0 => buf = Empty
    /\ piece.size > 0
    /\ pc = "appended" => buf.size > 0
    /\ IF pc \in {"send", "append", "appended"} THEN piece.lacks = tail
                                               ELSE tail = 0

(* The buffer of the BLE transport is full only within send(), and what    *)
(* send() was given has been found to be no longer than the buffer.        *)
RoomInv ==
    ble => /\ buf.size <= Capacity
           /\ pc # "appended" => buf.size < Capacity
           /\ pc \in {"append", "appended"} => piece.size <= Capacity

(* what the bytes still lack that have gone to the phone or the buffer ... *)
Behind == IF buf.size > 0 THEN buf.lacks ELSE phone.lacks

(* ... and what of it the call under way will still supply                 *)
Due == IF pc \in {"send", "append"} THEN piece.continues
       ELSE IF pc = "appended" THEN piece.lacks ELSE 0

(* With a phone, the buffer takes up where the phone is, and the call      *)
(* where the buffer ends.  Without one the buffer holds whole frames, and  *)
(* what is still to be put behind them is a whole frame too.               *)
ChainInv ==
    ~torn => /\ phone.framed /\ buf.framed
             /\ IF up
                THEN /\ buf.size > 0 => buf.continues = phone.lacks
                     /\ Behind = Due
                ELSE /\ phone.lacks = 0
                     /\ buf.continues = 0 /\ buf.lacks = 0
                     /\ pc \in {"append", "appended"} =>
                           piece.continues = 0 /\ tail = 0

IInv == TypeOK /\ CallInv /\ RoomInv /\ ChainInv

-----------------------------------------------------------------------------
(* The operators.                                                          *)

LEMMA BitmapBytesFit ==
    ASSUME NEW b \in Bitmaps
    PROVE  BitmapBytes(b) \in Nat /\ BitmapBytes(b) < 65536 - 13
<1> DEFINE bits == b[1] * b[2]
<1>1. bits \in Nat
  BY StreamAssumption
<1>2. (bits + 7) \div 8 < 65536 - 13
  BY StreamAssumption
<1>3. BitmapBytes(b) = ((bits + 7) \div 8) % 65536
  BY DEF BitmapBytes, Word
<1> HIDE DEF bits
<1> DEFINE bytes == (bits + 7) \div 8
<1>4. bytes \in Nat /\ bytes < 65536 - 13
  BY <1>1, <1>2
<1> HIDE DEF bytes
<1>5. bytes % 65536 = bytes
  BY <1>4
<1> QED
  BY <1>3, <1>4, <1>5 DEF bytes

(* A frame with a tail announces exactly what head and tail hold: neither  *)
(* cast to uint16_t cuts anything off.                                     *)
LEMMA HeadAnnouncesTail ==
    ASSUME NEW fixed \in BitmapHeads, NEW n \in Nat, n < 65536 - 13
    PROVE  Head(fixed, n) = [size |-> HeaderSize + fixed, continues |-> 0,
                             lacks |-> n]
<1>1. fixed \in Nat /\ fixed <= 12
  BY DEF BitmapHeads
<1>2. Word(fixed + n) = fixed + n
  BY <1>1 DEF Word
<1>3. Word(1 + (fixed + n)) = 1 + fixed + n
  BY <1>1 DEF Word
<1>4. Word(1 + Word(fixed + n)) - (1 + fixed) = n
  BY <1>1, <1>2, <1>3
<1> QED
  BY <1>4 DEF Head

LEMMA PayloadsAreNat ==
    ASSUME NEW command \in Shapes \cup Texts \cup Modes \cup {"Begin"}
    PROVE  PayloadSize[command] \in Nat
  BY DEF Shapes, Texts, Modes, PayloadSize

LEMMA FrameIsPiece ==
    ASSUME NEW n \in Nat
    PROVE  /\ Frame(n) \in Pieces /\ Frame(n).size > 0
           /\ Frame(n).continues = 0 /\ Frame(n).lacks = 0
  BY DEF Frame, HeaderSize, Pieces

(* A piece put behind a buffer: where the whole begins and ends.           *)
LEMMA JoinedFacts ==
    ASSUME NEW b \in Streams, NEW p \in Pieces
    PROVE  /\ Joined(b, p) \in Streams
           /\ Joined(b, p).size = b.size + p.size
           /\ Joined(b, p).lacks = p.lacks
           /\ b.size = 0 => /\ Joined(b, p).continues = p.continues
                            /\ Joined(b, p).framed
           /\ b.size > 0 => Joined(b, p).continues = b.continues
           /\ b.size > 0 /\ b.framed /\ b.lacks = p.continues =>
                 Joined(b, p).framed
<1>1. b.size \in Nat /\ p.size \in Nat
  BY DEF Streams, Pieces
<1>2. CASE b.size = 0
  BY <1>1, <1>2 DEF Joined, Streams, Pieces
<1>3. CASE b.size > 0
  BY <1>1, <1>3 DEF Joined, Streams, Pieces
<1> QED
  BY <1>1, <1>2, <1>3

LEMMA EmptyFacts ==
    /\ Empty \in Streams /\ Empty.size = 0
    /\ Empty.continues = 0 /\ Empty.lacks = 0 /\ Empty.framed
  BY DEF Empty, Streams

-----------------------------------------------------------------------------
(* The invariant.                                                          *)

LEMMA TypeFacts ==
    ASSUME TypeOK
    PROVE  /\ buf \in Streams /\ piece \in Pieces /\ phone \in Phones
           /\ buf.size \in Nat /\ buf.continues \in Nat /\ buf.lacks \in Nat
           /\ piece.size \in Nat /\ piece.continues \in Nat
           /\ piece.lacks \in Nat
           /\ phone.lacks \in Nat /\ tail \in Nat
  BY DEF TypeOK, Streams, Pieces, Phones

LEMMA Sizes == Capacity \in Nat /\ Capacity > 0 /\ MaxSession \in Nat
  BY StreamAssumption

LEMMA InitInv == Init => IInv
<1> SUFFICES ASSUME Init PROVE IInv
  OBVIOUS
<1>1. /\ Frame(0) \in Pieces /\ Frame(0).size > 0
      /\ Frame(0).continues = 0 /\ Frame(0).lacks = 0
  BY FrameIsPiece
<1>2. TypeOK
  <2>1. buf \in Streams /\ piece \in Pieces
    BY <1>1, EmptyFacts DEF Init
  <2>2. phone \in Phones
    BY DEF Init, NewPhone, Phones
  <2>3. session \in 0..MaxSession
    BY Sizes DEF Init
  <2> QED
    BY <2>1, <2>2, <2>3 DEF Init, TypeOK, Streams, Pieces, Phones
<1>3. CallInv
  BY <1>1 DEF Init, CallInv
<1>4. RoomInv
  BY EmptyFacts, Sizes DEF Init, RoomInv
<1>5. ChainInv
  BY EmptyFacts DEF Init, ChainInv, NewPhone
<1> QED
  BY <1>2, <1>3, <1>4, <1>5 DEF IInv

(* A call that gives a piece of its own to send(): it continues nothing.   *)
LEMMA StartKeepsInv ==
    ASSUME IInv,
           pc = "draw", pc' = "send",
           piece' \in Pieces, piece'.size > 0, piece'.continues = 0,
           tail' \in Nat, piece'.lacks = tail', closing' \in BOOLEAN,
           UNCHANGED <<link, buf, phone>>
    PROVE  IInv'
<1> USE DEF IInv, link
<1>1. TypeOK'
  BY DEF TypeOK, Pieces
<1>2. CallInv'
  BY DEF CallInv
<1>3. RoomInv'
  BY DEF RoomInv
<1>4. Due = 0 /\ Due' = 0 /\ Behind' = Behind
  BY DEF Due, Behind
<1>5. ChainInv'
  BY <1>4 DEF ChainInv
<1> QED
  BY <1>1, <1>2, <1>3, <1>5

LEMMA SendCommandKeepsInv ==
    ASSUME IInv, NEW command \in Shapes \cup Texts \cup Modes \cup {"Begin"},
           SendCommand(command)
    PROVE  IInv'
<1> DEFINE frame == Frame(PayloadSize[command])
<1>1. /\ frame \in Pieces /\ frame.size > 0
      /\ frame.continues = 0 /\ frame.lacks = 0
  BY PayloadsAreNat, FrameIsPiece
<1>2. /\ pc = "draw" /\ pc' = "send" /\ piece' = frame /\ tail' = 0
      /\ closing' = FALSE /\ UNCHANGED <<link, buf, phone>>
  BY DEF SendCommand
<1> HIDE DEF frame
<1> QED
  BY <1>1, <1>2, StartKeepsInv

LEMMA DrawBitmapKeepsInv ==
    ASSUME IInv, NEW fixed \in BitmapHeads, NEW b \in Bitmaps,
           DrawBitmap(fixed, b)
    PROVE  IInv'
<1>1. PICK n \in Nat : n < 65536 - 13 /\ n = BitmapBytes(b)
  BY BitmapBytesFit
<1>2. PICK head : head = Head(fixed, n)
  OBVIOUS
<1>3. /\ pc = "draw" /\ pc' = "send" /\ piece' = head /\ tail' = n
      /\ closing' = FALSE /\ UNCHANGED <<link, buf, phone>>
  BY <1>1, <1>2 DEF DrawBitmap
<1>4. head = [size |-> HeaderSize + fixed, continues |-> 0, lacks |-> n]
  BY <1>1, <1>2, HeadAnnouncesTail
<1>5. /\ head \in Pieces /\ head.size > 0
      /\ head.continues = 0 /\ head.lacks = n
  BY <1>4 DEF BitmapHeads, HeaderSize, Pieces
<1> QED
  BY <1>3, <1>5, StartKeepsInv

LEMMA FlushKeepsInv == ASSUME IInv, Flush PROVE IInv'
<1> DEFINE frame == Frame(0)
<1>1. /\ frame \in Pieces /\ frame.size > 0
      /\ frame.continues = 0 /\ frame.lacks = 0
  BY FrameIsPiece
<1>2. /\ pc = "draw" /\ pc' = "send" /\ piece' = frame /\ tail' = 0
      /\ closing' \in BOOLEAN /\ UNCHANGED <<link, buf, phone>>
  BY DEF Flush
<1> HIDE DEF frame
<1> QED
  BY <1>1, <1>2, StartKeepsInv

-----------------------------------------------------------------------------
(* send() returns: what is due afterwards is the tail.                     *)

LEMMA ReturnFacts ==
    ASSUME IInv, Return, pc \in {"send", "appended"}
    PROVE  /\ pc' \in {"draw", "send", "flush"}
           /\ piece' \in Pieces /\ piece'.size > 0
           /\ tail' = 0 /\ closing' = closing
           /\ pc' = "send" => piece'.lacks = 0 /\ piece'.continues = tail
           /\ Due' = tail
<1> USE DEF IInv, Return
<1>1. /\ piece \in Pieces /\ piece.size > 0 /\ tail \in Nat
  BY TypeFacts DEF CallInv
<1>2. CASE tail > 0
  <2>1. pc' = "send" /\ piece' = TailPiece(tail) /\ tail' = 0
    BY <1>2
  <2>2. piece' = [size |-> tail, continues |-> tail, lacks |-> 0]
    BY <2>1 DEF TailPiece
  <2> QED
    BY <1>1, <1>2, <2>1, <2>2 DEF Due, Pieces
<1>3. CASE tail = 0
  BY <1>1, <1>3 DEF Due
<1> QED
  BY <1>1, <1>2, <1>3

LEMMA SendDroppedKeepsInv == ASSUME IInv, SendDropped PROVE IInv'
<1> USE DEF IInv, SendDropped, link
<1>1. /\ pc' \in {"draw", "send", "flush"}
      /\ piece' \in Pieces /\ piece'.size > 0
      /\ tail' = 0 /\ closing' = closing
      /\ pc' = "send" => piece'.lacks = 0
  BY ReturnFacts
<1>2. TypeOK'
  BY <1>1 DEF TypeOK, Pieces
<1>3. CallInv'
  BY <1>1 DEF CallInv
<1>4. RoomInv'
  BY <1>1 DEF RoomInv
<1>5. ChainInv'
  BY <1>1 DEF ChainInv
<1> QED
  BY <1>2, <1>3, <1>4, <1>5

LEMMA SendAcceptedKeepsInv == ASSUME IInv, SendAccepted PROVE IInv'
<1> USE DEF IInv, SendAccepted, link, call
<1>1. TypeOK'
  BY DEF TypeOK
<1>2. CallInv'
  BY DEF CallInv
<1>3. RoomInv'
  BY TypeFacts, Sizes DEF RoomInv, TooLong
<1>4. Due' = Due /\ Behind' = Behind
  BY DEF Due, Behind
<1>5. ChainInv'
  BY <1>4 DEF ChainInv
<1> QED
  BY <1>1, <1>2, <1>3, <1>5

(* The device restarts as it started, but for the session.                 *)
LEMMA SendAssertsKeepsInv == ASSUME IInv, SendAsserts PROVE IInv'
<1> USE DEF SendAsserts
<1> DEFINE frame == Frame(0)
<1>1. /\ frame \in Pieces /\ frame.size > 0
      /\ frame.continues = 0 /\ frame.lacks = 0
  BY FrameIsPiece
<1>2. piece' = frame
  OBVIOUS
<1> HIDE DEF frame
<1>3. phone' \in Phones /\ phone'.lacks = 0 /\ phone'.framed
  BY DEF NewPhone, Phones
<1>4. TypeOK'
  BY <1>1, <1>2, <1>3, EmptyFacts DEF IInv, TypeOK, Streams, Pieces, Phones
<1>5. CallInv' /\ RoomInv'
  BY <1>1, <1>2, EmptyFacts, Sizes DEF CallInv, RoomInv
<1>6. ChainInv'
  BY <1>3, EmptyFacts DEF ChainInv
<1> QED
  BY <1>4, <1>5, <1>6 DEF IInv

(* Handing the buffer over leaves the phone at the end of what was behind. *)
LEMMA HandOverFacts ==
    ASSUME IInv, HandOver
    PROVE  /\ phone' \in Phones
           /\ ~torn => /\ phone'.framed
                       /\ up => phone'.lacks = Behind
                       /\ ~up => phone'.lacks = 0
<1> USE DEF IInv, HandOver
<1>1. buf \in Streams /\ phone \in Phones /\ buf.size \in Nat
  BY TypeFacts
<1>2. CASE up /\ buf.size > 0
  <2>1. phone' = [lacks |-> buf.lacks,
                  framed |-> phone.framed /\ buf.framed
                             /\ phone.lacks = buf.continues]
    BY <1>2
  <2>2. phone'.lacks = buf.lacks /\ phone' \in Phones
    BY <1>1, <2>1 DEF Phones, Streams
  <2>3. ASSUME ~torn PROVE phone'.framed
    <3>1. phone.framed /\ buf.framed /\ phone.lacks = buf.continues
      BY <1>2, <2>3 DEF ChainInv
    <3>2. phone'.framed = (phone.framed /\ buf.framed
                              /\ phone.lacks = buf.continues)
      BY <2>1
    <3> QED
      BY <3>1, <3>2
  <2> QED
    BY <1>2, <2>2, <2>3 DEF Behind
<1>3. CASE ~(up /\ buf.size > 0)
  BY <1>1, <1>3 DEF ChainInv, Behind
<1> QED
  BY <1>2, <1>3

LEMMA AppendKeepsInv == ASSUME IInv, Append PROVE IInv'
<1> USE DEF IInv, Append, link, call
<1>1. /\ buf \in Streams /\ piece \in Pieces /\ phone \in Phones
      /\ buf.size \in Nat /\ piece.size \in Nat /\ piece.size > 0
  BY TypeFacts DEF CallInv
<1>2. CASE ble /\ buf.size + piece.size > Capacity
  <2>1. HandOver /\ buf' = Joined(Empty, piece)
    BY <1>2
  <2>2. /\ buf' \in Streams /\ buf'.size = piece.size
        /\ buf'.continues = piece.continues /\ buf'.lacks = piece.lacks
        /\ buf'.framed
    BY <1>1, <2>1, EmptyFacts, JoinedFacts DEF Pieces
  <2>3. piece.size <= Capacity /\ buf.size > 0
    BY <1>1, <1>2, Sizes DEF RoomInv
  <2>4. /\ phone' \in Phones
        /\ ~torn => /\ phone'.framed
                    /\ up => phone'.lacks = Behind
                    /\ ~up => phone'.lacks = 0
    BY <2>1, HandOverFacts
  <2>5. TypeOK'
    BY <2>2, <2>4 DEF TypeOK, Streams, Phones
  <2>6. CallInv' /\ RoomInv'
    BY <1>1, <2>2, <2>3, Sizes DEF CallInv, RoomInv
  <2>7. Due = piece.continues /\ Due' = piece.lacks /\ Behind' = piece.lacks
    BY <1>1, <2>2 DEF Due, Behind
  <2>8. ChainInv'
    BY <1>1, <2>2, <2>4, <2>7 DEF ChainInv, CallInv
  <2> QED
    BY <2>5, <2>6, <2>8
<1>3. CASE ~(ble /\ buf.size + piece.size > Capacity)
  <2>1. phone' = phone /\ buf' = Joined(buf, piece)
    BY <1>3
  <2>2. /\ buf' \in Streams /\ buf'.size = buf.size + piece.size
        /\ buf'.lacks = piece.lacks
    BY <1>1, <2>1, JoinedFacts
  <2>3. TypeOK'
    BY <2>1, <2>2 DEF TypeOK, Streams
  <2>4. CallInv' /\ RoomInv'
    BY <1>1, <1>3, <2>2, Sizes DEF CallInv, RoomInv
  <2>5. Due = piece.continues /\ Due' = piece.lacks /\ Behind' = piece.lacks
    BY <1>1, <2>2 DEF Due, Behind
  <2>6. CASE buf.size = 0
    <3>1. buf'.continues = piece.continues /\ buf'.framed
      BY <1>1, <2>1, <2>6, JoinedFacts
    <3>2. Behind = phone.lacks
      BY <2>6 DEF Behind
    <3> QED
      BY <1>1, <2>1, <2>2, <2>3, <2>4, <2>5, <3>1, <3>2 DEF ChainInv, CallInv
  <2>7. CASE buf.size > 0
    <3>1. buf'.continues = buf.continues /\ Behind = buf.lacks
      BY <1>1, <2>1, <2>7, JoinedFacts DEF Behind
    <3>2. ~torn => buf.lacks = piece.continues
      BY <2>5, <3>1 DEF ChainInv
    <3>3. ~torn => buf'.framed
      BY <1>1, <2>1, <2>7, <3>2, JoinedFacts DEF ChainInv
    <3> QED
      BY <1>1, <2>1, <2>2, <2>3, <2>4, <2>5, <2>7, <3>1, <3>2, <3>3
         DEF ChainInv, CallInv
  <2> QED
    BY <1>1, <2>6, <2>7
<1> QED
  BY <1>2, <1>3

LEMMA AppendedKeepsInv == ASSUME IInv, Appended PROVE IInv'
<1> USE DEF IInv, Appended, link
<1>1. /\ pc = "appended" /\ pc' \in {"draw", "send", "flush"}
      /\ piece' \in Pieces /\ piece'.size > 0
      /\ tail' = 0 /\ closing' = closing
      /\ pc' = "send" => piece'.lacks = 0
      /\ Due' = tail
  BY ReturnFacts
<1>2. /\ buf \in Streams /\ phone \in Phones /\ buf.size \in Nat /\ buf.size > 0
      /\ Due = tail /\ Behind = buf.lacks
  BY <1>1, TypeFacts DEF CallInv, Due, Behind
<1>3. CASE ble /\ buf.size >= Capacity
  <2>1. HandOver /\ buf' = Empty
    BY <1>3
  <2>2. /\ phone' \in Phones
        /\ ~torn => /\ phone'.framed
                    /\ up => phone'.lacks = Behind
                    /\ ~up => phone'.lacks = 0
    BY <2>1, HandOverFacts
  <2>3. TypeOK'
    BY <1>1, <2>1, <2>2, EmptyFacts DEF TypeOK, Streams, Pieces, Phones
  <2>4. CallInv' /\ RoomInv'
    BY <1>1, <2>1, EmptyFacts, Sizes DEF CallInv, RoomInv
  <2>5. Behind' = phone'.lacks
    BY <2>1, EmptyFacts DEF Behind
  <2>6. ChainInv'
    BY <1>1, <1>2, <2>1, <2>2, <2>5, EmptyFacts DEF ChainInv
  <2> QED
    BY <2>3, <2>4, <2>6
<1>4. CASE ~(ble /\ buf.size >= Capacity)
  <2>1. phone' = phone /\ buf' = buf
    BY <1>4
  <2>2. TypeOK'
    BY <1>1, <2>1 DEF TypeOK, Pieces
  <2>3. CallInv' /\ RoomInv'
    BY <1>1, <1>2, <1>4, <2>1, Sizes DEF CallInv, RoomInv
  <2>4. Behind' = Behind
    BY <2>1 DEF Behind
  <2>5. ChainInv'
    BY <1>1, <1>2, <2>1, <2>4 DEF ChainInv
  <2> QED
    BY <2>2, <2>3, <2>5
<1> QED
  BY <1>3, <1>4

(* The buffer is handed over between two calls, or at the end of flush().  *)
LEMMA EmptiedKeepsInv ==
    ASSUME IInv, pc \in {"draw", "flush"}, pc' = "draw",
           HandOver, buf' = Empty, UNCHANGED <<link, call>>
    PROVE  IInv'
<1> USE DEF IInv, link, call
<1>1. /\ phone' \in Phones
      /\ ~torn => /\ phone'.framed
                  /\ up => phone'.lacks = Behind
                  /\ ~up => phone'.lacks = 0
  BY HandOverFacts
<1>2. TypeOK'
  BY <1>1, EmptyFacts DEF TypeOK, Streams, Phones
<1>3. CallInv' /\ RoomInv'
  BY EmptyFacts, Sizes DEF CallInv, RoomInv
<1>4. Due = 0 /\ Due' = 0 /\ Behind' = phone'.lacks
  BY EmptyFacts DEF Due, Behind
<1>5. ChainInv'
  BY <1>1, <1>4, EmptyFacts DEF ChainInv
<1> QED
  BY <1>2, <1>3, <1>5

(* Without a phone the buffer can be thrown away.                          *)
LEMMA ResetKeepsInv == ASSUME IInv, Reset PROVE IInv'
<1> USE DEF IInv, Reset, link, call
<1>1. TypeOK'
  BY EmptyFacts DEF TypeOK, Streams
<1>2. CallInv' /\ RoomInv'
  BY EmptyFacts, Sizes DEF CallInv, RoomInv
<1>3. ChainInv'
  BY EmptyFacts DEF ChainInv
<1> QED
  BY <1>1, <1>2, <1>3

(* A phone that comes finds whole frames, or the history says otherwise.   *)
LEMMA PhoneComesKeepsInv == ASSUME IInv, PhoneComes PROVE IInv'
<1> USE DEF IInv, PhoneComes, call
<1>1. phone' \in Phones /\ phone'.lacks = 0 /\ phone'.framed
  BY DEF NewPhone, Phones
<1>2. TypeOK'
  BY <1>1, Sizes DEF TypeOK, Phones, InBitmap, Idle
<1>3. CallInv' /\ RoomInv'
  BY DEF CallInv, RoomInv
<1>4. ASSUME ~torn'
      PROVE  /\ buf.framed /\ buf.continues = 0 /\ buf.lacks = 0
             /\ pc # "draw" => tail = 0 /\ piece.continues = 0
  <2>1. ~InBitmap /\ (torn => Idle)
    BY <1>4
  <2>2. buf.continues = 0 /\ (pc # "draw" => tail = 0 /\ piece.continues = 0)
    BY <2>1, TypeFacts DEF InBitmap
  <2>3. buf.framed /\ buf.lacks = 0
    BY <2>1, EmptyFacts DEF ChainInv, CallInv, Idle
  <2> QED
    BY <2>2, <2>3
<1>5. ASSUME ~torn' PROVE Due' = 0 /\ Behind' = 0
  BY <1>1, <1>4, <1>5 DEF Due, Behind, CallInv
<1>6. ChainInv'
  BY <1>1, <1>4, <1>5 DEF ChainInv
<1> QED
  BY <1>2, <1>3, <1>6

LEMMA PhoneLeavesKeepsInv == ASSUME IInv, PhoneLeaves PROVE IInv'
<1> USE DEF IInv, PhoneLeaves, call
<1>1. TypeOK'
  BY DEF TypeOK, InBitmap
<1>2. CallInv' /\ RoomInv'
  BY DEF CallInv, RoomInv
<1>3. ASSUME ~torn'
      PROVE  /\ phone.framed /\ buf.framed
             /\ phone.lacks = 0 /\ buf.continues = 0 /\ buf.lacks = 0
             /\ pc # "draw" => tail = 0 /\ piece.continues = 0
  <2>1. ~InBitmap /\ ~torn
    BY <1>3
  <2>2. buf.continues = 0 /\ (pc # "draw" => tail = 0 /\ piece.continues = 0)
    BY <2>1, TypeFacts DEF InBitmap
  <2>3. Due = 0
    BY <2>2 DEF Due, CallInv
  <2>4. CASE buf.size = 0
    BY <2>1, <2>2, <2>3, <2>4, EmptyFacts DEF ChainInv, CallInv, Behind
  <2>5. CASE buf.size > 0
    BY <2>1, <2>2, <2>3, <2>5 DEF ChainInv, Behind
  <2> QED
    BY <2>4, <2>5, TypeFacts
<1>4. ChainInv'
  BY <1>3 DEF ChainInv
<1> QED
  BY <1>1, <1>2, <1>4

-----------------------------------------------------------------------------

LEMMA StepInv == IInv /\ [Next]_vars => IInv'
<1> SUFFICES ASSUME IInv, [Next]_vars PROVE IInv'
  OBVIOUS
<1>1. ASSUME NEW command \in Shapes \cup Texts \cup Modes \cup {"Begin"},
             SendCommand(command)
      PROVE  IInv'
  BY <1>1, SendCommandKeepsInv
<1>2. ASSUME NEW fixed \in BitmapHeads, NEW b \in Bitmaps, DrawBitmap(fixed, b)
      PROVE  IInv'
  BY <1>2, DrawBitmapKeepsInv
<1>3. CASE Flush
  BY <1>3, FlushKeepsInv
<1>4. CASE SendDropped
  BY <1>4, SendDroppedKeepsInv
<1>5. CASE SendAccepted
  BY <1>5, SendAcceptedKeepsInv
<1>6. CASE SendAsserts
  BY <1>6, SendAssertsKeepsInv
<1>7. CASE Append
  BY <1>7, AppendKeepsInv
<1>8. CASE Appended
  BY <1>8, AppendedKeepsInv
<1>9. CASE FlushBuffer
  BY <1>9, EmptiedKeepsInv DEF FlushBuffer
<1>10. CASE Tick
  BY <1>10, EmptiedKeepsInv DEF Tick
<1>11. CASE Reset
  BY <1>11, ResetKeepsInv
<1>12. CASE PhoneComes
  BY <1>12, PhoneComesKeepsInv
<1>13. CASE PhoneLeaves
  BY <1>13, PhoneLeavesKeepsInv
<1>14. CASE UNCHANGED vars
  BY <1>14 DEF vars, link, call, IInv, TypeOK, CallInv, RoomInv, ChainInv,
               Behind, Due
<1>15. ASSUME Begin \/ DrawShape \/ SetText \/ SetMode
       PROVE  \E command \in Shapes \cup Texts \cup Modes \cup {"Begin"} :
                 SendCommand(command)
  BY <1>15 DEF Begin, DrawShape, SetText, SetMode
<1> QED
  BY <1>1, <1>2, <1>3, <1>4, <1>5, <1>6, <1>7, <1>8, <1>9, <1>10, <1>11,
     <1>12, <1>13, <1>14, <1>15 DEF Next

LEMMA AlwaysInv == Spec => []IInv
  BY InitInv, StepInv, PTL DEF Spec

(* No frame announces fewer bytes than its head holds, and every other     *)
(* variable keeps its type.                                                *)
THEOREM StreamTyped == Spec => []TypeOK
<1>1. IInv => TypeOK
  BY DEF IInv
<1> QED
  BY AlwaysInv, <1>1, PTL

(* The memcpy() of the BLE transport stays within its buffer, for every    *)
(* size of that buffer and every sequence of calls.                        *)
THEOREM BufferAlwaysFits == Spec => []BufferFits
<1>1. IInv => BufferFits
  BY DEF IInv, RoomInv, BufferFits
<1> QED
  BY AlwaysInv, <1>1, PTL

(* The phone of a session finds a frame at each place it looks for one,    *)
(* unless the link changed within a bitmap.                                *)
THEOREM StreamStaysFramed == Spec => []SessionFramed
<1>1. IInv => SessionFramed
  <2> SUFFICES ASSUME IInv, ~torn PROVE phone.framed /\ (Idle => phone.lacks = 0)
    BY DEF SessionFramed
  <2>1. ASSUME Idle PROVE Due = 0 /\ Behind = phone.lacks
    BY <2>1 DEF Idle, Due, Behind
  <2> QED
    BY <2>1 DEF IInv, ChainInv
<1> QED
  BY AlwaysInv, <1>1, PTL

=============================================================================

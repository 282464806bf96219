----------------------------- MODULE GfxStream ------------------------------
(***************************************************************************)
(* From a drawing call to the bytes of a link: Graphics                    *)
(* (src/graphics/Graphics.cpp) makes each call a length-prefixed frame, a  *)
(* transport gathers frames in its buffer and hands the buffer over when   *)
(* it is full (BleGraphicsTransport) or flushed.  Phones come and go       *)
(* between any two calls.                                                  *)
(*                                                                         *)
(* Bytes are counted, not kept.  What one transport.send() is given is a   *)
(* piece: its size, how many of its bytes continue the frame of the piece  *)
(* before, and how many bytes its last frame still lacks.  A stream is     *)
(* framed when each piece continues exactly what the one before it lacks.  *)
(***************************************************************************)
EXTENDS Integers

CONSTANTS
    Capacity,       \* AUTO_FLUSH_BYTES
    WifiBound,      \* bound: bytes drawn over WiFi between two flushes
    Bitmaps,        \* bound: the bitmaps drawn, as <<width, height>>; of a
                    \* size that the length of a frame can tell
    MaxSession      \* bound: sessions

ASSUME StreamAssumption ==
    /\ Capacity \in Nat \ {0}
    /\ WifiBound \in Nat
    /\ \A b \in Bitmaps : /\ b[1] \in Nat /\ b[2] \in Nat
                         /\ (b[1] * b[2] + 7) \div 8 < 65536 - 13
    /\ MaxSession \in Nat

VARIABLES
    ble,            \* the transport is BleGraphicsTransport, or WiFiTransport
    up, session,    \* canSend(); how many phones there have been
    buf,            \* _buf[0.._bufLen) of the BLE, _txBuf of the WiFi transport
    pc,             \* place in the drawing call
    piece,          \* what transport.send() has been given
    tail,           \* bytes of the bitmap to be sent after it, or 0
    closing,        \* the call is flush()
    phone,          \* how the stream looks to the phone of this session
    torn            \* history: the link changed within a bitmap of which the
                    \* transport still held a part when this phone came, or
                    \* since then

link == <<ble, up, session, torn>>
call == <<piece, tail, closing>>
vars == <<link, buf, pc, call, phone>>

-----------------------------------------------------------------------------
(* Frames.                                                                 *)

(* static_cast<uint16_t> *)
Word(n) == n % 65536

(* bytes of the payload of each command, packed *)
PayloadSize == [
    Begin |-> 4, FillScreen |-> 2, SetRotation |-> 1, InvertDisplay |-> 1,
    DrawPixel |-> 6, DrawLine |-> 10, FastLine |-> 8, Rect |-> 10,
    RoundRect |-> 12, Circle |-> 8, Triangle |-> 14,
    SetCursor |-> 4, SetTextColor |-> 2, SetTextColorBg |-> 4,
    SetTextSize |-> 1, SetTextWrap |-> 1, Cp437 |-> 1, SetFont |-> 2,
    WriteChar |-> 1]

Shapes == {"FillScreen", "DrawPixel", "DrawLine", "FastLine", "Rect",
           "RoundRect", "Circle", "Triangle"}
Texts == {"SetCursor", "SetTextColor", "SetTextColorBg", "SetTextSize",
          "SetTextWrap", "Cp437", "SetFont", "WriteChar"}
Modes == {"SetRotation", "InvertDisplay"}

(* the fixed part of a bitmap without and with a background colour *)
BitmapHeads == {8, 12}

(* magic, length and command come before the payload *)
HeaderSize == 4

(* a piece that is one whole frame *)
Frame(payload) == [size |-> HeaderSize + payload, continues |-> 0, lacks |-> 0]

(* Fault: the length leaves out the command byte. *)
HeadShort(fixed, n) == [size |-> HeaderSize + fixed, continues |-> 0,
                        lacks |-> Word(fixed + n) - (1 + fixed)]

(* sendCommandWithTail(): the length of head and tail announced, less what *)
(* of it the head supplies                                                 *)
Head(fixed, n) == [size |-> HeaderSize + fixed, continues |-> 0,
                   lacks |-> Word(1 + Word(fixed + n)) - (1 + fixed)]

TailPiece(n) == [size |-> n, continues |-> n, lacks |-> 0]

(* several pieces in a row, as one *)
Empty == [size |-> 0, continues |-> 0, lacks |-> 0, framed |-> TRUE]

Joined(b, p) ==
    IF b.size = 0
    THEN [size |-> p.size, continues |-> p.continues, lacks |-> p.lacks,
          framed |-> TRUE]
    ELSE [size |-> b.size + p.size, continues |-> b.continues, lacks |-> p.lacks,
          framed |-> b.framed /\ b.lacks = p.continues]

NewPhone == [lacks |-> 0, framed |-> TRUE]

Init ==
    /\ ble \in BOOLEAN
    /\ up = FALSE /\ session = 0
    /\ buf = Empty
    /\ pc = "draw"
    /\ piece = Frame(0) /\ tail = 0 /\ closing = FALSE
    /\ phone = NewPhone
    /\ torn = FALSE

-----------------------------------------------------------------------------
(* The drawing calls.                                                      *)

(* the vector of the WiFi transport has no limit *)
Room(n) == ~ble => buf.size + n + HeaderSize <= WifiBound

(* sendCommand(): one frame, one send() *)
SendCommand(command) ==
    /\ pc = "draw" /\ pc' = "send"
    /\ Room(HeaderSize + PayloadSize[command])
    /\ piece' = Frame(PayloadSize[command]) /\ tail' = 0
    /\ closing' = FALSE
    /\ UNCHANGED <<link, buf, phone>>

Begin == SendCommand("Begin")
DrawShape == \E command \in Shapes : SendCommand(command)
SetText == \E command \in Texts : SendCommand(command)
SetMode == \E command \in Modes : SendCommand(command)

(* a bit per pixel, rounded up to bytes at the end *)
BitmapBytes(b) == Word((b[1] * b[2] + 7) \div 8)

(* drawBitmap(): one frame, two send() *)
DrawBitmap(fixed, b) ==
    /\ pc = "draw" /\ pc' = "send"
    /\ Room(HeaderSize + fixed + BitmapBytes(b))
    /\ piece' = Head(fixed, BitmapBytes(b)) /\ tail' = BitmapBytes(b)
    /\ closing' = FALSE
    /\ UNCHANGED <<link, buf, phone>>

(* flush(): a FLUSH frame, then transport.flush() *)
Flush ==
    /\ pc = "draw" /\ pc' = "send"
    /\ piece' = Frame(0) /\ tail' = 0
    /\ closing' = TRUE
    /\ UNCHANGED <<link, buf, phone>>

-----------------------------------------------------------------------------
(* The transport.                                                          *)

(* hand the buffer over, or discard it when the link is down *)
HandOver ==
    phone' = IF up /\ buf.size > 0
             THEN [lacks |-> buf.lacks,
                   framed |-> phone.framed /\ buf.framed
                              /\ phone.lacks = buf.continues]
             ELSE phone

(* Fault: the tail is forgotten. *)
ReturnDropsTail ==
    /\ pc' = IF closing THEN "flush" ELSE "draw"
    /\ tail' = 0
    /\ UNCHANGED <<piece, closing>>

(* send() has returned: on with the tail, the flush, or the next call *)
Return ==
    /\ pc' = IF tail > 0 THEN "send" ELSE IF closing THEN "flush" ELSE "draw"
    /\ piece' = IF tail > 0 THEN TailPiece(tail) ELSE piece
    /\ tail' = 0
    /\ UNCHANGED closing

SendDropped ==
    /\ pc = "send" /\ ~up
    /\ Return
    /\ UNCHANGED <<link, buf, phone>>

TooLong == ble /\ piece.size > Capacity

SendAccepted ==
    /\ pc = "send" /\ up /\ ~TooLong
    /\ pc' = "append"
    /\ UNCHANGED <<link, buf, call, phone>>

(* configASSERT() fails: the device restarts *)
SendAsserts ==
    /\ pc = "send" /\ up /\ TooLong
    /\ up' = FALSE /\ torn' = FALSE /\ UNCHANGED <<ble, session>>
    /\ buf' = Empty /\ pc' = "draw"
    /\ piece' = Frame(0) /\ tail' = 0 /\ closing' = FALSE
    /\ phone' = NewPhone

(* Fault: the buffer is only looked at once the piece is in it. *)
AppendFirst ==
    /\ pc = "append" /\ pc' = "appended"
    /\ buf' = Joined(buf, piece)
    /\ UNCHANGED <<link, call, phone>>

(* flush first if the piece does not fit behind what is there *)
Append ==
    /\ pc = "append" /\ pc' = "appended"
    /\ IF ble /\ buf.size + piece.size > Capacity
       THEN HandOver /\ buf' = Joined(Empty, piece)
       ELSE UNCHANGED phone /\ buf' = Joined(buf, piece)
    /\ UNCHANGED <<link, call>>

(* flush if that filled it *)
Appended ==
    /\ pc = "appended"
    /\ IF ble /\ buf.size >= Capacity
       THEN HandOver /\ buf' = Empty
       ELSE UNCHANGED <<phone, buf>>
    /\ Return
    /\ UNCHANGED link

(* the flush of flush() *)
FlushBuffer ==
    /\ pc = "flush" /\ pc' = "draw"
    /\ HandOver /\ buf' = Empty
    /\ UNCHANGED <<link, call>>

(* loop() between two calls: the idle flush of the WiFi transport ... *)
Tick ==
    /\ pc = "draw" /\ ~ble /\ buf.size > 0
    /\ HandOver /\ buf' = Empty
    /\ UNCHANGED <<link, pc, call>>

(* ... and its reset after a lost link *)
Reset ==
    /\ pc = "draw" /\ ~ble /\ buf.size > 0 /\ ~up
    /\ buf' = Empty
    /\ UNCHANGED <<link, pc, call, phone>>

-----------------------------------------------------------------------------
(* Phones.  One that comes starts its parser afresh.                       *)

(* drawBitmap() is under way, or the buffer begins with the rest of one *)
InBitmap == \/ pc # "draw" /\ (tail > 0 \/ piece.continues > 0)
            \/ buf.continues > 0

Idle == pc = "draw" /\ buf.size = 0

PhoneComes ==
    /\ ~up /\ session < MaxSession
    /\ up' = TRUE /\ session' = session + 1
    /\ phone' = NewPhone
    /\ torn' = (InBitmap \/ (torn /\ ~Idle))
    /\ UNCHANGED <<ble, buf, pc, call>>

PhoneLeaves ==
    /\ up /\ up' = FALSE
    /\ torn' = (torn \/ InBitmap)
    /\ UNCHANGED <<ble, session, buf, pc, call, phone>>

Next == \/ Begin \/ DrawShape \/ SetText \/ SetMode
        \/ \E fixed \in BitmapHeads, b \in Bitmaps : DrawBitmap(fixed, b)
        \/ Flush
        \/ SendDropped \/ SendAccepted \/ SendAsserts
        \/ Append \/ Appended \/ FlushBuffer \/ Tick \/ Reset
        \/ PhoneComes \/ PhoneLeaves

Spec == Init /\ [][Next]_vars

-----------------------------------------------------------------------------
(* Properties.                                                             *)

(* Every variable keeps its type: in particular no frame announces fewer   *)
(* bytes than its head holds.                                              *)
TypeOK ==
    /\ ble \in BOOLEAN /\ torn \in BOOLEAN
    /\ up \in BOOLEAN /\ session \in 0..MaxSession
    /\ buf \in [size : Nat, continues : Nat, lacks : Nat, framed : BOOLEAN]
    /\ pc \in {"draw", "send", "append", "appended", "flush"}
    /\ piece \in [size : Nat, continues : Nat, lacks : Nat]
    /\ tail \in Nat /\ closing \in BOOLEAN
    /\ phone \in [lacks : Nat, framed : BOOLEAN]

(* The memcpy() of the BLE transport never writes past its buffer, however *)
(* the sizes of the commands fall and wherever a flush is discarded, and   *)
(* between two calls there is room for at least a byte.                    *)
BufferFits == ble => /\ buf.size <= Capacity
                     /\ pc \in {"draw", "send", "append"} => buf.size < Capacity

(* The phone of a session finds a frame at each place it looks for one,    *)
(* and is not left waiting for the rest of one when flush() has returned   *)
(* (README.md: frames arrive as a continuous stream with no gaps), however *)
(* phones come and go between and within the other commands.  Only a link  *)
(* that changes within a bitmap breaks that, and no longer than until the  *)
(* first phone that finds the transport empty.                             *)
SessionFramed == ~torn => /\ phone.framed
                          /\ Idle => phone.lacks = 0

=============================================================================

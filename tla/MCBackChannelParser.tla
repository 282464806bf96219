------------------------ MODULE MCBackChannelParser -------------------------
(* BackChannelParser with a pong, a key and touches.  With x = 13 the      *)
(* parser waits longest when the bytes before x are lost; 242 is a key's   *)
(* command; 165 and 421 have the low byte BC_MAGIC, and in y it is the     *)
(* last but one of the frame, which is then not contained.                 *)
EXTENDS BackChannelParser

Short(cmd) == <<BC_MAGIC, 1, 0, cmd>>
Touch(cmd, x, y) ==
    <<BC_MAGIC, 6, 0, cmd, x \div 256, x % 256, y \div 256, y % 256, 255>>

MCFrames ==
    {Short(BC_CMD_PONG), Short(BC_CMD_KEY1), Short(BC_CMD_TOUCH_UP)}
    \cup {Touch(BC_CMD_TOUCH_DOWN, x, y) : x \in {13, 165}, y \in {0, 242, 256}}
    \cup {Touch(BC_CMD_TOUCH_MOVE, x, y) : x \in {13, 421}, y \in {165, 421}}
=============================================================================

----------------------------- MODULE IPhoneTFT ------------------------------
(***************************************************************************)
(* The text state of Adafruit_iPhoneTFT                                    *)
(* (src/Adafruit_iPhone/Adafruit_iPhoneTFT.cpp): cursor, colour, size,     *)
(* wrap and code page live three times, in the Adafruit_GFX members, in    *)
(* the driver's cache of what the phone has (_r...) and in the phone.  A   *)
(* sketch that holds an Adafruit_GFX& changes the first behind the back of *)
(* the driver, since the setters are not virtual.  write() brings the      *)
(* phone up to date before each character.                                 *)
(*                                                                         *)
(* All of it runs on the loop task over a link that is up; MainLoop models *)
(* what happens when it is not.                                            *)
(***************************************************************************)

CONSTANTS
    Attrs,          \* the attributes of the text state
    Cursor,         \* the one a character moves
    Values,         \* what an attribute may be
    Sent            \* what its message tells the phone of a value: a text
                    \* size of two scales is sent as the first of them

ASSUME TextAssumption == Cursor \in Attrs /\ Sent \in [Attrs -> [Values -> Values]]

VARIABLES
    local,          \* cursor_x .. _cp437 of Adafruit_GFX
    remote,         \* _rCursorX .. _rCP437
    valid,          \* _remoteValid
    dirty,          \* attributes whose _dirty flag is set
    phone,          \* what the phone has
    garbled         \* history: a character was drawn with another state

vars == <<local, remote, valid, dirty, phone, garbled>>

States == [Attrs -> Values]

Init ==
    /\ local \in States /\ remote \in States /\ phone \in States
    /\ valid = FALSE
    /\ dirty = Attrs
    /\ garbled = FALSE

-----------------------------------------------------------------------------

(* Fault: the cache outlives the phone it describes. *)
BeginKeepsCache ==
    /\ phone' \in States
    /\ UNCHANGED <<local, remote, valid, dirty, garbled>>

(* begin(): the phone starts over in a state of its own *)
Begin ==
    /\ phone' \in States
    /\ valid' = FALSE
    /\ dirty' = Attrs
    /\ UNCHANGED <<local, remote, garbled>>

(* setRotation() makes everything dirty and keeps the cache valid *)
SetRotation ==
    /\ dirty' = Attrs
    /\ UNCHANGED <<local, remote, valid, phone, garbled>>

(* setCursor(), setTextColor() .. cp437() on the driver itself *)
Set(a, v) ==
    /\ local' = [local EXCEPT ![a] = v]
    /\ dirty' = dirty \cup {a}
    /\ UNCHANGED <<remote, valid, phone, garbled>>

(* the same through an Adafruit_GFX& *)
SetByBase(a, v) ==
    /\ local' = [local EXCEPT ![a] = v]
    /\ UNCHANGED <<remote, valid, dirty, phone, garbled>>

(* Fault: setters through the base class go unnoticed. *)
ToSyncByFlag == {a \in Attrs : a \in dirty \/ ~valid}

(* the attributes syncTextStateIfNeeded() sends *)
ToSync == {a \in Attrs : a \in dirty \/ ~valid \/ remote[a] # local[a]}

Synced == [a \in Attrs |-> IF a \in ToSync THEN Sent[a][local[a]] ELSE phone[a]]

(* the phone's state when it has been told all there is to tell *)
Told == [a \in Attrs |-> Sent[a][local[a]]]

(* Fault: the cursor the phone ends at is taken for known. *)
WriteTrustsPhone ==
    /\ \E here \in Values, there \in Values :
         /\ local' = [local EXCEPT ![Cursor] = here]
         /\ phone' = [Synced EXCEPT ![Cursor] = there]
    /\ remote' = local
    /\ valid' = TRUE
    /\ dirty' = {}
    /\ garbled' = (garbled \/ Synced # Told)

(* write(c).  A character moves the cursor on both sides, and where the    *)
(* phone puts it need not matter: it is sent again with the next one.      *)
Write ==
    /\ \E here \in Values, there \in Values :
         /\ local' = [local EXCEPT ![Cursor] = here]
         /\ phone' = [Synced EXCEPT ![Cursor] = there]
    /\ remote' = local
    /\ valid' = TRUE
    /\ dirty' = {Cursor}
    /\ garbled' = (garbled \/ Synced # Told)

(* write('\r') syncs and moves nothing *)
WriteReturn ==
    /\ phone' = Synced
    /\ remote' = local
    /\ valid' = TRUE
    /\ dirty' = {}
    /\ UNCHANGED <<local, garbled>>

Next == \/ Begin \/ SetRotation \/ Write \/ WriteReturn
        \/ \E a \in Attrs, v \in Values : Set(a, v) \/ SetByBase(a, v)

Spec == Init /\ [][Next]_vars

-----------------------------------------------------------------------------
(* Properties.                                                             *)

(* Every variable keeps its type. *)
TypeOK ==
    /\ local \in States /\ remote \in States /\ phone \in States
    /\ valid \in BOOLEAN /\ garbled \in BOOLEAN
    /\ dirty \subseteq Attrs

(* What the cache says the phone has, the phone has, wherever no flag says *)
(* otherwise, whatever mix of setters, rotations and restarts came before. *)
CacheCoherent == valid => \A a \in Attrs \ dirty : phone[a] = Sent[a][remote[a]]

(* Each character is drawn with the text state the sketch has set, through *)
(* whichever type it set it.                                               *)
TextRight == ~garbled

=============================================================================

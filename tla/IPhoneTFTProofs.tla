-------------------------- MODULE IPhoneTFTProofs ---------------------------
(* Proofs about IPhoneTFT, for every set of attributes and values.         *)
EXTENDS IPhoneTFT, TLAPS

(* The inductive invariant: types, coherence of the cache, and its         *)
(* consequence that no character was drawn with another state.             *)
IInv == TypeOK /\ CacheCoherent /\ TextRight

LEMMA ToldIsState == ASSUME TypeOK PROVE Told \in States
  BY TextAssumption DEF TypeOK, States, Told

(* What write() finds in the phone after the sync is all it can be told.   *)
LEMMA SyncedIsTold ==
    ASSUME TypeOK, CacheCoherent
    PROVE  Synced = Told
<1>1. ASSUME NEW a \in Attrs PROVE Synced[a] = Told[a]
  <2>1. CASE a \in ToSync
    BY <1>1, <2>1 DEF Synced, Told
  <2>2. CASE a \notin ToSync
    <3>1. valid /\ a \notin dirty /\ remote[a] = local[a]
      BY <1>1, <2>2 DEF ToSync, TypeOK
    <3>2. phone[a] = Sent[a][remote[a]]
      BY <1>1, <3>1 DEF CacheCoherent
    <3> QED
      BY <1>1, <2>2, <3>1, <3>2 DEF Synced, Told
  <2> QED
    BY <2>1, <2>2
<1> QED
  BY <1>1 DEF Synced, Told

LEMMA InitInv == Init => IInv
  BY DEF Init, IInv, TypeOK, CacheCoherent, TextRight

LEMMA StepInv == IInv /\ [Next]_vars => IInv'
<1> SUFFICES ASSUME IInv, [Next]_vars PROVE IInv'
  OBVIOUS
<1> USE TextAssumption
<1>0. TypeOK /\ CacheCoherent /\ TextRight
  BY DEF IInv
<1>1. CASE Begin
  BY <1>0, <1>1 DEF Begin, IInv, TypeOK, CacheCoherent, TextRight
<1>2. CASE SetRotation
  BY <1>0, <1>2 DEF SetRotation, IInv, TypeOK, CacheCoherent, TextRight
<1>3. ASSUME NEW a \in Attrs, NEW v \in Values, Set(a, v) PROVE IInv'
  <2>1. TypeOK'
    BY <1>0, <1>3 DEF Set, TypeOK, States
  <2>2. CacheCoherent' /\ TextRight'
    BY <1>0, <1>3 DEF Set, CacheCoherent, TextRight
  <2> QED
    BY <2>1, <2>2 DEF IInv
<1>4. ASSUME NEW a \in Attrs, NEW v \in Values, SetByBase(a, v) PROVE IInv'
  <2>1. TypeOK'
    BY <1>0, <1>4 DEF SetByBase, TypeOK, States
  <2>2. CacheCoherent' /\ TextRight'
    BY <1>0, <1>4 DEF SetByBase, CacheCoherent, TextRight
  <2> QED
    BY <2>1, <2>2 DEF IInv
<1>5. CASE Write
  <2>1. Synced = Told /\ Told \in States
    BY <1>0, SyncedIsTold, ToldIsState
  <2>2. PICK here \in Values, there \in Values :
          /\ local' = [local EXCEPT ![Cursor] = here]
          /\ phone' = [Told EXCEPT ![Cursor] = there]
    BY <1>5, <2>1 DEF Write
  <2>3. remote' = local /\ valid' = TRUE /\ dirty' = {Cursor} /\ garbled' = garbled
    BY <1>0, <1>5, <2>1 DEF Write, TypeOK
  <2>4. TypeOK'
    BY <1>0, <2>1, <2>2, <2>3 DEF TypeOK, States
  <2>5. CacheCoherent'
    BY <1>0, <2>1, <2>2, <2>3 DEF CacheCoherent, TypeOK, States, Told
  <2>6. TextRight'
    BY <1>0, <2>3 DEF TextRight
  <2> QED
    BY <2>4, <2>5, <2>6 DEF IInv
<1>6. CASE WriteReturn
  <2>1. Synced = Told /\ Told \in States
    BY <1>0, SyncedIsTold, ToldIsState
  <2> QED
    BY <1>0, <1>6, <2>1 DEF WriteReturn, IInv, TypeOK, CacheCoherent, TextRight, Told
<1>7. CASE UNCHANGED vars
  BY <1>0, <1>7 DEF vars, IInv, TypeOK, CacheCoherent, TextRight
<1> QED
  BY <1>1, <1>2, <1>3, <1>4, <1>5, <1>6, <1>7 DEF Next

LEMMA AlwaysInv == Spec => []IInv
  BY InitInv, StepInv, PTL DEF Spec

(* Where neither a flag nor the validity bit says otherwise, the phone has *)
(* what the cache says it has.                                             *)
THEOREM CacheStaysCoherent == Spec => []CacheCoherent
<1>1. IInv => CacheCoherent
  BY DEF IInv
<1> QED
  BY AlwaysInv, <1>1, PTL

(* Each character is drawn with the text state the sketch has set.         *)
THEOREM TextStaysRight == Spec => []TextRight
<1>1. IInv => TextRight
  BY DEF IInv
<1> QED
  BY AlwaysInv, <1>1, PTL

=============================================================================

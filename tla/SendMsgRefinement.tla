------------------------- MODULE SendMsgRefinement -------------------------
(***************************************************************************)
(* Proof that sendmsg (SendMsg) implements its one-step contract          *)
(* (SendMsgAbstract) under the refinement mapping Abs of SendMsg: every   *)
(* initial state maps to an initial state of the contract, and every step *)
(* of the code maps to a step of the contract or leaves the caller's view *)
(* unchanged.  The fairness part of the contract is checked by TLC only.  *)
(***************************************************************************)
EXTENDS SendMsgProofs

-----------------------------------------------------------------------------
(* The repacked copies of a message. *)

(* Line 76: the copy with both msghdr padding words cleared and the      *)
(* control block untouched is a repacked copy (no slot cleared yet).     *)
LEMMA RepackStart ==
  ASSUME NEW m \in Msgs
  PROVE  [ctllen |-> m.ctllen, cmsgLen |-> m.cmsgLen,
          cmsgPad |-> m.cmsgPad, pad1 |-> 0, pad2 |-> 0] \in Abs!Repacks(m)
<1> DEFINE R(Z) == [ctllen |-> m.ctllen, cmsgLen |-> m.cmsgLen,
                    cmsgPad |-> [o \in DOMAIN m.cmsgPad |->
                                   IF o \in Z THEN 0 ELSE m.cmsgPad[o]],
                    pad1 |-> 0, pad2 |-> 0]
<1>1. m.cmsgPad = [o \in DOMAIN m.cmsgPad |-> IF o \in {} THEN 0 ELSE m.cmsgPad[o]]
  BY MsgsElim
<1>2. [ctllen |-> m.ctllen, cmsgLen |-> m.cmsgLen,
       cmsgPad |-> m.cmsgPad, pad1 |-> 0, pad2 |-> 0] = R({})
  BY <1>1
<1>3. \E Z \in SUBSET DOMAIN m.cmsgPad :
        [ctllen |-> m.ctllen, cmsgLen |-> m.cmsgLen,
         cmsgPad |-> m.cmsgPad, pad1 |-> 0, pad2 |-> 0] = R(Z)
  <2>1. {} \in SUBSET DOMAIN m.cmsgPad
    OBVIOUS
  <2>2. QED
    BY <1>2, <2>1, Zenon
<1>4. QED
  BY <1>3 DEF Abs!Repacks

(* A repacked copy of m has the lengths of m, and its padding slots are  *)
(* those of m.                                                           *)
LEMMA RepacksElim ==
  ASSUME NEW m \in Msgs, NEW r \in Abs!Repacks(m)
  PROVE  /\ r.ctllen = m.ctllen
         /\ r.cmsgLen = m.cmsgLen
         /\ DOMAIN r.cmsgPad = Slots(m.ctllen)
BY MsgsElim DEF Abs!Repacks

(* Line 86: clearing __pad1 of one more slot keeps a repacked copy.      *)
LEMMA RepackClear ==
  ASSUME NEW m \in Msgs, NEW r \in Abs!Repacks(m), NEW o \in Slots(m.ctllen)
  PROVE  [r EXCEPT !.cmsgPad[o] = 0] \in Abs!Repacks(m)
<1> DEFINE D == DOMAIN m.cmsgPad
           Pad(Z) == [x \in D |-> IF x \in Z THEN 0 ELSE m.cmsgPad[x]]
           R(Z) == [ctllen |-> m.ctllen, cmsgLen |-> m.cmsgLen,
                    cmsgPad |-> Pad(Z), pad1 |-> 0, pad2 |-> 0]
<1>1. D = Slots(m.ctllen)
  BY MsgsElim
<1>2. PICK Z \in SUBSET D : r = R(Z)
  BY DEF Abs!Repacks
<1>3. [r EXCEPT !.cmsgPad[o] = 0]
        = [ctllen |-> m.ctllen, cmsgLen |-> m.cmsgLen,
           cmsgPad |-> [Pad(Z) EXCEPT ![o] = 0], pad1 |-> 0, pad2 |-> 0]
  BY <1>2
<1>4. [Pad(Z) EXCEPT ![o] = 0] = Pad(Z \cup {o})
  BY <1>1
<1>5. Z \cup {o} \in SUBSET D
  BY <1>1
<1>6. R(Z \cup {o}) \in Abs!Repacks(m)
  BY <1>5 DEF Abs!Repacks
<1>7. QED
  BY <1>3, <1>4, <1>6

-----------------------------------------------------------------------------
(* The invariant the refinement rests on.  Besides IInv it says that the *)
(* walk only runs for a non-null message of an LP64 build, and that       *)
(* while the call is between entry and send, h is a repacked copy of the *)
(* caller's message whose block fits chbuf (or the message itself when no *)
(* repacking is done).  It is what makes line 90's send a step of the     *)
(* contract.                                                              *)
RInv ==
  /\ IInv
  /\ pc = "walk" => msg # NULL /\ LP64
  /\ pc \in {"walk", "send"} /\ msg # NULL /\ LP64 =>
        /\ FitsChbuf(msg)
        /\ h \in Abs!Repacks(msg)
  /\ pc = "send" /\ (msg = NULL \/ ~LP64) => h = msg

LEMMA InitRInv == Init => RInv
BY InitIInv DEF Init, RInv

LEMMA NextRInv == RInv /\ [Next]_vars => RInv'
<1> SUFFICES ASSUME RInv, [Next]_vars PROVE RInv'
  OBVIOUS
<1>0. IInv'
  BY NextIInv DEF RInv
<1> USE <1>0 DEF RInv
<1>1. ASSUME NEW m \in CallerMsgs \cup {NULL}, Call(m) PROVE RInv'
  BY <1>1 DEF Call
<1>2. CASE Entry
  <2>1. CASE msg = NULL \/ ~LP64
    BY <1>2, <2>1 DEF Entry
  <2>2. CASE msg # NULL /\ LP64
    <3> DEFINE hh == [ctllen |-> msg.ctllen, cmsgLen |-> msg.cmsgLen,
                      cmsgPad |-> msg.cmsgPad, pad1 |-> 0, pad2 |-> 0]
    <3>1. msg \in Msgs
      BY <2>2 DEF IInv, TypeOK
    <3>2. hh \in Abs!Repacks(msg)
      BY <3>1, RepackStart
    <3>3. msg.ctllen \in Nat
      BY <3>1, MsgsElim
    <3>4. CASE hh.ctllen = 0
      BY <1>2, <2>2, <3>2, <3>3, <3>4, CapFacts DEF Entry, FitsChbuf
    <3>5. CASE ~FitsChbuf(hh)
      BY <1>2, <2>2, <3>3, <3>5, CapFacts DEF Entry, FitsChbuf
    <3>6. CASE hh.ctllen # 0 /\ FitsChbuf(hh)
      BY <1>2, <2>2, <3>2, <3>6 DEF Entry, FitsChbuf
    <3>7. QED
      BY <3>4, <3>5, <3>6
  <2>3. QED
    BY <2>1, <2>2
<1>3. CASE WalkStep
  <2>1. msg \in Msgs /\ h \in Abs!Repacks(msg) /\ c \in Slots(h.ctllen)
    BY <1>3 DEF WalkStep, IInv, TypeOK
  <2>2. c \in Slots(msg.ctllen)
    BY <2>1, RepacksElim
  <2>3. h' \in Abs!Repacks(msg)
    BY <1>3, <2>1, <2>2, RepackClear DEF WalkStep
  <2>4. QED
    BY <1>3, <2>3 DEF WalkStep
<1>4. CASE WalkExit
  BY <1>4 DEF WalkExit
<1>5. CASE Send
  BY <1>5 DEF Send
<1>6. CASE Return
  BY <1>6 DEF Return
<1>7. CASE UNCHANGED vars
  BY <1>7 DEF vars
<1>8. QED
  BY <1>1, <1>2, <1>3, <1>4, <1>5, <1>6, <1>7 DEF Next

-----------------------------------------------------------------------------
(* sendmsg of lines 53-91 implements its contract: whatever the caller   *)
(* passes, what reaches ax_sendmsg is the message itself, nothing (with   *)
(* ENOMEM, for a block larger than chbuf), or a copy whose lengths are    *)
(* the caller's and that differs from it only in zeroed padding.          *)
THEOREM Refinement == Spec => Abs!SafeSpec
<1> DEFINE st == IF pc \in {"entry", "walk", "send"} THEN "busy" ELSE pc
<1>1. Spec => []RInv
  BY InitRInv, NextRInv, PTL DEF Spec
<1>2. Init => Abs!AInit
  BY DEF Init, Abs!AInit
<1>3. RInv /\ [Next]_vars => [Abs!ANext]_Abs!avars
  <2> SUFFICES ASSUME RInv, [Next]_vars PROVE [Abs!ANext]_Abs!avars
    OBVIOUS
  <2> USE DEF RInv
  <2>1. ASSUME NEW m \in CallerMsgs \cup {NULL}, Call(m)
        PROVE  [Abs!ANext]_Abs!avars
    BY <2>1 DEF Call, Abs!ANext, Abs!ACall
  <2>2. CASE Entry
    <3>1. CASE msg = NULL \/ ~LP64
      BY <2>2, <3>1 DEF Entry, Abs!avars
    <3>2. CASE msg # NULL /\ LP64
      <4> DEFINE hh == [ctllen |-> msg.ctllen, cmsgLen |-> msg.cmsgLen,
                        cmsgPad |-> msg.cmsgPad, pad1 |-> 0, pad2 |-> 0]
      <4>1. CASE ~FitsChbuf(hh)
        <5>1. ~FitsChbuf(msg)
          BY <4>1 DEF FitsChbuf
        <5>2. msg.ctllen \in Nat
          BY <3>2, MsgsElim DEF IInv, TypeOK
        <5>3. pc' = "returned" /\ ret' = "ENOMEM" /\ UNCHANGED <<msg, sent>>
          BY <2>2, <3>2, <4>1, <5>2, CapFacts DEF Entry, FitsChbuf
        <5>4. Abs!Complete
          BY <2>2, <3>2, <5>1, <5>3 DEF Entry, Abs!Complete
        <5>5. QED
          BY <5>4 DEF Abs!ANext
      <4>2. CASE FitsChbuf(hh)
        <5>1. pc' \in {"send", "walk"} /\ UNCHANGED <<msg, sent, ret>>
          BY <2>2, <3>2, <4>2 DEF Entry
        <5>2. QED
          BY <2>2, <5>1 DEF Entry, Abs!avars
      <4>3. QED
        BY <4>1, <4>2
    <3>3. QED
      BY <3>1, <3>2
  <2>3. CASE WalkStep
    BY <2>3 DEF WalkStep, Abs!avars
  <2>4. CASE WalkExit
    BY <2>4 DEF WalkExit, Abs!avars
  <2>5. CASE Send
    <3>1. CASE msg = NULL \/ ~LP64
      <4>1. Abs!Complete
        BY <2>5, <3>1 DEF Send, Abs!Complete
      <4>2. QED
        BY <4>1 DEF Abs!ANext
    <3>2. CASE msg # NULL /\ LP64
      <4>1. FitsChbuf(msg) /\ sent' \in Abs!Repacks(msg)
        BY <2>5, <3>2 DEF Send
      <4>2. Abs!Complete
        BY <2>5, <3>2, <4>1 DEF Send, Abs!Complete
      <4>3. QED
        BY <4>2 DEF Abs!ANext
    <3>3. QED
      BY <3>1, <3>2
  <2>6. CASE Return
    BY <2>6 DEF Return, Abs!ANext, Abs!AReturn
  <2>7. CASE UNCHANGED vars
    BY <2>7 DEF vars, Abs!avars
  <2>8. QED
    BY <2>1, <2>2, <2>3, <2>4, <2>5, <2>6, <2>7 DEF Next
<1>4. QED
  BY <1>1, <1>2, <1>3, PTL DEF Spec, Abs!SafeSpec

=============================================================================

--------------------------- MODULE SendMsgProofs ---------------------------
(***************************************************************************)
(* Proofs about SendMsg for every value of the constants: the walk of     *)
(* sendmsg's CMSG_NXTHDR loop never leaves the copied control block or    *)
(* chbuf, and the variables keep their types.                             *)
(***************************************************************************)
EXTENDS SendMsg, TLAPS

-----------------------------------------------------------------------------
(* Arithmetic of the CMSG macros. *)

(* CMSG_ALIGN(n) is a multiple of the word size, at least n. *)
LEMMA AlignFacts ==
  ASSUME NEW n \in Nat
  PROVE  /\ CmsgAlign(n) \in Nat
         /\ CmsgAlign(n) % WordSize = 0
         /\ CmsgAlign(n) >= n
<1> DEFINE q == (n + WordSize - 1) \div WordSize
<1>1. q \in Nat /\ q * WordSize >= n
  BY WordSizeAssumption
<1>2. (q * WordSize) % WordSize = 0
  BY <1>1, WordSizeAssumption
<1>3. CmsgAlign(n) = q * WordSize
  BY DEF CmsgAlign
<1>4. QED
  BY <1>1, <1>2, <1>3, WordSizeAssumption

(* Adding a multiple of the word size keeps an offset word-aligned. *)
LEMMA AlignedSum ==
  ASSUME NEW a \in Nat, NEW b \in Nat,
         a % WordSize = 0, b % WordSize = 0
  PROVE  (a + b) % WordSize = 0
<1> DEFINE qa == a \div WordSize
           qb == b \div WordSize
<1>1. a = qa * WordSize /\ b = qb * WordSize /\ qa \in Nat /\ qb \in Nat
  <2>1. a = qa * WordSize + (a % WordSize) /\ b = qb * WordSize + (b % WordSize)
    BY WordSizeAssumption, SMTT(30)
  <2>2. qa \in Nat /\ qb \in Nat
    BY WordSizeAssumption
  <2>3. QED
    BY <2>1, <2>2, WordSizeAssumption, SMTT(20)
<1>2. a + b = (qa + qb) * WordSize
  BY <1>1, WordSizeAssumption, SMTT(20)
<1>3. ((qa + qb) * WordSize) % WordSize = 0
  BY <1>1, WordSizeAssumption
<1>4. QED
  BY <1>2, <1>3

(* chbuf holds at least one cmsghdr. *)
LEMMA CapFacts == Cap \in Nat /\ Cap >= HdrSize
<1>1. CmsgSpace(MaxFds * IntSize) \in Nat
  BY AlignFacts, MaxFdsAssumption, IntSizeAssumption, HdrSizeAssumption
     DEF CmsgSpace
<1>2. CmsgSpace(MaxFds * IntSize) \div HdrSize \in Nat
  BY <1>1, HdrSizeAssumption
<1>3. QED
  BY <1>2, HdrSizeAssumption DEF Cap

-----------------------------------------------------------------------------
(* The message headers. *)

(* A message of Msgs is a record of its five fields. *)
LEMMA MsgsElim ==
  ASSUME NEW m \in Msgs
  PROVE  /\ m.ctllen \in 0 .. MaxCtl
         /\ m.cmsgLen \in [Slots(m.ctllen) -> LenVals]
         /\ m.cmsgPad \in [Slots(m.ctllen) -> PadVals \cup {0}]
         /\ m.pad1 \in PadVals \cup {0}
         /\ m.pad2 \in PadVals \cup {0}
         /\ m = [ctllen |-> m.ctllen, cmsgLen |-> m.cmsgLen,
                 cmsgPad |-> m.cmsgPad, pad1 |-> m.pad1, pad2 |-> m.pad2]
BY DEF Msgs, MsgsWith

(* A record of five well-typed fields is a message of Msgs. *)
LEMMA MsgsIntro ==
  ASSUME NEW len \in 0 .. MaxCtl,
         NEW cl \in [Slots(len) -> LenVals],
         NEW cp \in [Slots(len) -> PadVals \cup {0}],
         NEW p1 \in PadVals \cup {0}, NEW p2 \in PadVals \cup {0}
  PROVE  [ctllen |-> len, cmsgLen |-> cl, cmsgPad |-> cp,
          pad1 |-> p1, pad2 |-> p2] \in Msgs
BY DEF Msgs, MsgsWith

(* Every message a caller passes is a message of Msgs. *)
LEMMA CallerMsgsInMsgs == CallerMsgs \subseteq Msgs
BY DEF CallerMsgs, Msgs, MsgsWith

(* Line 76 keeps a message in Msgs and leaves its control block alone. *)
LEMMA ClearHdrPads ==
  ASSUME NEW m \in Msgs
  PROVE  LET hh == [ctllen |-> m.ctllen, cmsgLen |-> m.cmsgLen,
                    cmsgPad |-> m.cmsgPad, pad1 |-> 0, pad2 |-> 0]
         IN  /\ hh \in Msgs
             /\ hh.ctllen = m.ctllen
             /\ hh.cmsgLen = m.cmsgLen
BY MsgsElim, MsgsIntro

(* Line 86 keeps a message in Msgs and leaves its lengths alone. *)
LEMMA ClearCmsgPad ==
  ASSUME NEW m \in Msgs, NEW o \in Slots(m.ctllen)
  PROVE  LET hh == [m EXCEPT !.cmsgPad[o] = 0]
         IN  /\ hh \in Msgs
             /\ hh.ctllen = m.ctllen
             /\ hh.cmsgLen = m.cmsgLen
<1> DEFINE hh == [m EXCEPT !.cmsgPad[o] = 0]
<1>0. m = [ctllen |-> m.ctllen, cmsgLen |-> m.cmsgLen,
           cmsgPad |-> m.cmsgPad, pad1 |-> m.pad1, pad2 |-> m.pad2]
  BY MsgsElim
<1>1. hh = [ctllen |-> m.ctllen, cmsgLen |-> m.cmsgLen,
            cmsgPad |-> [m.cmsgPad EXCEPT ![o] = 0],
            pad1 |-> m.pad1, pad2 |-> m.pad2]
  BY <1>0
<1>2. [m.cmsgPad EXCEPT ![o] = 0] \in [Slots(m.ctllen) -> PadVals \cup {0}]
  BY MsgsElim
<1>3. hh \in Msgs
  BY <1>1, <1>2, MsgsElim, MsgsIntro
<1>4. QED
  BY <1>1, <1>3

-----------------------------------------------------------------------------
(* The inductive invariant.  WalkInBounds alone is not inductive: the    *)
(* step of the loop needs that h is a message whose block fits chbuf and  *)
(* that c is a header slot of it.                                        *)
IInv ==
  /\ TypeOK
  /\ pc = "walk" => /\ h \in Msgs
                    /\ FitsChbuf(h)
                    /\ c = NoHdr \/ c \in Slots(h.ctllen)

(* A step of the walk from a header slot c of a block that fits chbuf    *)
(* lands on another header slot or ends the loop.                        *)
LEMMA NxtHdrInSlots ==
  ASSUME NEW m \in Msgs, FitsChbuf(m), NEW o \in Slots(m.ctllen)
  PROVE  NxtHdr(m, o) = NoHdr \/ NxtHdr(m, o) \in Slots(m.ctllen)
<1> DEFINE len == m.cmsgLen[o]
           a == CmsgAlign(len)
<1>1. len \in Nat /\ m.ctllen \in Nat
  BY MsgsElim, LenValsAssumption
<1>2. a \in Nat /\ a % WordSize = 0
  BY <1>1, AlignFacts
<1>3. o \in Nat /\ o % WordSize = 0
  BY DEF Slots
<1>4. (o + a) % WordSize = 0
  BY <1>2, <1>3, AlignedSum
<1>5. CASE a + HdrSize < m.ctllen - o
  <2>1. o + a \in 0 .. m.ctllen /\ o + a + HdrSize <= m.ctllen
    BY <1>1, <1>2, <1>3, <1>5, HdrSizeAssumption
  <2>2. o + a \in Slots(m.ctllen)
    BY <1>4, <2>1 DEF Slots
  <2>3. QED
    BY <2>2 DEF NxtHdr
<1>6. CASE ~(a + HdrSize < m.ctllen - o)
  BY <1>1, <1>2, <1>3, <1>6, HdrSizeAssumption DEF NxtHdr
<1>7. QED
  BY <1>5, <1>6

(* The invariant holds initially. *)
LEMMA InitIInv == Init => IInv
<1>1. Cap - HdrSize \in Nat
  BY CapFacts, HdrSizeAssumption
<1>2. QED
  BY <1>1 DEF Init, IInv, TypeOK, NoHdr

(* Every step keeps the invariant. *)
LEMMA NextIInv == IInv /\ [Next]_vars => IInv'
<1> SUFFICES ASSUME IInv, [Next]_vars PROVE IInv'
  OBVIOUS
<1> USE DEF IInv, TypeOK
<1>1. ASSUME NEW m \in CallerMsgs \cup {NULL}, Call(m) PROVE IInv'
  BY <1>1, CallerMsgsInMsgs DEF Call
<1>2. CASE Entry
  <2>1. CASE msg = NULL \/ ~LP64
    BY <1>2, <2>1 DEF Entry
  <2>2. CASE msg # NULL /\ LP64
    <3> DEFINE hh == [ctllen |-> msg.ctllen, cmsgLen |-> msg.cmsgLen,
                      cmsgPad |-> msg.cmsgPad, pad1 |-> 0, pad2 |-> 0]
    <3>1. msg \in Msgs
      BY <2>2
    <3>2. hh \in Msgs /\ hh.ctllen = msg.ctllen
      BY <3>1, ClearHdrPads
    <3>3. hh.ctllen \in Nat
      BY <3>2, MsgsElim
    <3>4. CASE hh.ctllen = 0
      BY <1>2, <2>2, <3>2, <3>4 DEF Entry, FitsChbuf
    <3>5. CASE ~FitsChbuf(hh)
      BY <1>2, <2>2, <3>1, <3>2, <3>5 DEF Entry, FitsChbuf
    <3>6. CASE hh.ctllen # 0 /\ FitsChbuf(hh)
      <4>1. FirstHdr(hh) = NoHdr \/ FirstHdr(hh) \in Slots(hh.ctllen)
        BY <3>3, HdrSizeAssumption, WordSizeAssumption DEF FirstHdr, Slots
      <4>2. FirstHdr(hh) \in (0 .. Cap - HdrSize) \cup {NoHdr}
        BY <3>3, <3>6, CapFacts, HdrSizeAssumption DEF FirstHdr, FitsChbuf
      <4>3. QED
        BY <1>2, <2>2, <3>2, <3>6, <4>1, <4>2 DEF Entry, FitsChbuf
    <3>7. QED
      BY <3>3, <3>4, <3>5, <3>6, <1>2 DEF Entry, FitsChbuf
  <2>3. QED
    BY <2>1, <2>2
<1>3. CASE WalkStep
  <2>1. h \in Msgs /\ FitsChbuf(h) /\ c \in Slots(h.ctllen)
    BY <1>3 DEF WalkStep
  <2>2. h' \in Msgs /\ h'.ctllen = h.ctllen /\ h'.cmsgLen = h.cmsgLen
    BY <1>3, <2>1, ClearCmsgPad DEF WalkStep
  <2>3. c' = NoHdr \/ c' \in Slots(h.ctllen)
    BY <1>3, <2>1, NxtHdrInSlots DEF WalkStep
  <2>4. h.ctllen \in Nat
    BY <2>1, MsgsElim
  <2>5. c' \in (0 .. Cap - HdrSize) \cup {NoHdr}
    BY <2>1, <2>3, <2>4, CapFacts, HdrSizeAssumption DEF Slots, FitsChbuf
  <2>6. QED
    BY <1>3, <2>1, <2>2, <2>3, <2>5 DEF WalkStep, FitsChbuf
<1>4. CASE WalkExit
  BY <1>4 DEF WalkExit
<1>5. CASE Send
  BY <1>5 DEF Send
<1>6. CASE Return
  BY <1>6 DEF Return, NoHdr
<1>7. CASE UNCHANGED vars
  BY <1>7 DEF vars
<1>8. QED
  BY <1>1, <1>2, <1>3, <1>4, <1>5, <1>6, <1>7 DEF Next

-----------------------------------------------------------------------------
(* The variables of sendmsg keep their types in every reachable state. *)
THEOREM TypeCorrect == Spec => []TypeOK
BY InitIInv, NextIInv, PTL DEF Spec, IInv

(* The CMSG_NXTHDR walk of lines 85-86 only ever reads and clears a      *)
(* header lying inside the copied control block, itself inside chbuf.    *)
THEOREM WalkMemorySafe == Spec => []WalkInBounds
<1>1. IInv => WalkInBounds
  BY DEF IInv, WalkInBounds, FitsChbuf
<1>2. QED
  BY <1>1, InitIInv, NextIInv, PTL DEF Spec

=============================================================================

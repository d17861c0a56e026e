------------------------------ MODULE SendMsg ------------------------------
(***************************************************************************)
(* sendmsg() of axlibc (src/ulib/axlibc/c/socket.c, lines 53-91).          *)
(*                                                                         *)
(* On an LP64 build the message header handed in by the caller is copied   *)
(* to a local header h whose two padding words are cleared; a non-empty    *)
(* control block is copied into the stack buffer chbuf (ENOMEM when it     *)
(* does not fit) and the cmsghdr records of the copy are walked with       *)
(* CMSG_FIRSTHDR / CMSG_NXTHDR, clearing the __pad1 word of every record   *)
(* visited.  The result is handed to ax_sendmsg.                           *)
(*                                                                         *)
(* Sizes are in bytes.  A control block is abstracted to the two header    *)
(* fields the code reads or writes at every word-aligned offset where a    *)
(* whole cmsghdr fits: cmsg_len (cmsgLen) and __pad1 (cmsgPad).  Level,    *)
(* type and payload bytes are never touched by the code and are left out. *)
(* One call is in progress at a time: the buffers are call-local, so calls *)
(* of different threads share nothing.                                     *)
(***************************************************************************)
EXTENDS Integers

CONSTANTS
  WordSize,  \* sizeof(long) = sizeof(size_t)
  HdrSize,   \* sizeof(struct cmsghdr)
  IntSize,   \* sizeof(int), the size of one passed descriptor
  MaxFds,    \* 255, the SCM_MAX_FD of old kernels that chbuf is sized by
  MaxCtl,    \* largest msg_controllen a caller passes in the model
  LenVals,   \* cmsg_len values a caller may have written
  PadVals,   \* values found in padding words (caller garbage)
  LP64,      \* LONG_MAX > INT_MAX: the build repacks
  NULL       \* the null message pointer

ASSUME WordSizeAssumption == WordSize \in Nat \ {0}
ASSUME HdrSizeAssumption == HdrSize \in Nat \ {0} /\ HdrSize % WordSize = 0
ASSUME IntSizeAssumption == IntSize \in Nat \ {0}
ASSUME MaxFdsAssumption == MaxFds \in Nat
ASSUME MaxCtlAssumption == MaxCtl \in Nat
ASSUME LenValsAssumption == LenVals \subseteq Nat
ASSUME PadValsAssumption == PadVals \subseteq Nat
ASSUME LP64Assumption == LP64 \in BOOLEAN

(* CMSG_ALIGN and __CMSG_LEN: round a length up to a word boundary. *)
CmsgAlign(len) == ((len + WordSize - 1) \div WordSize) * WordSize

(* CMSG_SPACE(len). *)
CmsgSpace(len) == CmsgAlign(len) + CmsgAlign(HdrSize)

(* sizeof chbuf: CMSG_SPACE(255*sizeof(int))/sizeof(struct cmsghdr)+1   *)
(* cmsghdr slots.                                                        *)
Cap == (CmsgSpace(MaxFds * IntSize) \div HdrSize + 1) * HdrSize

(* Word-aligned offsets of a control block of len bytes at which a whole *)
(* cmsghdr fits.                                                         *)
Slots(len) == {o \in 0 .. len : o % WordSize = 0 /\ o + HdrSize <= len}

(* Message headers: msg_controllen, the cmsghdr fields of the control    *)
(* block and the two msghdr padding words, padding drawn from pads.       *)
MsgsWith(pads) ==
  UNION { [ctllen : {len},
           cmsgLen : [Slots(len) -> LenVals],
           cmsgPad : [Slots(len) -> pads],
           pad1 : pads, pad2 : pads] : len \in 0 .. MaxCtl }

(* The messages a caller may pass, and those the code may build. *)
CallerMsgs == MsgsWith(PadVals)
Msgs == MsgsWith(PadVals \cup {0})

(* Line 79 negated: the control block fits in chbuf. *)
FitsChbuf(m) == m.ctllen <= Cap

(* A null cmsghdr pointer. *)
NoHdr == -1

(* Mutant: CMSG_FIRSTHDR without its size test. *)
FirstHdrUnchecked(m) == 0

(* CMSG_FIRSTHDR(&h). *)
FirstHdr(m) == IF m.ctllen >= HdrSize THEN 0 ELSE NoHdr

(* Mutants of CMSG_NXTHDR: the room left measured from the start of the *)
(* block instead of from c; an empty record taken for a malformed one;   *)
(* the malformed-length test dropped.                                     *)
NxtHdrFromStart(m, c) ==
  IF \/ m.cmsgLen[c] < HdrSize
     \/ CmsgAlign(m.cmsgLen[c]) + HdrSize >= m.ctllen
  THEN NoHdr
  ELSE c + CmsgAlign(m.cmsgLen[c])

NxtHdrEmptyMalformed(m, c) ==
  IF \/ m.cmsgLen[c] <= HdrSize
     \/ CmsgAlign(m.cmsgLen[c]) + HdrSize >= m.ctllen - c
  THEN NoHdr
  ELSE c + CmsgAlign(m.cmsgLen[c])

NxtHdrNoLenCheck(m, c) ==
  IF CmsgAlign(m.cmsgLen[c]) + HdrSize >= m.ctllen - c
  THEN NoHdr
  ELSE c + CmsgAlign(m.cmsgLen[c])

(* CMSG_NXTHDR(&h, c): the next record, or null when c is malformed or   *)
(* when the next header would not fit strictly inside the block.         *)
NxtHdr(m, c) ==
  IF \/ m.cmsgLen[c] < HdrSize
     \/ CmsgAlign(m.cmsgLen[c]) + HdrSize >= m.ctllen - c
  THEN NoHdr
  ELSE c + CmsgAlign(m.cmsgLen[c])

VARIABLES
  pc,    \* "idle" between calls, "entry", "walk" (the for loop), "send",
         \* "returned" when the call has returned to its caller
  msg,   \* the caller's message (read only during the call)
  h,     \* the local copy h, its control block being chbuf
  c,     \* the loop cursor
  sent,  \* the message last handed to ax_sendmsg
  ret    \* what the last call returned: "sent" or "ENOMEM"

vars == <<pc, msg, h, c, sent, ret>>

TypeOK ==
  /\ pc \in {"idle", "entry", "walk", "send", "returned"}
  /\ msg \in Msgs \cup {NULL}
  /\ h \in Msgs \cup {NULL}
  /\ c \in (0 .. Cap - HdrSize) \cup {NoHdr}
  /\ sent \in Msgs \cup {NULL}
  /\ ret \in {"none", "sent", "ENOMEM"}

Init ==
  /\ pc = "idle"
  /\ msg = NULL
  /\ h = NULL
  /\ c = NoHdr
  /\ sent = NULL
  /\ ret = "none"

(* A thread calls sendmsg(fd, m, flags). *)
Call(m) ==
  /\ pc = "idle"
  /\ pc' = "entry"
  /\ msg' = m
  /\ UNCHANGED <<h, c, sent, ret>>

(* Mutant: only __pad1 of the msghdr cleared, __pad2 copied from the     *)
(* caller (line 77 losing its second assignment).                        *)
EntryPad2Kept ==
  /\ pc = "entry"
  /\ \/ /\ msg = NULL \/ ~LP64
        /\ h' = msg
        /\ pc' = "send"
        /\ UNCHANGED <<c, ret>>
     \/ /\ msg # NULL /\ LP64
        /\ LET hh == [ctllen |-> msg.ctllen, cmsgLen |-> msg.cmsgLen,
                      cmsgPad |-> msg.cmsgPad, pad1 |-> 0, pad2 |-> msg.pad2] IN
           \/ /\ hh.ctllen = 0
              /\ h' = hh
              /\ pc' = "send"
              /\ UNCHANGED <<c, ret>>
           \/ /\ ~FitsChbuf(hh)
              /\ ret' = "ENOMEM"
              /\ pc' = "returned"
              /\ UNCHANGED <<h, c>>
           \/ /\ hh.ctllen # 0
              /\ FitsChbuf(hh)
              /\ h' = hh
              /\ c' = FirstHdr(hh)
              /\ pc' = "walk"
              /\ UNCHANGED ret
  /\ UNCHANGED <<msg, sent>>

(* Lines 74-77: no repacking for a null message or a non-LP64 build;     *)
(* otherwise h = *msg with both padding words cleared.                   *)
Entry ==
  /\ pc = "entry"
  /\ \/ /\ msg = NULL \/ ~LP64
        /\ h' = msg
        /\ pc' = "send"
        /\ UNCHANGED <<c, ret>>
     \/ /\ msg # NULL /\ LP64
        /\ LET hh == [ctllen |-> msg.ctllen, cmsgLen |-> msg.cmsgLen,
                      cmsgPad |-> msg.cmsgPad, pad1 |-> 0, pad2 |-> 0] IN
           \* Line 78: an empty control block is not touched.
           \/ /\ hh.ctllen = 0
              /\ h' = hh
              /\ pc' = "send"
              /\ UNCHANGED <<c, ret>>
           \* Lines 79-81: too large for chbuf, nothing is sent.
           \/ /\ ~FitsChbuf(hh)
              /\ ret' = "ENOMEM"
              /\ pc' = "returned"
              /\ UNCHANGED <<h, c>>
           \* Lines 83-85: memcpy into chbuf, which h now points to, and
           \* c = CMSG_FIRSTHDR(&h).
           \/ /\ hh.ctllen # 0
              /\ FitsChbuf(hh)
              /\ h' = hh
              /\ c' = FirstHdr(hh)
              /\ pc' = "walk"
              /\ UNCHANGED ret
  /\ UNCHANGED <<msg, sent>>

(* Lines 85-86: one iteration, c->__pad1 = 0 then c = CMSG_NXTHDR(&h,c). *)
WalkStep ==
  /\ pc = "walk"
  /\ c # NoHdr
  /\ h' = [h EXCEPT !.cmsgPad[c] = 0]
  /\ c' = NxtHdr(h, c)
  /\ UNCHANGED <<pc, msg, sent, ret>>

(* Line 85: the loop ends when c is null. *)
WalkExit ==
  /\ pc = "walk"
  /\ c = NoHdr
  /\ pc' = "send"
  /\ UNCHANGED <<msg, h, c, sent, ret>>

(* Line 90: return ax_sendmsg(fd, msg, flags), msg now pointing to h. *)
Send ==
  /\ pc = "send"
  /\ sent' = h
  /\ ret' = "sent"
  /\ pc' = "returned"
  /\ UNCHANGED <<msg, h, c>>

(* The call has returned: h, chbuf and c live on its stack and are gone, *)
(* and the caller may issue the next call.                               *)
Return ==
  /\ pc = "returned"
  /\ pc' = "idle"
  /\ msg' = NULL
  /\ h' = NULL
  /\ c' = NoHdr
  /\ sent' = NULL
  /\ ret' = "none"

Next ==
  \/ \E m \in CallerMsgs \cup {NULL} : Call(m)
  \/ Entry
  \/ WalkStep
  \/ WalkExit
  \/ Send
  \/ Return

(* sendmsg runs on the calling thread without blocking: once called, a   *)
(* scheduled thread keeps taking its steps.                              *)
Fairness == WF_vars(Entry \/ WalkStep \/ WalkExit \/ Send)

Spec == Init /\ [][Next]_vars /\ Fairness

-----------------------------------------------------------------------------
(* Memory safety of the walk (lines 79-86): whenever the loop body is     *)
(* about to read cmsg_len and clear __pad1 at c, the copied block fits in *)
(* chbuf and a whole cmsghdr at c lies inside the copied bytes, so        *)
(* neither chbuf nor the caller's msg_controllen is overrun.              *)
WalkInBounds ==
  pc = "walk" /\ c # NoHdr => /\ h.ctllen <= Cap
                              /\ c \in Slots(h.ctllen)

(* Every call of sendmsg returns: the CMSG_NXTHDR loop terminates on any *)
(* control block, malformed cmsg_len values included.                    *)
Termination == (pc = "entry") ~> (pc = "returned")

-----------------------------------------------------------------------------
(* The refinement mapping: a call in progress (entry, the walk, the send) *)
(* is the abstract "busy"; h and c are internal to the call.              *)
Abs == INSTANCE SendMsgAbstract
         WITH state <- IF pc \in {"entry", "walk", "send"} THEN "busy" ELSE pc,
              Fits <- FitsChbuf

(* sendmsg implements its one-step contract: every call, seen from the    *)
(* caller, forwards the message unchanged, fails with ENOMEM only when    *)
(* the block does not fit chbuf, or sends a copy that differs from the    *)
(* caller's only in zeroed padding (lines 74-90 never corrupt a length), *)
(* and every call completes.                                              *)
AbstractSpec == Abs!Spec

=============================================================================

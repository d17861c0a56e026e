----------------------------- MODULE MC_SendMsg -----------------------------
(***************************************************************************)
(* Model-checking instance of SendMsg, scaled down: words of 2 bytes,     *)
(* cmsghdr of 4 and room for MC_MaxFds one-byte descriptors, so that      *)
(* chbuf (Cap = 12 bytes) holds three headers, as the real one (1056      *)
(* bytes, 66 headers) holds many.  cmsg_len values cover every class the  *)
(* macros tell apart: below a header (0), exactly a header (an empty      *)
(* record), an odd length that is rounded up, an even one, and one that   *)
(* runs past any block.                                                    *)
(***************************************************************************)
EXTENDS CmsgRecords

MC_WordSize == 2
MC_HdrSize == 4
MC_IntSize == 1
MC_MaxFds == 3
MC_MaxCtl == 13
MC_LenVals == {0, 4, 5, 6, 14}
MC_PadVals == {1}

-----------------------------------------------------------------------------
(* After repacking, every record of the message handed to ax_sendmsg has *)
(* a zero __pad1 word, whatever garbage the caller left there (spec.md 8, *)
(* fourth property; lines 85-86 are meant to reach every record).         *)
SpecRecordsZeroed ==
  LP64 /\ pc = "returned" /\ sent # NULL =>
    \A o \in SpecRecords(sent) : sent.cmsgPad[o] = 0

(* Every record that carries a payload (cmsg_len above a bare header) has *)
(* a zero __pad1 word when the message reaches ax_sendmsg: the walk of    *)
(* lines 85-86 visits it, following the word-rounded footprints.          *)
PayloadRecordsZeroed ==
  LP64 /\ pc = "returned" /\ sent # NULL =>
    \A o \in SpecRecords(sent) :
      sent.cmsgLen[o] > HdrSize => sent.cmsgPad[o] = 0

=============================================================================

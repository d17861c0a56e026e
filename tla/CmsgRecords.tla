----------------------------- MODULE CmsgRecords -----------------------------
(***************************************************************************)
(* The control-message records of a control block as the design (spec.md  *)
(* 4.2 and 3) defines them, independently of the CMSG_NXTHDR macro: the   *)
(* first record starts at offset 0, each record's footprint is its        *)
(* cmsg_len rounded up to a word, and a record exists where a whole       *)
(* header fits and its declared length, at least a header, does not run   *)
(* past the end of the block.  The reference the code's walk is checked   *)
(* against.                                                                *)
(***************************************************************************)
EXTENDS SendMsg

(* A well-formed record starts at offset o of m's control block. *)
RecordAt(m, o) ==
  /\ o \in Slots(m.ctllen)
  /\ m.cmsgLen[o] >= HdrSize
  /\ o + m.cmsgLen[o] <= m.ctllen

(* The offsets of the records of m, found by following the chain from    *)
(* offset 0 while records exist.                                          *)
SpecRecords(m) ==
  LET off[k \in 0 .. m.ctllen] ==
        IF k = 0 THEN 0
        ELSE IF RecordAt(m, off[k - 1])
             THEN off[k - 1] + CmsgAlign(m.cmsgLen[off[k - 1]])
             ELSE NoHdr
  IN  {off[k] : k \in 0 .. m.ctllen} \cap {o \in 0 .. m.ctllen : RecordAt(m, o)}

=============================================================================

-------------------------- MODULE SendMsgAbstract --------------------------
(***************************************************************************)
(* What sendmsg of axlibc promises its caller (spec.md 4.2, 4.3, 6), as   *)
(* one atomic step per call.                                               *)
(*                                                                         *)
(* A call either forwards the caller's message unchanged (a null message, *)
(* or a build where the two header shapes coincide), or fails with ENOMEM *)
(* without sending when the control block does not fit the scratch        *)
(* buffer, or sends a repacked copy: the msghdr padding words are zero,   *)
(* msg_controllen and every cmsg_len are those of the caller, and the     *)
(* __pad1 word of each header slot is either the caller's or zero.  Which *)
(* slots are cleared is left open here: the walk of the implementation    *)
(* decides it.                                                             *)
(***************************************************************************)
CONSTANTS
  CallerMsgs, \* the messages a caller may pass
  NULL,       \* the null message pointer
  LP64,       \* the build repacks
  Fits(_)     \* Fits(m): the control block of m fits the scratch buffer

VARIABLES
  state, \* "idle", "busy" while a call is in progress, "returned"
  msg,   \* the caller's message
  sent,  \* the message handed to the transmit primitive
  ret    \* "none", "sent" or "ENOMEM"

avars == <<state, msg, sent, ret>>

(* The copies of m that differ from it at most by zeroed padding: the     *)
(* __pad1 words of the slots in Z are cleared, and so are both msghdr     *)
(* padding words.                                                          *)
Repacks(m) ==
  { [ctllen |-> m.ctllen,
     cmsgLen |-> m.cmsgLen,
     cmsgPad |-> [o \in DOMAIN m.cmsgPad |-> IF o \in Z THEN 0 ELSE m.cmsgPad[o]],
     pad1 |-> 0, pad2 |-> 0] : Z \in SUBSET DOMAIN m.cmsgPad }

AInit ==
  /\ state = "idle"
  /\ msg = NULL
  /\ sent = NULL
  /\ ret = "none"

ACall(m) ==
  /\ state = "idle"
  /\ state' = "busy"
  /\ msg' = m
  /\ UNCHANGED <<sent, ret>>

(* The whole of a call, from entry to its result. *)
Complete ==
  /\ state = "busy"
  /\ state' = "returned"
  /\ \/ /\ msg = NULL \/ ~LP64
        /\ sent' = msg
        /\ ret' = "sent"
     \/ /\ msg # NULL /\ LP64
        /\ ~Fits(msg)
        /\ ret' = "ENOMEM"
        /\ UNCHANGED sent
     \/ /\ msg # NULL /\ LP64
        /\ Fits(msg)
        /\ sent' \in Repacks(msg)
        /\ ret' = "sent"
  /\ UNCHANGED msg

AReturn ==
  /\ state = "returned"
  /\ state' = "idle"
  /\ msg' = NULL
  /\ sent' = NULL
  /\ ret' = "none"

ANext ==
  \/ \E m \in CallerMsgs \cup {NULL} : ACall(m)
  \/ Complete
  \/ AReturn

(* The safety part, and the promise that a call returns. *)
SafeSpec == AInit /\ [][ANext]_avars
Spec == SafeSpec /\ WF_avars(Complete)

=============================================================================

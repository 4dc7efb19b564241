--------------------------- MODULE FrameRetention ---------------------------
(***************************************************************************)
(* Frame-scoped retention of resources the GPU may still reference: class  *)
(* mcvr::FrameRetention.  The groups are a sequence, oldest first; a group *)
(* is a record of the serial of the frame that opened it and the resources *)
(* retired since.                                                          *)
(***************************************************************************)
EXTENDS Integers, Sequences

NewGroup(serial) == [serial |-> serial, resources |-> {}]

\* The newest group also holds r.
Holding(groups, r) == [groups EXCEPT ![Len(groups)].resources = @ \cup {r}]

\* Mutant: what is retained while no group is open is not held by any.
RetainInOpenGroup(groups, r) == IF groups = <<>> THEN groups ELSE Holding(groups, r)

\* Before the first frame, and after clear(), what is retained opens group 0.
Retain(groups, r) == Holding(IF groups = <<>> THEN <<NewGroup(0)>> ELSE groups, r)

\* A group is due once its frame is complete and `inFlight' newer ones have begun.
Due(g, frame, completed, inFlight) ==
    g.serial <= completed /\ g.serial + inFlight <= frame

\* The loop of beginFrame() pops the first n groups, up to the first one not due: a
\* group that is not due holds back the later ones.
DuePrefix(groups, n, frame, completed, inFlight) ==
    /\ \A i \in 1 .. n : Due(groups[i], frame, completed, inFlight)
    /\ n < Len(groups) => ~Due(groups[n + 1], frame, completed, inFlight)

BeginFrame(groups, n, frame) ==
    Append(SubSeq(groups, n + 1, Len(groups)), NewGroup(frame))

\* What the groups hold: what clear() destroys.
Retained(groups) == UNION {groups[i].resources : i \in DOMAIN groups}

\* What beginFrame() destroys.
Released(groups, n) == UNION {groups[i].resources : i \in 1 .. n}
=============================================================================

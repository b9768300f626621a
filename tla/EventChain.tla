----------------------------- MODULE EventChain -----------------------------
(***************************************************************************)
(* What the event flow promises to those who watch a collection: a log of  *)
(* its valid events that only grows at the end and that at every moment is *)
(* a prefix of what happened, without a gap, a repetition or a swap.       *)
(***************************************************************************)
EXTENDS Naturals, Sequences

VARIABLES
    oplog,  \* what happened: records with a field ok, TRUE for valid events
    out     \* positions of the published events, in the order readers see them

vars == << oplog, out >>

Extends(new, old) == Len(new) > Len(old) /\ SubSeq(new, 1, Len(old)) = old

\* s lists, in their order, all the valid events up to its last one.
IsValidPrefix(s) ==
    /\ \A j \in DOMAIN s : s[j] \in 1 .. Len(oplog) /\ oplog[s[j]].ok
    /\ \A j, k \in DOMAIN s : j < k => s[j] < s[k]
    /\ \A i \in 1 .. Len(oplog) :
          oplog[i].ok /\ (\E j \in DOMAIN s : i <= s[j]) => \E j \in DOMAIN s : s[j] = i

Init == oplog = << >> /\ out = << >>

Happen == Extends(oplog', oplog) /\ UNCHANGED out

Publish == Extends(out', out) /\ IsValidPrefix(out') /\ UNCHANGED oplog

Spec == Init /\ [][Happen \/ Publish]_vars
=============================================================================

----------------------------- MODULE EqClassMgr -----------------------------
(***************************************************************************)
(* EqClassMgr: the destination addresses the program tells apart.  Every   *)
(* address and prefix of the configuration is added in turn, and splits    *)
(* the equivalence classes (ECs) it partly covers.                         *)
(*                                                                         *)
(* The manager is a record: all_ecs is the number of ECs ever created, a   *)
(* class being the number it was created under; allranges holds the ranges *)
(* with their class, ports the destination ports.  The ranges of a class   *)
(* are those allranges gives it, whatever order the code keeps them in.    *)
(***************************************************************************)
EXTENDS Integers, Sequences, FiniteSets, FiniteSetsExt, SequencesExt

CONSTANT MaxAddr    \* the highest address, 255.255.255.255 in the code

ASSUME EqClassAssumption == MaxAddr \in Nat

Addresses == 0 .. MaxAddr
Ranges == {r \in [lb : Addresses, ub : Addresses] : r.lb <= r.ub}

NoEcs == [all_ecs |-> 0, allranges |-> {}, owned_ecs |-> {}, ports |-> {}]

\* operator==: neither range is below the other
Overlaps(a, b) == ~(a.ub < b.lb) /\ ~(b.ub < a.lb)

Within(a, b) == b.lb <= a.lb /\ a.ub <= b.ub

RangesOf(mgr, ec) == {r \in mgr.allranges : r.ec = ec}

\* Mutant: the ranges that begin before the one asked for are not visited.
OverlappedRangesForward(mgr, range) ==
  {r \in mgr.allranges : Overlaps(r, range) /\ range.lb <= r.lb}

OverlappedRanges(mgr, range) == {r \in mgr.allranges : Overlaps(r, range)}

\* The classes get_overlapped_ecs finds, before and after the range the set
\* has found.
GetOverlappedEcs(mgr, range, owned_only) ==
  {r.ec : r \in OverlappedRanges(mgr, range)}
    \cap (IF owned_only THEN mgr.owned_ecs ELSE 1 .. mgr.all_ecs)

\* The part of a range below or above another one, if any, and the part inside.
Outside(r, range) ==
  {p \in {[r EXCEPT !.ub = range.lb - 1], [r EXCEPT !.lb = range.ub + 1]} :
     p.lb <= p.ub /\ Within(p, r)}

Inside(r, range) ==
  [r EXCEPT !.lb = IF @ < range.lb THEN range.lb ELSE @,
            !.ub = IF range.ub < @ THEN range.ub ELSE @]

\* Mutant: the class that is split becomes owned as well.
OwnedAfterSplitBoth(mgr, ec, new, owned) ==
  IF owned \/ ec \in mgr.owned_ecs THEN mgr.owned_ecs \union {ec, new}
                                   ELSE mgr.owned_ecs

OwnedAfterSplit(mgr, ec, new, owned) ==
  IF owned \/ ec \in mgr.owned_ecs THEN mgr.owned_ecs \union {new}
                                   ELSE mgr.owned_ecs

\* split_intersected_ec: what is inside the range moves to a new class.
SplitIntersectedEc(mgr, ec, range, owned) ==
  LET new == mgr.all_ecs + 1
      hit == {r \in RangesOf(mgr, ec) : Overlaps(r, range)}
  IN [mgr EXCEPT
        !.all_ecs = new,
        !.allranges = (@ \ hit) \union (UNION {Outside(r, range) : r \in hit})
                        \union {[Inside(r, range) EXCEPT !.ec = new] : r \in hit},
        !.owned_ecs = OwnedAfterSplit(mgr, ec, new, owned)]

\* add_non_overlapped_ec: the gaps between the overlapped ranges form a new
\* class; lb is the address behind the last one visited.  It wraps behind the
\* highest address; the range that is then added overlaps all others, so the set
\* does not take it, but the class is created.
AddNonOverlappedEc(mgr, range, owned) ==
  LET its == OverlappedRanges(mgr, range)
      new == mgr.all_ecs + 1
      below(r) == {q \in its : q.ub < r.lb}
      lb(visited) == IF visited = {} THEN range.lb
                     ELSE (Max({q.ub : q \in visited}) + 1) % (MaxAddr + 1)
      gaps == {[lb |-> lb(below(r)), ub |-> r.lb - 1, ec |-> new] :
                 r \in {r \in its : lb(below(r)) < r.lb}}
      last == {[lb |-> b, ub |-> range.ub, ec |-> new] : b \in {lb(its)} \cap (0 .. range.ub)}
  IN IF gaps \union last = {} THEN mgr
     ELSE [mgr EXCEPT
             !.all_ecs = new,
             !.allranges = @ \union gaps
               \union {r \in last : OverlappedRanges(mgr, r) = {}},
             !.owned_ecs = IF owned THEN @ \union {new} ELSE @]

\* add_ec
AddEc(mgr, range, owned) ==
  LET overlapped == GetOverlappedEcs(mgr, range, FALSE)
      inside == {ec \in overlapped : \A r \in RangesOf(mgr, ec) : Within(r, range)}
      kept == [mgr EXCEPT !.owned_ecs = IF owned THEN @ \union inside ELSE @]
      ecs == SetToSeq(overlapped \ inside)
      split[k \in 0 .. Len(ecs)] ==
        IF k = 0 THEN kept ELSE SplitIntersectedEc(split[k - 1], ecs[k], range, owned)
  IN AddNonOverlappedEc(split[Len(ecs)], range, owned)
=============================================================================

-------------------------- MODULE ForgetfulMiddlebox --------------------------
(***************************************************************************)
(* What the emulation pool is to the search, with one packet per           *)
(* injection: one middlebox of each, which can be asked after any packet   *)
(* history what it makes of one more packet.  There is no pool, no         *)
(* container, no replay and no cache.                                      *)
(*                                                                         *)
(* The middleboxes are not ideal.  One that is asked again what it has     *)
(* been asked before gives the answer of that time and does not take the   *)
(* packet in.  What it is asked after that, it may answer without ever     *)
(* having met some of the packets of the history, until it starts afresh.  *)
(***************************************************************************)
EXTENDS Naturals, Sequences

CONSTANTS Middleboxes, PacketsAt, MaxHist, MaxDepth

VARIABLES
  stack,      \* SPIN's search stack of packet histories
  observed,   \* every answer the search uses: for a history, the packets that
              \* the middlebox had met when the last of it reached it
  forgetful   \* the middleboxes that did not take in some packet

vars == <<stack, observed, forgetful>>

PktHist == stack[Len(stack)]

Push(ph) ==
  /\ Len(stack) < MaxDepth
  /\ stack' = Append(stack, ph)

Known(m, h) == \E o \in observed : o.mb = m /\ o.nph = h

\* The sequences of some of the packets of h, in their order, but not of all.
Increasing(n, l) == {f \in [1 .. n -> 1 .. l] : \A i, j \in 1 .. n : i < j => f[i] < f[j]}
Parts(h) ==
  UNION {{[i \in 1 .. n |-> h[f[i]]] : f \in Increasing(n, Len(h))} : n \in 0 .. Len(h) - 1}

\* The others take no part, but any of them may be made to start afresh.
OthersFresher(m) == forgetful' \ {m} \subseteq forgetful

\* A middlebox that was asked the same before does not take p in.
Repeat(m, p) ==
  /\ m \in forgetful'
  /\ Known(m, Append(PktHist[m], p))
  /\ UNCHANGED observed

Observe(m, p, state) ==
  /\ ~Known(m, Append(PktHist[m], p))
  /\ observed' = observed \cup {[mb |-> m, nph |-> Append(PktHist[m], p), state |-> state]}

\* p meets m in the state its history leads to, ...
MeetFaithful(m, p) ==
  /\ m \notin forgetful'
  /\ Observe(m, p, PktHist[m])

\* ... or, of a forgetful one, in a state that lacks packets of the history.
MeetForgetful(m, p) ==
  /\ m \in forgetful /\ m \in forgetful'
  /\ \E state \in Parts(PktHist[m]) : Observe(m, p, state)

Meet(m, p) ==
  /\ Len(PktHist[m]) < MaxHist
  /\ Push([PktHist EXCEPT ![m] = Append(PktHist[m], p)])
  /\ Repeat(m, p) \/ MeetFaithful(m, p) \/ MeetForgetful(m, p)
  /\ OthersFresher(m)

Restart ==
  /\ Push([m \in Middleboxes |-> <<>>])
  /\ UNCHANGED <<observed, forgetful>>

Return ==
  /\ Len(stack) > 1
  /\ stack' = SubSeq(stack, 1, Len(stack) - 1)
  /\ UNCHANGED <<observed, forgetful>>

Init ==
  /\ stack = <<[m \in Middleboxes |-> <<>>]>>
  /\ observed = {}
  /\ forgetful = {}

Next ==
  \/ \E m \in Middleboxes : \E p \in PacketsAt[m] : Meet(m, p)
  \/ Restart
  \/ Return

Spec == Init /\ [][Next]_vars
=============================================================================

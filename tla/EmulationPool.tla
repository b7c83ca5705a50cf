---------------------------- MODULE EmulationPool ----------------------------
(***************************************************************************)
(* The pool of middlebox emulations one connection-EC process works with:  *)
(* EmulationMgr (which emulation serves which middlebox), Emulation::rewind*)
(* (bringing a container back to a packet history), the injection cache,   *)
(* and ForwardingProcess::inject_packet, which ties them together.         *)
(*                                                                         *)
(* SPIN explores the network state depth first.  A network state carries   *)
(* the packet history of every middlebox; the pool, the containers and the *)
(* cache live outside the state SPIN restores, so after a backtrack the    *)
(* history asked for may be any earlier one.  "stack" is SPIN's search     *)
(* stack, each element the PacketHistory of that network state.            *)
(*                                                                         *)
(* A NodePacketHistory is interned by UniqueStorage, so pointer equality   *)
(* is equality of the packet sequences: it is modelled by the sequence,    *)
(* nullptr by the empty one.  What a container answers is a function of    *)
(* the packets it processed since it was last launched or reset; that      *)
(* sequence stands for the container's state and for the answer.           *)
(***************************************************************************)
EXTENDS Naturals, Sequences, FiniteSets

CONSTANTS
  Middleboxes,        \* the emulated nodes of the network
  Emulations,         \* addresses an Emulation object may have
  MaxEmu,             \* EmulationMgr::_max_emu
  Packets,            \* concrete packets
  PacketsAt,          \* those that may reach each middlebox
  PktsPerInjection,   \* Middlebox::_packets_per_injection
  NoMb,               \* the null Middlebox pointer
  MaxHist,            \* bound: packets in one node's history
  MaxDepth            \* bound: depth of the search stack

ASSUME PoolAssumption ==
  /\ MaxEmu \in Nat \ {0}
  /\ PktsPerInjection \in Nat \ {0}
  /\ MaxHist \in Nat
  /\ MaxDepth \in Nat
  /\ NoMb \notin Middleboxes
  /\ PacketsAt \in [Middleboxes -> SUBSET Packets]
  /\ IsFiniteSet(Emulations)

VARIABLES
  emus,       \* EmulationMgr::_emus
  mbEmuMap,   \* EmulationMgr::_mb_emu_map, as the set of its entries
  mb,         \* Emulation::_mb of every emulation
  nph,        \* Emulation::_nph: the history the emulation claims
  processed,  \* what the container really processed since launch or reset
  skipped,    \* auxiliary: a packet was claimed but never sent since then
  cache,      \* InjectionCache::_cache
  stack       \* SPIN's search stack of PacketHistory values

vars == <<emus, mbEmuMap, mb, nph, processed, skipped, cache, stack>>

Histories == Seq(Packets)

Entry(m, h, e) == [mb |-> m, nph |-> h, emu |-> e]

\* Types: every index entry and cached result is about a middlebox, and the
\* search always has a current state.
TypeOK ==
  /\ emus \subseteq Emulations
  /\ mbEmuMap \subseteq [mb : Middleboxes, nph : Histories, emu : Emulations]
  /\ mb \in [Emulations -> Middleboxes \cup {NoMb}]
  /\ nph \in [Emulations -> Histories]
  /\ processed \in [Emulations -> Histories]
  /\ skipped \in [Emulations -> BOOLEAN]
  /\ cache \subseteq [mb : Middleboxes, nph : Histories,
                      before : Histories, skipped : BOOLEAN]
  /\ stack \in Seq([Middleboxes -> Histories])
  /\ stack # <<>>

-----------------------------------------------------------------------------
(* NodePacketHistory                                                       *)

\* Following h's past_hist pointers reaches g (contains).
Contains(h, g) == Len(g) <= Len(h) /\ SubSeq(h, 1, Len(g)) = g

\* The packets of h after g; all of h when g is not one of its prefixes.
GetPacketsSince(h, g) ==
  IF Contains(h, g) THEN SubSeq(h, Len(g) + 1, Len(h)) ELSE h

-----------------------------------------------------------------------------
(* EmulationMgr::get_emulation                                             *)

Entries(m) == {t \in mbEmuMap : t.mb = m}

\* An emulation of m is found through the ordered map: the entry with the
\* longest prefix of h, and the map's first entry when no entry is a prefix.
\* Keys are ordered by packet addresses, and decrementing begin() (no smaller
\* key) is undefined, so any entry may be that one.
FindEmulation(m, h) ==
  LET prefixes == {t \in Entries(m) : Contains(h, t.nph)}
  IN {t.emu : t \in IF prefixes = {} THEN Entries(m)
                    ELSE {t \in prefixes :
                            \A u \in prefixes : Len(u.nph) <= Len(t.nph)}}

\* Mutant: the pool may grow by one more emulation.
GetEmulationOneMore(m, h) ==
  IF Entries(m) # {} THEN FindEmulation(m, h)
  ELSE IF Cardinality(emus) <= MaxEmu THEN Emulations \ emus
  ELSE emus

\* The emulations get_emulation may return: a new one, *_emus.begin() of the
\* unordered set when the pool is full, or one that already emulates m.
GetEmulation(m, h) ==
  IF Entries(m) # {} THEN FindEmulation(m, h)
  ELSE IF Cardinality(emus) < MaxEmu THEN Emulations \ emus
  ELSE emus

\* Mutant: the entry of the middlebox that loses its emulation is kept.
MapAfterGetNoErase(m, e) ==
  IF Entries(m) # {} THEN mbEmuMap ELSE mbEmuMap \cup {Entry(m, <<>>, e)}

\* Mutant: the entry is made under the emulation's previous middlebox.
MapAfterGetOldMb(m, e) ==
  IF Entries(m) # {} THEN mbEmuMap
  ELSE (mbEmuMap \ {Entry(mb[e], nph[e], e)}) \cup {Entry(mb[e], <<>>, e)}

\* _mb_emu_map after get_emulation returned e: an emulation (re)initialised for
\* m leaves its old entry and enters m's map with a null history.
MapAfterGet(m, e) ==
  IF Entries(m) # {} THEN mbEmuMap
  ELSE (mbEmuMap \ {Entry(mb[e], nph[e], e)}) \cup {Entry(m, <<>>, e)}

\* update_node_pkt_hist: the entry moves from the old history to the new one.
MapAfterUpdate(map, m, old, new, e) ==
  (map \ {Entry(m, old, e)}) \cup {Entry(m, new, e)}

-----------------------------------------------------------------------------
(* Emulation::rewind and Middlebox::send_pkt                               *)

\* Mutant: a container on another branch of the search is not reset.
NeedsResetOnlyNull(claimed, h) == claimed # h /\ h = <<>>

\* The container must be reset before h is replayed.
NeedsReset(claimed, h) ==
  /\ claimed # h
  /\ h = <<>> \/ ~Contains(h, claimed)

\* Mutant: rewind replays without resetting the container.
RewindNoReset(claimed, done, h) ==
  IF claimed = h THEN done ELSE done \o GetPacketsSince(h, claimed)

\* The container's packets after rewind(h), from those it had before: nothing
\* when it is up to date, otherwise a reset if needed and a replay of the
\* missing packets, each sent once.
Rewind(claimed, done, h) ==
  IF claimed = h THEN done
  ELSE IF NeedsReset(claimed, h) THEN GetPacketsSince(h, claimed)
  ELSE done \o GetPacketsSince(h, claimed)

\* send_pkt sends the packet _packets_per_injection times.
Copies(p) == [i \in 1 .. PktsPerInjection |-> p]

\* The cache has the results of the last packet of h, after the others.
Cached(m, h) == \E c \in cache : c.mb = m /\ c.nph = h

\* Mutant: the result of another middlebox with that history will do.
LookupAnyMb(m, h) == \E c \in cache : c.nph = h

\* Mutant: the lookup ignores the history.
LookupAnyHist(m, h) == \E c \in cache : c.mb = m

Lookup(m, h) == Cached(m, h)

-----------------------------------------------------------------------------
(* The search                                                              *)

PktHist == stack[Len(stack)]

Push(ph) ==
  /\ Len(stack) < MaxDepth
  /\ stack' = Append(stack, ph)

\* ForwardingProcess::inject_packet for a packet p that arrived at m, e being
\* the emulation Middlebox::rewind got.  The claimed history is advanced before
\* the cache is consulted; on a hit the packet is not sent.
InjectInto(m, p, e) ==
  LET h    == PktHist[m]
      new  == Append(h, p)
      init == Entries(m) = {}
      old  == IF init THEN <<>> ELSE nph[e]
      done == IF init THEN <<>> ELSE processed[e]
      rew  == Rewind(old, done, h)
      miss == IF init \/ NeedsReset(old, h) THEN FALSE ELSE skipped[e]
      hit  == Lookup(m, new)
  IN /\ emus' = emus \cup {e}
     /\ mb' = [mb EXCEPT ![e] = m]
     /\ mbEmuMap' = MapAfterUpdate(MapAfterGet(m, e), m, old, new, e)
     /\ nph' = [nph EXCEPT ![e] = new]
     /\ processed' = [processed EXCEPT ![e] =
                        IF hit THEN rew ELSE rew \o Copies(p)]
     /\ skipped' = [skipped EXCEPT ![e] = hit \/ miss]
     /\ cache' = IF hit THEN cache
                 ELSE cache \cup {[mb |-> m, nph |-> new,
                                   before |-> rew, skipped |-> miss]}
     /\ Push([PktHist EXCEPT ![m] = new])

InjectPacket(m, p) ==
  /\ Len(PktHist[m]) < MaxHist
  /\ \E e \in GetEmulation(m, PktHist[m]) : InjectInto(m, p, e)

\* Plankton::reinit for a correlated invariant: the next sub-invariant starts
\* from empty histories while pool, containers and cache stay as they are.
Reinit ==
  /\ Push([m \in Middleboxes |-> <<>>])
  /\ UNCHANGED <<emus, mbEmuMap, mb, nph, processed, skipped, cache>>

\* SPIN returns to the previous state of the stack to try another choice.
Backtrack ==
  /\ Len(stack) > 1
  /\ stack' = SubSeq(stack, 1, Len(stack) - 1)
  /\ UNCHANGED <<emus, mbEmuMap, mb, nph, processed, skipped, cache>>

Init ==
  /\ emus = {}
  /\ mbEmuMap = {}
  /\ mb = [e \in Emulations |-> NoMb]
  /\ nph = [e \in Emulations |-> <<>>]
  /\ processed = [e \in Emulations |-> <<>>]
  /\ skipped = [e \in Emulations |-> FALSE]
  /\ cache = {}
  /\ stack = <<[m \in Middleboxes |-> <<>>]>>

Next ==
  \/ \E m \in Middleboxes : \E p \in PacketsAt[m] : InjectPacket(m, p)
  \/ Reinit
  \/ Backtrack

Spec == Init /\ [][Next]_vars

-----------------------------------------------------------------------------
(* Properties                                                              *)

\* The two-level index and the emulations agree: _mb_emu_map holds each
\* emulation of the pool exactly once, under the middlebox and the history the
\* emulation itself records.  This is what the two asserts on erase(emu) == 1
\* in get_emulation and update_node_pkt_hist rely on.
PoolIndexed == mbEmuMap = {Entry(mb[e], nph[e], e) : e \in emus}

\* "The current implementation will not use more emulations than the number of
\* middleboxes": no two emulations serve the same middlebox, and the pool stays
\* within _max_emu although emulations are taken over rather than freed.
PoolWithinLimits ==
  /\ \A e \in emus : mb[e] \in Middleboxes
  /\ \A e, f \in emus : mb[e] = mb[f] => e = f
  /\ Cardinality(emus) <= MaxEmu

\* Every history a search state or an emulation holds, and so every history a
\* later rewind can be asked to replay, has its injection result in the cache.
HistoriesCached ==
  /\ \A i \in DOMAIN stack : \A m \in Middleboxes :
        stack[i][m] # <<>> => Cached(m, stack[i][m])
  /\ \A e \in emus : Cached(mb[e], nph[e])

\* One result per middlebox and history: backtracking never makes the cache
\* replace a result that a search state on the stack was built from.
CacheFunctional ==
  \A c, d \in cache : c.mb = d.mb /\ c.nph = d.nph => c = d

\* What the container has processed after h was injected without a replay:
\* every packet of h, _packets_per_injection times.
LiveHistory(h) ==
  [i \in 1 .. Len(h) * PktsPerInjection |->
     h[((i - 1) \div PktsPerInjection) + 1]]

Front1(h) == SubSeq(h, 1, Len(h) - 1)

\* rewind "resets the emulation state and re-injects all packets that have been
\* sent since the last checkpoint": a result obtained after a replay was
\* observed in the state the original injections had produced.
ReplayReproducesState ==
  \A c \in cache : ~c.skipped => c.before = LiveHistory(Front1(c.nph))

\* The container really is in the state its emulation claims, and a cached
\* result was observed in the state it is filed under, as long as no packet
\* was claimed without being sent since the container was last reset
\* (inject_packet advances the history before it consults the cache).
FaithfulUnlessSkipped ==
  /\ \A e \in emus : ~skipped[e] => processed[e] = LiveHistory(nph[e])
  /\ ReplayReproducesState

\* Even then a container has seen only packets of the history its emulation
\* claims, in that order: never a packet of another middlebox it served
\* before, nor of an abandoned branch of the search.
ProcessedWithinClaimed ==
  \A e \in emus :
    \E f \in [DOMAIN processed[e] -> DOMAIN nph[e]] :
      /\ \A i \in DOMAIN processed[e] : processed[e][i] = nph[e][f[i]]
      /\ \A i, j \in DOMAIN processed[e] : i < j => f[i] <= f[j]

\* "NodePacketHistory contains the packet traversal history of one node, which
\* is represented as the state of that node": every result the cache holds was
\* observed in a container that had processed the history it is filed under.
CachedResultsFaithful ==
  \A c \in cache : c.before = LiveHistory(Front1(c.nph))

-----------------------------------------------------------------------------
(* The abstract specification                                              *)

\* Every cached result is an answer the search uses, and a middlebox is forgetful
\* while its emulation claims a packet that was not sent.
Forgetful == INSTANCE ForgetfulMiddlebox WITH
  observed <- {[mb |-> c.mb, nph |-> c.nph, state |-> c.before] : c \in cache},
  forgetful <- {mb[e] : e \in {f \in emus : skipped[f]}}

\* What the pool comes to for the search, with one packet per injection: launching,
\* taking over, resetting, replaying and caching look like one middlebox of each
\* that is asked every question once and can be put into the state after any
\* history, except that a cache hit makes this middlebox, and no other, answer
\* from a state that lacks packets, and only until it is reset or launched.
ImplementsForgetful == Forgetful!Spec
=============================================================================

------------------------- MODULE EmulationPoolProofs -------------------------
(***************************************************************************)
(* Proofs about EmulationPool, for every number of middleboxes, emulations,*)
(* packets and every bound.                                                *)
(***************************************************************************)
EXTENDS EmulationPool, FiniteSetTheorems, TLAPS

\* The last element of the search stack is a history per middlebox.
LEMMA PktHistType ==
  ASSUME TypeOK
  PROVE  PktHist \in [Middleboxes -> Histories]
BY DEF TypeOK, PktHist

\* Popping a stack of at least two elements leaves a stack.
LEMMA PopType ==
  ASSUME NEW S, NEW s \in Seq(S), Len(s) > 1
  PROVE  LET t == SubSeq(s, 1, Len(s) - 1)
         IN /\ t \in Seq(S)
            /\ Len(t) = Len(s) - 1
            /\ t # <<>>
            /\ \A i \in DOMAIN t : i \in DOMAIN s /\ t[i] = s[i]
<1> DEFINE t == SubSeq(s, 1, Len(s) - 1)
<1>1. t \in Seq(S) /\ Len(t) = Len(s) - 1
  OBVIOUS
<1>2. \A i \in DOMAIN t : i \in DOMAIN s /\ t[i] = s[i]
  OBVIOUS
<1>3. t # <<>>
  <2> HIDE DEF t
  <2>1. Len(t) # 0
    BY <1>1
  <2>2. QED
    BY <2>1
<1>4. QED
  BY <1>1, <1>2, <1>3

\* The packets replayed by a rewind are packets of a history.
LEMMA SinceType ==
  ASSUME NEW h \in Histories, NEW g \in Histories
  PROVE  GetPacketsSince(h, g) \in Histories
BY DEF GetPacketsSince, Contains, Histories

\* A container that has processed a history stays one that has after a rewind.
LEMMA RewindType ==
  ASSUME NEW h \in Histories, NEW g \in Histories, NEW d \in Histories
  PROVE  Rewind(g, d, h) \in Histories
BY SinceType DEF Rewind, Histories

\* The copies of one packet that send_pkt injects.
LEMMA CopiesType ==
  ASSUME NEW p \in Packets
  PROVE  Copies(p) \in Histories
<1>1. PktsPerInjection \in Nat
  BY PoolAssumption
<1>2. QED
  BY <1>1 DEF Copies, Histories

\* What get_emulation returns: an emulation that already serves m, or one to be
\* initialised for m, new if the pool has room.
LEMMA GetEmulationReturns ==
  ASSUME TypeOK, PoolIndexed, PoolWithinLimits,
         NEW m \in Middleboxes, NEW h, NEW e \in GetEmulation(m, h)
  PROVE  /\ e \in Emulations
         /\ Entries(m) # {} => e \in emus /\ mb[e] = m
         /\ Entries(m) = {} => \A f \in emus : mb[f] # m
         /\ e \notin emus => Entries(m) = {} /\ Cardinality(emus) < MaxEmu
<1>1. CASE Entries(m) # {}
  <2>1. PICK t \in Entries(m) : t.emu = e
    BY <1>1 DEF GetEmulation, FindEmulation
  <2>2. t \in mbEmuMap /\ t.mb = m
    BY <2>1 DEF Entries
  <2>3. PICK f \in emus : t = Entry(mb[f], nph[f], f)
    BY <2>2 DEF PoolIndexed
  <2>4. f = e /\ mb[f] = m
    BY <2>1, <2>2, <2>3 DEF Entry
  <2>5. QED
    BY <1>1, <2>4 DEF TypeOK
<1>2. CASE Entries(m) = {}
  <2>1. \A f \in emus : Entry(mb[f], nph[f], f) \in mbEmuMap
    BY DEF PoolIndexed
  <2>2. ASSUME NEW f \in emus, mb[f] = m
        PROVE  FALSE
    <3>1. Entry(m, nph[f], f) \in mbEmuMap
      BY <2>1, <2>2
    <3>2. Entry(m, nph[f], f).mb = m
      BY DEF Entry
    <3>3. QED
      BY <1>2, <3>1, <3>2 DEF Entries
  <2>3. e \in Emulations /\ (e \notin emus => Cardinality(emus) < MaxEmu)
    BY <1>2 DEF GetEmulation, TypeOK
  <2>4. QED
    BY <1>2, <2>2, <2>3
<1>3. QED
  BY <1>1, <1>2

-----------------------------------------------------------------------------
(* Type correctness                                                        *)

\* An injection into any emulation get_emulation may return keeps the types.
LEMMA InjectTypeOK ==
  ASSUME TypeOK, NEW m \in Middleboxes, NEW p \in Packets,
         NEW e \in Emulations, InjectInto(m, p, e)
  PROVE  TypeOK'
<1> DEFINE h == PktHist[m]
           new == Append(h, p)
           fresh == Entries(m) = {}
           old == IF fresh THEN <<>> ELSE nph[e]
           done == IF fresh THEN <<>> ELSE processed[e]
           rew == Rewind(old, done, h)
<1>1. h \in Histories /\ new \in Histories
  BY PktHistType DEF Histories
<1>2. old \in Histories /\ done \in Histories
  BY DEF TypeOK, Histories
<1>3. rew \in Histories /\ Copies(p) \in Histories
  BY <1>1, <1>2, RewindType, CopiesType
<1>4. rew \o Copies(p) \in Histories
  BY <1>3 DEF Histories
<1> HIDE DEF h, new, old, done, rew
<1>5. emus' \subseteq Emulations /\ mb' \in [Emulations -> Middleboxes \cup {NoMb}]
  BY DEF InjectInto, Lookup, TypeOK
<1>6. nph' \in [Emulations -> Histories]
  BY <1>1 DEF InjectInto, Lookup, TypeOK, new, h
<1>7. processed' \in [Emulations -> Histories]
  BY <1>3, <1>4 DEF InjectInto, Lookup, TypeOK, rew, new, old, done, h, fresh
<1>8. skipped' \in [Emulations -> BOOLEAN]
  <2>1. skipped[e] \in BOOLEAN
    BY DEF TypeOK
  <2>2. PICK b \in BOOLEAN : skipped' = [skipped EXCEPT ![e] = b]
    BY <2>1, Zenon DEF InjectInto, Lookup
  <2>3. QED
    BY <2>2 DEF TypeOK
<1>9. cache' \subseteq [mb : Middleboxes, nph : Histories,
                        before : Histories, skipped : BOOLEAN]
  <2>1. skipped[e] \in BOOLEAN
    BY DEF TypeOK
  <2>2. PICK b \in BOOLEAN :
          \/ cache' = cache
          \/ cache' = cache \cup {[mb |-> m, nph |-> new,
                                   before |-> rew, skipped |-> b]}
    BY <2>1 DEF InjectInto, Lookup, new, rew, old, done, h, fresh
  <2>3. QED
    BY <1>1, <1>3, <2>2 DEF TypeOK
<1>10. mbEmuMap' \subseteq [mb : Middleboxes, nph : Histories, emu : Emulations]
  <2>1. \A t \in mbEmuMap' :
          t \in mbEmuMap \/ t = Entry(m, <<>>, e) \/ t = Entry(m, new, e)
    BY DEF InjectInto, Lookup, MapAfterUpdate, MapAfterGet, new, h
  <2>2. <<>> \in Histories
    BY DEF Histories
  <2>3. QED
    BY <1>1, <2>1, <2>2 DEF TypeOK, Entry
<1>11. stack' \in Seq([Middleboxes -> Histories]) /\ stack' # <<>>
  <2>1. [PktHist EXCEPT ![m] = new] \in [Middleboxes -> Histories]
    BY <1>1, PktHistType
  <2>2. stack' = Append(stack, [PktHist EXCEPT ![m] = new])
    BY DEF InjectInto, Lookup, Push, new, h
  <2>3. QED
    BY <2>1, <2>2 DEF TypeOK
<1>12. QED
  BY <1>5, <1>6, <1>7, <1>8, <1>9, <1>10, <1>11 DEF TypeOK

\* Type correctness of the pool, the histories, the cache and the search stack
\* under every operation: injecting, re-initialising and backtracking.
THEOREM PoolTypeOK == Spec => []TypeOK
<1>1. Init => TypeOK
  BY DEF Init, TypeOK, Histories
<1>2. TypeOK /\ [Next]_vars => TypeOK'
  <2> SUFFICES ASSUME TypeOK, [Next]_vars
               PROVE  TypeOK'
    OBVIOUS
  <2>1. ASSUME NEW m \in Middleboxes, NEW p \in Packets, InjectPacket(m, p)
        PROVE  TypeOK'
    <3>1. PICK e \in GetEmulation(m, PktHist[m]) : InjectInto(m, p, e)
      BY <2>1 DEF InjectPacket
    <3>2. \A t \in mbEmuMap : t.emu \in Emulations
      BY DEF TypeOK
    <3>3. e \in Emulations
      BY <3>2 DEF GetEmulation, FindEmulation, Entries, TypeOK
    <3>4. QED
      BY <3>1, <3>3, InjectTypeOK
  <2>2. CASE Reinit
    <3>1. [m \in Middleboxes |-> <<>>] \in [Middleboxes -> Histories]
      BY DEF Histories
    <3>2. PICK ph \in [Middleboxes -> Histories] : stack' = Append(stack, ph)
      BY <2>2, <3>1 DEF Reinit, Push
    <3>3. stack' \in Seq([Middleboxes -> Histories]) /\ stack' # <<>>
      BY <3>2 DEF TypeOK
    <3>4. QED
      BY <2>2, <3>3 DEF Reinit, TypeOK
  <2>3. CASE Backtrack
    <3>1. stack' \in Seq([Middleboxes -> Histories]) /\ stack' # <<>>
      BY <2>3, PopType DEF Backtrack, TypeOK
    <3>2. QED
      BY <2>3, <3>1 DEF Backtrack, TypeOK
  <2>4. CASE UNCHANGED vars
    BY <2>4 DEF vars, TypeOK
  <2>5. QED
    BY <2>1, <2>2, <2>3, <2>4, PoolAssumption DEF Next
<1>3. QED
  BY <1>1, <1>2, PTL DEF Spec

-----------------------------------------------------------------------------
(* The pool and its index                                                  *)

\* An injection moves the entry of the emulation it uses and no other.
LEMMA InjectIndexed ==
  ASSUME TypeOK, PoolIndexed, PoolWithinLimits,
         NEW m \in Middleboxes, NEW p \in Packets,
         NEW e \in GetEmulation(m, PktHist[m]), InjectInto(m, p, e)
  PROVE  PoolIndexed'
<1> DEFINE new == Append(PktHist[m], p)
           old == IF Entries(m) = {} THEN <<>> ELSE nph[e]
<1>0. /\ e \in Emulations
      /\ Entries(m) # {} => e \in emus /\ mb[e] = m
  BY GetEmulationReturns
<1>1. /\ emus' = emus \cup {e}
      /\ mb' = [mb EXCEPT ![e] = m]
      /\ nph' = [nph EXCEPT ![e] = new]
      /\ mbEmuMap' = MapAfterUpdate(MapAfterGet(m, e), m, old, new, e)
  BY DEF InjectInto, Lookup
<1>2. /\ mb'[e] = m /\ nph'[e] = new
      /\ \A f \in emus \ {e} : mb'[f] = mb[f] /\ nph'[f] = nph[f]
  BY <1>0, <1>1 DEF TypeOK
<1> DEFINE others == {Entry(mb[f], nph[f], f) : f \in emus \ {e}}
<1>3. \A f, g, x, y, u, v : f # g => Entry(x, y, f) # Entry(u, v, g)
  BY DEF Entry
<1>4. mbEmuMap' = others \cup {Entry(m, new, e)}
  <2> HIDE DEF new, old
  <2>1. CASE Entries(m) # {}
    <3>1. mbEmuMap' = (mbEmuMap \ {Entry(mb[e], nph[e], e)}) \cup {Entry(m, new, e)}
      BY <1>0, <1>1, <2>1 DEF MapAfterUpdate, MapAfterGet, old
    <3>2. mbEmuMap \ {Entry(mb[e], nph[e], e)} = others
      BY <1>3 DEF PoolIndexed
    <3>3. QED
      BY <3>1, <3>2
  <2>2. CASE Entries(m) = {}
    <3>1. mbEmuMap' = (((mbEmuMap \ {Entry(mb[e], nph[e], e)})
                         \cup {Entry(m, <<>>, e)}) \ {Entry(m, <<>>, e)})
                       \cup {Entry(m, new, e)}
      BY <1>1, <2>2 DEF MapAfterUpdate, MapAfterGet, old
    <3>2. mbEmuMap \ {Entry(mb[e], nph[e], e)} = others
      BY <1>3 DEF PoolIndexed
    <3>3. Entry(m, <<>>, e) \notin others
      BY <1>3
    <3>4. QED
      BY <3>1, <3>2, <3>3
  <2>3. QED
    BY <2>1, <2>2
<1>5. {Entry(mb'[f], nph'[f], f) : f \in emus'} = others \cup {Entry(m, new, e)}
  <2> HIDE DEF new, Entry
  <2>1. QED
    BY <1>1, <1>2
<1>6. QED
  BY <1>4, <1>5 DEF PoolIndexed

\* An injection keeps one emulation per middlebox and the pool within bounds.
LEMMA InjectWithinLimits ==
  ASSUME TypeOK, PoolIndexed, PoolWithinLimits,
         NEW m \in Middleboxes, NEW p \in Packets,
         NEW e \in GetEmulation(m, PktHist[m]), InjectInto(m, p, e)
  PROVE  PoolWithinLimits'
<1>1. /\ e \in Emulations
      /\ Entries(m) # {} => e \in emus /\ mb[e] = m
      /\ Entries(m) = {} => \A f \in emus : mb[f] # m
      /\ e \notin emus => Entries(m) = {} /\ Cardinality(emus) < MaxEmu
  BY GetEmulationReturns
<1>2. emus' = emus \cup {e} /\ mb' = [mb EXCEPT ![e] = m]
  BY DEF InjectInto, Lookup
<1>3. mb'[e] = m /\ \A f \in emus \ {e} : mb'[f] = mb[f] /\ mb[f] # m
  BY <1>1, <1>2 DEF TypeOK, PoolWithinLimits
<1>4. \A f \in emus' : mb'[f] \in Middleboxes
  BY <1>2, <1>3 DEF PoolWithinLimits
<1>5. \A f, g \in emus' : mb'[f] = mb'[g] => f = g
  BY <1>2, <1>3 DEF PoolWithinLimits
<1>6. Cardinality(emus') <= MaxEmu
  <2>1. IsFiniteSet(emus)
    BY PoolAssumption, FS_Subset DEF TypeOK
  <2>2. Cardinality(emus) \in Nat /\ MaxEmu \in Nat
    BY <2>1, FS_CardinalityType, PoolAssumption
  <2>3. CASE e \in emus
    <3>1. emus' = emus
      BY <1>2, <2>3
    <3>2. QED
      BY <3>1 DEF PoolWithinLimits
  <2>4. CASE e \notin emus
    <3>1. Cardinality(emus') = Cardinality(emus) + 1
      BY <1>2, <2>1, <2>4, FS_AddElement
    <3>2. QED
      BY <1>1, <2>2, <2>4, <3>1
  <2>5. QED
    BY <2>3, <2>4
<1>7. QED
  BY <1>4, <1>5, <1>6 DEF PoolWithinLimits

\* The inductive invariant of the pool: the limits and the index are only
\* preserved together, because get_emulation decides from the index whether a
\* middlebox has an emulation.
PoolInv == TypeOK /\ PoolIndexed /\ PoolWithinLimits

\* The types, the index and the limits of the pool are one inductive invariant.
LEMMA PoolInvariant == Spec => []PoolInv
<1>1. Init => PoolInv
  <2> SUFFICES ASSUME Init PROVE PoolIndexed /\ PoolWithinLimits
    BY DEF Init, PoolInv, TypeOK, Histories
  <2>1. Cardinality({}) = 0
    BY FS_EmptySet
  <2>2. QED
    BY <2>1, PoolAssumption DEF Init, PoolIndexed, PoolWithinLimits
<1>2. PoolInv /\ TypeOK' /\ [Next]_vars => PoolInv'
  <2> SUFFICES ASSUME PoolInv, TypeOK', [Next]_vars
               PROVE  PoolIndexed' /\ PoolWithinLimits'
    BY DEF PoolInv
  <2>1. ASSUME NEW m \in Middleboxes, NEW p \in Packets, InjectPacket(m, p)
        PROVE  PoolIndexed' /\ PoolWithinLimits'
    <3>1. PICK e \in GetEmulation(m, PktHist[m]) : InjectInto(m, p, e)
      BY <2>1 DEF InjectPacket
    <3>2. QED
      BY <3>1, InjectIndexed, InjectWithinLimits DEF PoolInv
  <2>2. CASE Reinit \/ Backtrack \/ UNCHANGED vars
    BY <2>2 DEF Reinit, Backtrack, vars, PoolInv, PoolIndexed, PoolWithinLimits
  <2>3. QED
    BY <2>1, <2>2, PoolAssumption DEF Next
<1>3. QED
  BY <1>1, <1>2, PoolTypeOK, PTL DEF Spec

\* The index of EmulationMgr holds each emulation once, under the middlebox and
\* the history the emulation records: the asserts on erase(emu) == 1 in
\* get_emulation and update_node_pkt_hist never fail.
THEOREM PoolIndexedHolds == Spec => []PoolIndexed
BY PoolInvariant, PTL DEF PoolInv

\* EmulationMgr never keeps two emulations of one middlebox, and never more
\* than _max_emu of them.
THEOREM PoolWithinLimitsHolds == Spec => []PoolWithinLimits
BY PoolInvariant, PTL DEF PoolInv

-----------------------------------------------------------------------------
(* The cache                                                               *)

\* InjectionCache::insert is only reached for a middlebox and a history that
\* InjectionCache::get did not find, so results are never replaced.
THEOREM CacheFunctionalHolds == Spec => []CacheFunctional
<1>1. Init => CacheFunctional
  BY DEF Init, CacheFunctional
<1>2. TypeOK /\ CacheFunctional /\ [Next]_vars => CacheFunctional'
  <2> SUFFICES ASSUME TypeOK, CacheFunctional, [Next]_vars
               PROVE  CacheFunctional'
    OBVIOUS
  <2>1. ASSUME NEW m \in Middleboxes, NEW p \in Packets, InjectPacket(m, p)
        PROVE  CacheFunctional'
    <3>1. PICK new, b, k : \/ cache' = cache
                           \/ /\ ~Cached(m, new)
                              /\ cache' = cache \cup {[mb |-> m, nph |-> new,
                                             before |-> b, skipped |-> k]}
      BY <2>1 DEF InjectPacket, InjectInto, Lookup
    <3>2. QED
      BY <3>1 DEF CacheFunctional, Cached
  <2>2. CASE Reinit \/ Backtrack \/ UNCHANGED vars
    BY <2>2 DEF Reinit, Backtrack, vars, CacheFunctional
  <2>3. QED
    BY <2>1, <2>2, PoolAssumption DEF Next
<1>3. QED
  BY <1>1, <1>2, PoolTypeOK, PTL DEF Spec

\* Every history on the search stack or claimed by an emulation has a cached
\* injection result, whatever the order in which SPIN backtracks.
THEOREM HistoriesCachedHolds == Spec => []HistoriesCached
<1>1. Init => HistoriesCached
  BY DEF Init, HistoriesCached
<1>2. TypeOK /\ PoolInv /\ HistoriesCached /\ [Next]_vars => HistoriesCached'
  <2> SUFFICES ASSUME TypeOK, PoolInv, HistoriesCached, [Next]_vars
               PROVE  HistoriesCached'
    OBVIOUS
  <2>1. ASSUME NEW m \in Middleboxes, NEW p \in Packets, InjectPacket(m, p)
        PROVE  HistoriesCached'
    <3> DEFINE new == Append(PktHist[m], p)
    <3>1. PICK e \in GetEmulation(m, PktHist[m]) : InjectInto(m, p, e)
      BY <2>1 DEF InjectPacket
    <3>2. e \in Emulations
      BY <3>1, GetEmulationReturns DEF PoolInv
    <3> DEFINE CachedNext(k, h) == \E c \in cache' : c.mb = k /\ c.nph = h
    <3>3. \A k \in Middleboxes : \A h : Cached(k, h) => CachedNext(k, h)
      BY <3>1 DEF InjectInto, Lookup, Cached
    <3>4. CachedNext(m, new)
      <4> HIDE DEF new
      <4>1. PICK b, k : \/ Cached(m, new) /\ cache' = cache
                        \/ cache' = cache \cup {[mb |-> m, nph |-> new,
                                         before |-> b, skipped |-> k]}
        BY <3>1 DEF InjectInto, Lookup, new
      <4> DEFINE r == [mb |-> m, nph |-> new, before |-> b, skipped |-> k]
      <4>2. r.mb = m /\ r.nph = new
        OBVIOUS
      <4> HIDE DEF r
      <4>3. (Cached(m, new) /\ cache' = cache) \/ r \in cache'
        BY <4>1 DEF r
      <4>4. QED
        BY <4>2, <4>3 DEF Cached
    <3>5. /\ stack' = Append(stack, [PktHist EXCEPT ![m] = new])
          /\ PktHist \in [Middleboxes -> Histories]
          /\ PktHist = stack[Len(stack)]
      BY <3>1, PktHistType DEF InjectInto, Lookup, Push, PktHist
    <3>6. ASSUME NEW i \in DOMAIN stack', NEW k \in Middleboxes,
                 stack'[i][k] # <<>>
          PROVE  CachedNext(k, stack'[i][k])
      <4> HIDE DEF new, CachedNext
      <4>1. CASE i \in DOMAIN stack
        <5>1. stack'[i] = stack[i]
          BY <3>5, <4>1 DEF TypeOK
        <5>2. QED
          BY <3>3, <3>6, <4>1, <5>1 DEF HistoriesCached
      <4>2. CASE i \notin DOMAIN stack
        <5>1. /\ stack'[i] = [PktHist EXCEPT ![m] = new]
              /\ Len(stack) \in DOMAIN stack
          BY <3>5, <4>2 DEF TypeOK
        <5>2. CASE k = m
          BY <3>4, <3>5, <5>1, <5>2
        <5>3. CASE k # m
          <6>1. stack'[i][k] = stack[Len(stack)][k]
            BY <3>5, <5>1, <5>3
          <6>2. Cached(k, stack[Len(stack)][k])
            BY <3>6, <5>1, <6>1 DEF HistoriesCached
          <6>3. QED
            BY <3>3, <6>1, <6>2
        <5>4. QED
          BY <5>2, <5>3
      <4>3. QED
        BY <4>1, <4>2
    <3>7. ASSUME NEW f \in emus' PROVE CachedNext(mb'[f], nph'[f])
      <4>1. /\ emus' = emus \cup {e}
            /\ mb' = [mb EXCEPT ![e] = m]
            /\ nph' = [nph EXCEPT ![e] = new]
        BY <3>1 DEF InjectInto, Lookup
      <4> HIDE DEF new, CachedNext
      <4>2. CASE f = e
        <5>1. mb'[f] = m /\ nph'[f] = new
          BY <3>2, <4>1, <4>2 DEF TypeOK
        <5>2. QED
          BY <3>4, <5>1
      <4>3. CASE f # e
        <5>1. f \in emus /\ mb'[f] = mb[f] /\ nph'[f] = nph[f]
          BY <4>1, <4>3 DEF TypeOK
        <5>2. mb[f] \in Middleboxes /\ Cached(mb[f], nph[f])
          BY <5>1 DEF HistoriesCached, PoolInv, PoolWithinLimits
        <5>3. QED
          BY <3>3, <5>1, <5>2
      <4>4. QED
        BY <4>2, <4>3
    <3>8. QED
      BY <3>6, <3>7 DEF HistoriesCached, Cached
  <2>2. CASE Reinit
    <3>1. stack' = Append(stack, [k \in Middleboxes |-> <<>>])
      BY <2>2 DEF Reinit, Push
    <3>2. \A i \in DOMAIN stack' :
             \/ i \in DOMAIN stack /\ stack'[i] = stack[i]
             \/ stack'[i] = [k \in Middleboxes |-> <<>>]
      BY <3>1 DEF TypeOK
    <3>3. QED
      BY <2>2, <3>2 DEF Reinit, HistoriesCached, Cached
  <2>3. CASE Backtrack
    <3>1. \A i \in DOMAIN stack' : i \in DOMAIN stack /\ stack'[i] = stack[i]
      BY <2>3, PopType DEF Backtrack, TypeOK
    <3>2. QED
      BY <2>3, <3>1 DEF Backtrack, HistoriesCached, Cached
  <2>4. CASE UNCHANGED vars
    BY <2>4 DEF vars, HistoriesCached, Cached
  <2>5. QED
    BY <2>1, <2>2, <2>3, <2>4, PoolAssumption DEF Next
<1>3. QED
  BY <1>1, <1>2, PoolTypeOK, PoolInvariant, PTL DEF Spec

-----------------------------------------------------------------------------
(* Fidelity of the containers                                              *)

\* g followed by what h adds to it is h.
LEMMA SinceCompletes ==
  ASSUME NEW h \in Histories, NEW g \in Histories, Contains(h, g)
  PROVE  g \o GetPacketsSince(h, g) = h
<1> DEFINE s == SubSeq(h, Len(g) + 1, Len(h))
           t == g \o s
<1>1. Len(g) \in Nat /\ Len(h) \in Nat /\ Len(g) <= Len(h)
  BY DEF Contains, Histories
<1>2. s \in Seq(Packets) /\ Len(s) = Len(h) - Len(g)
  BY <1>1 DEF Histories
<1>3. \A i \in 1 .. Len(s) : s[i] = h[Len(g) + i]
  BY <1>1, <1>2 DEF Histories
<1>4. \A i \in 1 .. Len(g) : g[i] = h[i]
  <2>1. SubSeq(h, 1, Len(g)) = g
    BY DEF Contains
  <2>2. \A i \in 1 .. Len(g) : SubSeq(h, 1, Len(g))[i] = h[i]
    BY <1>1 DEF Histories
  <2>3. QED
    BY <2>1, <2>2
<1> HIDE DEF s
<1>5. t \in Seq(Packets) /\ Len(t) = Len(h)
  BY <1>1, <1>2 DEF Histories
<1>6. \A i \in 1 .. Len(h) : t[i] = h[i]
  <2> SUFFICES ASSUME NEW i \in 1 .. Len(h) PROVE t[i] = h[i]
    OBVIOUS
  <2>1. CASE i <= Len(g)
    <3>1. i \in 1 .. Len(g)
      BY <1>1, <2>1
    <3>2. t[i] = g[i]
      BY <1>1, <1>2, <3>1 DEF Histories
    <3>3. QED
      BY <1>4, <3>1, <3>2
  <2>2. CASE i > Len(g)
    <3>1. i - Len(g) \in 1 .. Len(s)
      BY <1>1, <1>2, <2>2
    <3>2. t[i] = s[i - Len(g)]
      BY <1>1, <1>2, <2>2, <3>1 DEF Histories
    <3>3. s[i - Len(g)] = h[Len(g) + (i - Len(g))]
      BY <1>3, <3>1
    <3>4. Len(g) + (i - Len(g)) = i
      BY <1>1
    <3>5. QED
      BY <3>2, <3>3, <3>4
  <2>3. i <= Len(g) \/ i > Len(g)
    BY <1>1
  <2>4. QED
    BY <2>1, <2>2, <2>3
<1> HIDE DEF t
<1>7. t = h
  BY <1>5, <1>6 DEF Histories
<1>8. QED
  BY <1>7 DEF GetPacketsSince, t, s

\* Emulation::rewind leaves the container in the history it was asked for, if
\* the container was in the history it claimed or had to be reset.
LEMMA RewindFaithful ==
  ASSUME NEW h \in Histories, NEW g \in Histories, NEW d \in Histories,
         d = g \/ NeedsReset(g, h)
  PROVE  Rewind(g, d, h) = h
<1>1. CASE g = h
  BY <1>1 DEF Rewind, NeedsReset
<1>2. CASE g # h /\ NeedsReset(g, h)
  <2>1. ~Contains(h, g)
    <3>1. CASE h = <<>>
      <4>1. Len(g) > 0
        BY <1>2, <3>1 DEF Histories
      <4>2. QED
        BY <3>1, <4>1 DEF Contains
    <3>2. CASE h # <<>>
      BY <1>2, <3>2 DEF NeedsReset
    <3>3. QED
      BY <3>1, <3>2
  <2>2. QED
    BY <1>2, <2>1 DEF Rewind, GetPacketsSince
<1>3. CASE g # h /\ ~NeedsReset(g, h)
  <2>1. Contains(h, g) /\ d = g
    BY <1>3 DEF NeedsReset
  <2>2. QED
    BY <1>3, <2>1, SinceCompletes DEF Rewind
<1>4. QED
  BY <1>1, <1>2, <1>3

\* With one packet per injection the live history is the history.
LEMMA LiveIsHistory ==
  ASSUME PktsPerInjection = 1, NEW h \in Histories
  PROVE  LiveHistory(h) = h
<1>1. Len(h) \in Nat /\ Len(h) * 1 = Len(h)
  BY DEF Histories
<1>2. LiveHistory(h) = [i \in 1 .. Len(h) |-> h[i]]
  <2>1. \A i \in 1 .. Len(h) : ((i - 1) \div 1) + 1 = i
    BY <1>1
  <2>2. LiveHistory(h) = [i \in 1 .. Len(h) |-> h[((i - 1) \div 1) + 1]]
    BY <1>1 DEF LiveHistory
  <2>3. QED
    BY <2>1, <2>2
<1>3. QED
  BY <1>2 DEF Histories

\* Appending a packet and injecting it once are the same.
LEMMA InjectOnce ==
  ASSUME PktsPerInjection = 1, NEW h \in Histories, NEW p \in Packets
  PROVE  /\ h \o Copies(p) = Append(h, p)
         /\ Front1(Append(h, p)) = h
<1>1. Copies(p) = <<p>>
  BY DEF Copies
<1>2. h \o <<p>> = Append(h, p)
  BY DEF Histories
<1>3. Front1(Append(h, p)) = h
  BY DEF Front1, Histories
<1>4. QED
  BY <1>1, <1>2, <1>3

\* With one packet per injection, a container whose emulation never claimed an
\* unsent packet since the last reset has processed exactly the claimed
\* history, and every result obtained from such a container is filed under the
\* history it was observed in; this holds through backtracking, takeovers of
\* emulations by other middleboxes, resets and partial replays.
THEOREM FaithfulUnlessSkippedHolds ==
  ASSUME PktsPerInjection = 1
  PROVE  Spec => []FaithfulUnlessSkipped
<1>1. Init => FaithfulUnlessSkipped
  BY DEF Init, FaithfulUnlessSkipped, ReplayReproducesState
<1>2. TypeOK /\ TypeOK' /\ PoolInv /\ FaithfulUnlessSkipped /\ [Next]_vars
        => FaithfulUnlessSkipped'
  <2> SUFFICES ASSUME TypeOK, TypeOK', PoolInv, FaithfulUnlessSkipped, [Next]_vars
               PROVE  FaithfulUnlessSkipped'
    OBVIOUS
  <2>1. ASSUME NEW m \in Middleboxes, NEW p \in Packets, InjectPacket(m, p)
        PROVE  FaithfulUnlessSkipped'
    <3>1. PICK e \in GetEmulation(m, PktHist[m]) : InjectInto(m, p, e)
      BY <2>1 DEF InjectPacket
    <3> DEFINE h == PktHist[m]
               new == Append(h, p)
               fresh == Entries(m) = {}
               old == IF fresh THEN <<>> ELSE nph[e]
               done == IF fresh THEN <<>> ELSE processed[e]
               rew == Rewind(old, done, h)
               miss == IF fresh \/ NeedsReset(old, h) THEN FALSE ELSE skipped[e]
    <3>2. e \in Emulations /\ (~fresh => e \in emus)
      BY <3>1, GetEmulationReturns DEF PoolInv
    <3>3. h \in Histories /\ new \in Histories /\ old \in Histories /\ done \in Histories
      <4>1. h \in Histories
        BY PktHistType
      <4>2. new \in Histories
        BY <4>1 DEF Histories
      <4>3. old \in Histories /\ done \in Histories
        <5>1. CASE fresh
          BY <5>1 DEF Histories
        <5>2. CASE ~fresh
          BY <3>2, <5>2 DEF TypeOK
        <5> QED
          BY <5>1, <5>2
      <4> QED
        BY <4>1, <4>2, <4>3
    <3>4. ~miss => rew = h
      <4>1. ASSUME ~miss PROVE done = old \/ NeedsReset(old, h)
        <5>1. CASE fresh
          BY <5>1
        <5>2. CASE ~fresh /\ ~NeedsReset(old, h)
          <6>1. ~skipped[e] /\ old = nph[e] /\ done = processed[e]
            BY <4>1, <5>2
          <6>2. processed[e] = LiveHistory(nph[e]) /\ nph[e] \in Histories
            BY <3>2, <5>2, <6>1 DEF FaithfulUnlessSkipped, TypeOK
          <6>3. QED
            BY <6>1, <6>2, LiveIsHistory
        <5>3. QED
          BY <5>1, <5>2
      <4> HIDE DEF h, old, done, miss
      <4>2. QED
        BY <3>3, <4>1, RewindFaithful
    <3>5. /\ emus' = emus \cup {e}
          /\ nph' = [nph EXCEPT ![e] = new]
          /\ \/ Cached(m, new) /\ skipped' = [skipped EXCEPT ![e] = TRUE]
                /\ cache' = cache
                /\ \E x : processed' = [processed EXCEPT ![e] = x]
             \/ /\ skipped' = [skipped EXCEPT ![e] = miss]
                /\ cache' = cache \cup {[mb |-> m, nph |-> new,
                                         before |-> rew, skipped |-> miss]}
                /\ processed' = [processed EXCEPT ![e] = rew \o Copies(p)]
      <4>1. miss \in BOOLEAN
        BY <3>2 DEF TypeOK
      <4>2. CASE Cached(m, new)
        BY <3>1, <4>1, <4>2 DEF InjectInto, Lookup
      <4>3. CASE ~Cached(m, new)
        BY <3>1, <4>1, <4>3 DEF InjectInto, Lookup
      <4>4. QED
        BY <4>2, <4>3
    <3>6. h \o Copies(p) = new /\ Front1(new) = h
      BY <3>3, InjectOnce
    <3>7. LiveHistory(new) = new /\ LiveHistory(h) = h
      BY <3>3, LiveIsHistory
    <3> HIDE DEF h, new, rew, miss
    <3>8. ASSUME NEW f \in emus', ~skipped'[f]
          PROVE  processed'[f] = LiveHistory(nph'[f])
      <4>1. CASE f = e
        <5>1. ~miss /\ processed'[e] = rew \o Copies(p) /\ nph'[e] = new
          BY <3>2, <3>5, <3>8, <4>1 DEF TypeOK
        <5>2. QED
          BY <3>4, <3>6, <3>7, <4>1, <5>1
      <4>2. CASE f # e
        <5>1. /\ f \in emus
              /\ processed'[f] = processed[f] /\ nph'[f] = nph[f]
              /\ skipped'[f] = skipped[f]
          BY <3>5, <4>2 DEF TypeOK
        <5>2. QED
          BY <3>8, <5>1 DEF FaithfulUnlessSkipped
      <4>3. QED
        BY <4>1, <4>2
    <3>9. ASSUME NEW c \in cache', ~c.skipped
          PROVE  c.before = LiveHistory(Front1(c.nph))
      <4>1. CASE c \in cache
        BY <3>9, <4>1 DEF FaithfulUnlessSkipped, ReplayReproducesState
      <4>2. CASE c \notin cache
        <5>1. c = [mb |-> m, nph |-> new, before |-> rew, skipped |-> miss]
          BY <3>5, <4>2
        <5>2. c.nph = new /\ c.before = rew /\ ~miss
          BY <3>9, <5>1
        <5>3. QED
          BY <3>4, <3>6, <3>7, <5>2
      <4>3. QED
        BY <4>1, <4>2
    <3>10. QED
      BY <3>8, <3>9 DEF FaithfulUnlessSkipped, ReplayReproducesState, LiveHistory, Front1
  <2>2. CASE Reinit \/ Backtrack \/ UNCHANGED vars
    BY <2>2 DEF Reinit, Backtrack, vars, FaithfulUnlessSkipped,
                ReplayReproducesState, LiveHistory, Front1
  <2>3. QED
    BY <2>1, <2>2, PoolAssumption DEF Next
<1>3. QED
  BY <1>1, <1>2, PoolTypeOK, PoolInvariant, PTL DEF Spec

-----------------------------------------------------------------------------
(* What a container has seen                                               *)

\* One element of a history comes before another, or is the same and injected again.
Ordered(k, l) == k < l \/ (PktsPerInjection # 1 /\ k = l)

\* Every element of s is one of h, and they come in that order.
Embeds(s, h) ==
  \E f \in [DOMAIN s -> DOMAIN h] :
    /\ \A i \in DOMAIN s : s[i] = h[f[i]]
    /\ \A i, j \in DOMAIN s : i < j => Ordered(f[i], f[j])

LEMMA EmbedsSelf ==
  ASSUME NEW h \in Histories
  PROVE  Embeds(h, h)
<1> DEFINE f == [i \in DOMAIN h |-> i]
<1>1. f \in [DOMAIN h -> DOMAIN h]
  OBVIOUS
<1>2. \A i \in DOMAIN h : h[i] = h[f[i]]
  OBVIOUS
<1>3. \A i, j \in DOMAIN h : i < j => Ordered(f[i], f[j])
  BY DEF Histories, Ordered
<1> HIDE DEF f
<1> QED
  BY <1>1, <1>2, <1>3 DEF Embeds

LEMMA EmbedsEmpty ==
  ASSUME NEW h \in Histories
  PROVE  Embeds(<<>>, h)
<1> DEFINE f == [i \in {} |-> i]
<1>1. f \in [DOMAIN <<>> -> DOMAIN h] /\ DOMAIN <<>> = {}
  OBVIOUS
<1> HIDE DEF f
<1> QED
  BY <1>1 DEF Embeds

LEMMA EmbedsCopies ==
  ASSUME NEW p \in Packets
  PROVE  Embeds(Copies(p), <<p>>)
<1> DEFINE f == [i \in 1 .. PktsPerInjection |-> 1]
<1>1. DOMAIN Copies(p) = 1 .. PktsPerInjection
  BY DEF Copies
<1>2. f \in [1 .. PktsPerInjection -> DOMAIN <<p>>]
  OBVIOUS
<1>3. \A i \in 1 .. PktsPerInjection : Copies(p)[i] = <<p>>[f[i]]
  BY DEF Copies
<1>4. \A i, j \in 1 .. PktsPerInjection : i < j => Ordered(f[i], f[j])
  BY PoolAssumption DEF Ordered
<1> HIDE DEF f
<1> QED
  BY <1>1, <1>2, <1>3, <1>4 DEF Embeds

\* Two sequences that embed, one behind the other.
LEMMA EmbedsConcat ==
  ASSUME NEW s \in Histories, NEW t \in Histories,
         NEW g \in Histories, NEW h \in Histories,
         Embeds(s, g), Embeds(t, h)
  PROVE  Embeds(s \o t, g \o h)
<1>1. PICK a \in [DOMAIN s -> DOMAIN g] :
        /\ \A i \in DOMAIN s : s[i] = g[a[i]]
        /\ \A i, j \in DOMAIN s : i < j => Ordered(a[i], a[j])
  BY DEF Embeds
<1>2. PICK b \in [DOMAIN t -> DOMAIN h] :
        /\ \A i \in DOMAIN t : t[i] = h[b[i]]
        /\ \A i, j \in DOMAIN t : i < j => Ordered(b[i], b[j])
  BY DEF Embeds
<1>3. /\ Len(s) \in Nat /\ Len(t) \in Nat /\ Len(g) \in Nat /\ Len(h) \in Nat
      /\ DOMAIN s = 1 .. Len(s) /\ DOMAIN t = 1 .. Len(t)
      /\ DOMAIN g = 1 .. Len(g) /\ DOMAIN h = 1 .. Len(h)
  BY DEF Histories
<1>4. /\ DOMAIN (s \o t) = 1 .. Len(s) + Len(t)
      /\ DOMAIN (g \o h) = 1 .. Len(g) + Len(h)
      /\ \A i \in 1 .. Len(s) : (s \o t)[i] = s[i]
      /\ \A i \in 1 .. Len(t) : (s \o t)[Len(s) + i] = t[i]
      /\ \A i \in 1 .. Len(g) : (g \o h)[i] = g[i]
      /\ \A i \in 1 .. Len(h) : (g \o h)[Len(g) + i] = h[i]
  BY DEF Histories
<1> DEFINE D == 1 .. Len(s) + Len(t)
           f == [i \in D |-> IF i <= Len(s) THEN a[i] ELSE Len(g) + b[i - Len(s)]]
<1>5. \A i \in 1 .. Len(s) : i \in D /\ f[i] = a[i] /\ a[i] \in 1 .. Len(g)
  <2> SUFFICES ASSUME NEW i \in 1 .. Len(s)
               PROVE  i \in D /\ f[i] = a[i] /\ a[i] \in 1 .. Len(g)
    OBVIOUS
  <2>1. i \in D /\ i <= Len(s)
    BY <1>3
  <2> QED
    BY <1>1, <1>3, <2>1
<1>6. \A i \in 1 .. Len(t) : /\ Len(s) + i \in D
                             /\ f[Len(s) + i] = Len(g) + b[i]
                             /\ b[i] \in 1 .. Len(h)
  <2> SUFFICES ASSUME NEW i \in 1 .. Len(t)
               PROVE  /\ Len(s) + i \in D
                      /\ f[Len(s) + i] = Len(g) + b[i]
                      /\ b[i] \in 1 .. Len(h)
    OBVIOUS
  <2>1. Len(s) + i \in D /\ ~(Len(s) + i <= Len(s)) /\ (Len(s) + i) - Len(s) = i
    BY <1>3
  <2> QED
    BY <1>2, <1>3, <2>1
<1>7. DOMAIN f = D /\ f = [i \in D |-> f[i]]
  OBVIOUS
<1> HIDE DEF f
<1>8. \A i \in D : i \in 1 .. Len(s) \/ \E k \in 1 .. Len(t) : i = Len(s) + k
  <2> SUFFICES ASSUME NEW i \in D, i \notin 1 .. Len(s)
               PROVE  \E k \in 1 .. Len(t) : i = Len(s) + k
    OBVIOUS
  <2>1. i - Len(s) \in 1 .. Len(t) /\ i = Len(s) + (i - Len(s))
    BY <1>3
  <2> QED
    BY <2>1
<1>9. ASSUME NEW i \in D
      PROVE  f[i] \in 1 .. Len(g) + Len(h) /\ (s \o t)[i] = (g \o h)[f[i]]
  <2>1. CASE i \in 1 .. Len(s)
    <3>1. f[i] = a[i] /\ a[i] \in 1 .. Len(g)
      BY <1>5, <2>1
    <3>2. (s \o t)[i] = s[i] /\ s[i] = g[a[i]] /\ (g \o h)[a[i]] = g[a[i]]
      BY <1>1, <1>3, <1>4, <2>1, <3>1
    <3>3. a[i] \in 1 .. Len(g) + Len(h)
      BY <1>3, <3>1
    <3> QED
      BY <3>1, <3>2, <3>3
  <2>2. CASE \E k \in 1 .. Len(t) : i = Len(s) + k
    <3>1. PICK k \in 1 .. Len(t) : i = Len(s) + k
      BY <2>2
    <3>2. f[i] = Len(g) + b[k] /\ b[k] \in 1 .. Len(h)
      BY <1>6, <3>1
    <3>3. (s \o t)[i] = t[k] /\ t[k] = h[b[k]] /\ (g \o h)[Len(g) + b[k]] = h[b[k]]
      BY <1>2, <1>3, <1>4, <3>1, <3>2
    <3>4. Len(g) + b[k] \in 1 .. Len(g) + Len(h)
      BY <1>3, <3>2
    <3> QED
      BY <3>2, <3>3, <3>4
  <2> QED
    BY <1>8, <2>1, <2>2
<1>10. ASSUME NEW i \in D, NEW j \in D, i < j
       PROVE  Ordered(f[i], f[j])
  <2>1. CASE i \in 1 .. Len(s) /\ j \in 1 .. Len(s)
    <3>1. f[i] = a[i] /\ f[j] = a[j] /\ Ordered(a[i], a[j])
      BY <1>1, <1>3, <1>5, <1>10, <2>1
    <3> QED
      BY <3>1
  <2>2. CASE i \in 1 .. Len(s) /\ \E k \in 1 .. Len(t) : j = Len(s) + k
    <3>1. PICK k \in 1 .. Len(t) : j = Len(s) + k
      BY <2>2
    <3>2. f[i] \in 1 .. Len(g) /\ f[j] = Len(g) + b[k] /\ b[k] \in 1 .. Len(h)
      BY <1>5, <1>6, <2>2, <3>1
    <3> QED
      BY <1>3, <3>2 DEF Ordered
  <2>3. CASE /\ \E k \in 1 .. Len(t) : i = Len(s) + k
             /\ \E k \in 1 .. Len(t) : j = Len(s) + k
    <3>1. PICK k \in 1 .. Len(t) : i = Len(s) + k
      BY <2>3
    <3>2. PICK l \in 1 .. Len(t) : j = Len(s) + l
      BY <2>3
    <3>3. k < l
      BY <1>3, <1>10, <3>1, <3>2
    <3>4. Ordered(b[k], b[l])
      BY <1>2, <1>3, <3>1, <3>2, <3>3
    <3>5. f[i] = Len(g) + b[k] /\ b[k] \in 1 .. Len(h)
      BY <1>6, <3>1
    <3>6. f[j] = Len(g) + b[l] /\ b[l] \in 1 .. Len(h)
      BY <1>6, <3>2
    <3> QED
      BY <1>3, <3>4, <3>5, <3>6 DEF Ordered
  <2>4. ~(j \in 1 .. Len(s) /\ \E k \in 1 .. Len(t) : i = Len(s) + k)
    BY <1>3, <1>10
  <2> QED
    BY <1>8, <2>1, <2>2, <2>3, <2>4
<1>11. f \in [D -> 1 .. Len(g) + Len(h)]
  BY <1>7, <1>9
<1>12. \E q \in [DOMAIN (s \o t) -> DOMAIN (g \o h)] :
         /\ \A i \in DOMAIN (s \o t) : (s \o t)[i] = (g \o h)[q[i]]
         /\ \A i, j \in DOMAIN (s \o t) : i < j => Ordered(q[i], q[j])
  <2> HIDE DEF D
  <2>1. DOMAIN (s \o t) = D /\ DOMAIN (g \o h) = 1 .. Len(g) + Len(h)
    BY <1>4 DEF D
  <2>2. f \in [DOMAIN (s \o t) -> DOMAIN (g \o h)]
    BY <1>11, <2>1
  <2> QED
    BY <1>9, <1>10, <2>1, <2>2
<1> QED
  BY <1>12 DEF Embeds

\* What a rewind leaves in the container embeds in the history it was asked for, if
\* what the container had processed embeds in the one its emulation claimed.
LEMMA RewindEmbeds ==
  ASSUME NEW h \in Histories, NEW g \in Histories, NEW d \in Histories,
         Embeds(d, g)
  PROVE  Embeds(Rewind(g, d, h), h)
<1>1. GetPacketsSince(h, g) \in Histories /\ <<>> \in Histories
  BY SinceType DEF Histories
<1>2. Embeds(GetPacketsSince(h, g), h)
  <2>1. CASE Contains(h, g)
    <3>1. Embeds(<<>> \o GetPacketsSince(h, g), g \o GetPacketsSince(h, g))
      BY <1>1, EmbedsConcat, EmbedsEmpty, EmbedsSelf
    <3>2. <<>> \o GetPacketsSince(h, g) = GetPacketsSince(h, g)
      BY <1>1 DEF Histories
    <3> QED
      BY <2>1, <3>1, <3>2, SinceCompletes
  <2>2. CASE ~Contains(h, g)
    BY <2>2, EmbedsSelf DEF GetPacketsSince
  <2> QED
    BY <2>1, <2>2
<1>3. CASE g # h /\ ~NeedsReset(g, h)
  <2>1. Embeds(d \o GetPacketsSince(h, g), g \o GetPacketsSince(h, g))
    BY <1>1, EmbedsConcat, EmbedsSelf
  <2>2. Contains(h, g)
    BY <1>3 DEF NeedsReset
  <2> QED
    BY <1>3, <2>1, <2>2, SinceCompletes DEF Rewind
<1> QED
  BY <1>2, <1>3 DEF Rewind

Within == \A e \in emus : Embeds(processed[e], nph[e])

LEMMA WithinInvariant == Spec => []Within
<1>1. Init => Within
  BY DEF Init, Within
<1>2. TypeOK /\ PoolInv /\ Within /\ [Next]_vars => Within'
  <2> SUFFICES ASSUME TypeOK, PoolInv, Within, [Next]_vars
               PROVE  Within'
    OBVIOUS
  <2>1. ASSUME NEW m \in Middleboxes, NEW p \in Packets, InjectPacket(m, p)
        PROVE  Within'
    <3>1. PICK e \in GetEmulation(m, PktHist[m]) : InjectInto(m, p, e)
      BY <2>1 DEF InjectPacket
    <3> DEFINE h == PktHist[m]
               new == Append(h, p)
               fresh == Entries(m) = {}
               old == IF fresh THEN <<>> ELSE nph[e]
               done == IF fresh THEN <<>> ELSE processed[e]
               rew == Rewind(old, done, h)
    <3>2. e \in Emulations /\ (~fresh => e \in emus)
      BY <3>1, GetEmulationReturns DEF PoolInv
    <3>3. /\ h \in Histories /\ old \in Histories /\ done \in Histories
          /\ Copies(p) \in Histories /\ <<p>> \in Histories /\ <<>> \in Histories
      BY <3>2, PktHistType, CopiesType DEF TypeOK, Histories
    <3>4. Embeds(done, old)
      <4>1. CASE fresh
        BY <3>3, <4>1, EmbedsEmpty
      <4>2. CASE ~fresh
        BY <3>2, <4>2 DEF Within
      <4> QED
        BY <4>1, <4>2
    <3>5. /\ emus' = emus \cup {e}
          /\ nph' = [nph EXCEPT ![e] = new]
          /\ \/ processed' = [processed EXCEPT ![e] = rew]
             \/ processed' = [processed EXCEPT ![e] = rew \o Copies(p)]
      BY <3>1 DEF InjectInto
    <3> HIDE DEF h, old, done
    <3>6. rew \in Histories /\ Embeds(rew, h)
      BY <3>3, <3>4, RewindType, RewindEmbeds
    <3> HIDE DEF rew
    <3>7. new = h \o <<p>> /\ rew = rew \o <<>>
      <4>1. Append(h, p) = h \o <<p>>
        BY <3>3 DEF Histories
      <4>2. rew = rew \o <<>>
        BY <3>6 DEF Histories
      <4> QED
        BY <4>1, <4>2
    <3>8. Embeds(rew, new) /\ Embeds(rew \o Copies(p), new)
      <4>1. Embeds(rew \o <<>>, h \o <<p>>)
        BY <3>3, <3>6, EmbedsConcat, EmbedsEmpty
      <4>2. Embeds(rew \o Copies(p), h \o <<p>>)
        BY <3>3, <3>6, EmbedsConcat, EmbedsCopies
      <4> QED
        BY <3>7, <4>1, <4>2
    <3> HIDE DEF new
    <3>9. ASSUME NEW f \in emus'
          PROVE  Embeds(processed'[f], nph'[f])
      <4>1. CASE f = e
        BY <3>2, <3>5, <3>8, <4>1 DEF TypeOK
      <4>2. CASE f # e
        <5>1. f \in emus /\ processed'[f] = processed[f] /\ nph'[f] = nph[f]
          BY <3>5, <4>2 DEF TypeOK
        <5> QED
          BY <5>1 DEF Within
      <4> QED
        BY <4>1, <4>2
    <3> QED
      BY <3>9 DEF Within, Embeds, Ordered
  <2>2. CASE Reinit \/ Backtrack \/ UNCHANGED vars
    BY <2>2 DEF Reinit, Backtrack, vars, Within, Embeds, Ordered
  <2> QED
    BY <2>1, <2>2, PoolAssumption DEF Next
<1> QED
  BY <1>1, <1>2, PoolTypeOK, PoolInvariant, PTL DEF Spec

\* However often SPIN backtracks, emulations are taken over and packets are claimed
\* without being sent, a container has only seen packets of the history that its
\* emulation claims, in that order.
THEOREM ProcessedWithinClaimedHolds == Spec => []ProcessedWithinClaimed
<1>1. TypeOK /\ Within => ProcessedWithinClaimed
  <2> SUFFICES ASSUME TypeOK, Within, NEW e \in emus
               PROVE  \E f \in [DOMAIN processed[e] -> DOMAIN nph[e]] :
                        /\ \A i \in DOMAIN processed[e] : processed[e][i] = nph[e][f[i]]
                        /\ \A i, j \in DOMAIN processed[e] : i < j => f[i] <= f[j]
    BY DEF ProcessedWithinClaimed
  <2>1. PICK f \in [DOMAIN processed[e] -> DOMAIN nph[e]] :
          /\ \A i \in DOMAIN processed[e] : processed[e][i] = nph[e][f[i]]
          /\ \A i, j \in DOMAIN processed[e] : i < j => Ordered(f[i], f[j])
    BY DEF Within, Embeds
  <2>2. DOMAIN nph[e] \subseteq Nat
    BY DEF TypeOK, Histories
  <2>3. \A i \in DOMAIN processed[e] : f[i] \in Nat
    BY <2>2
  <2>4. \A i, j \in DOMAIN processed[e] : i < j => f[i] <= f[j]
    BY <2>1, <2>3 DEF Ordered
  <2> QED
    BY <2>1, <2>4
<1> QED
  BY <1>1, WithinInvariant, PoolTypeOK, PTL

-----------------------------------------------------------------------------
(* The pool implements the forgetful middleboxes                           *)

\* A container whose emulation claims a packet that was not sent has processed fewer
\* packets than it claims.
Lacking == \A e \in emus : skipped[e] => Len(processed[e]) < Len(nph[e])

\* An injection, seen from the container: rew is what it had processed when the packet
\* was looked up, and miss says that something was skipped before.
InjectedAfter(m, p, e, rew, miss) ==
  LET new == Append(PktHist[m], p)
  IN /\ ~miss => rew = PktHist[m]
     /\ miss => /\ e \in emus /\ mb[e] = m /\ skipped[e]
                /\ Len(rew) < Len(PktHist[m]) /\ Embeds(rew, PktHist[m])
     /\ e \in Emulations
     /\ emus' = emus \cup {e}
     /\ mb' = [mb EXCEPT ![e] = m]
     /\ nph' = [nph EXCEPT ![e] = new]
     /\ \/ /\ Cached(m, new)
           /\ processed' = [processed EXCEPT ![e] = rew]
           /\ skipped' = [skipped EXCEPT ![e] = TRUE]
           /\ cache' = cache
        \/ /\ ~Cached(m, new)
           /\ processed' = [processed EXCEPT ![e] = rew \o Copies(p)]
           /\ skipped' = [skipped EXCEPT ![e] = miss]
           /\ cache' = cache \cup {[mb |-> m, nph |-> new,
                                    before |-> rew, skipped |-> miss]}

LEMMA InjectedFrom ==
  ASSUME PktsPerInjection = 1,
         TypeOK, PoolInv, FaithfulUnlessSkipped, Within, Lacking,
         NEW m \in Middleboxes, NEW p \in Packets,
         NEW e \in GetEmulation(m, PktHist[m]), InjectInto(m, p, e)
  PROVE  \E rew \in Histories, miss \in BOOLEAN : InjectedAfter(m, p, e, rew, miss)
<1> DEFINE h == PktHist[m]
           new == Append(h, p)
           fresh == Entries(m) = {}
           old == IF fresh THEN <<>> ELSE nph[e]
           done == IF fresh THEN <<>> ELSE processed[e]
           rew == Rewind(old, done, h)
           miss == IF fresh \/ NeedsReset(old, h) THEN FALSE ELSE skipped[e]
<1>1. e \in Emulations /\ (~fresh => e \in emus /\ mb[e] = m)
  BY GetEmulationReturns DEF PoolInv
<1>2. h \in Histories /\ old \in Histories /\ done \in Histories
  BY <1>1, PktHistType DEF TypeOK, Histories
<1>3. rew \in Histories
  BY <1>2, RewindType
<1>4. miss \in BOOLEAN
  BY <1>1 DEF TypeOK
<1>5. ASSUME ~miss
      PROVE  rew = h
  <2>1. CASE fresh
    <3>1. done = old
      BY <2>1
    <3> QED
      BY <1>2, <3>1, RewindFaithful
  <2>2. CASE NeedsReset(old, h)
    BY <1>2, <2>2, RewindFaithful
  <2>3. CASE ~fresh /\ ~NeedsReset(old, h)
    <3>1. ~skipped[e] /\ old = nph[e] /\ done = processed[e]
      BY <1>5, <2>3
    <3>2. processed[e] = LiveHistory(nph[e]) /\ nph[e] \in Histories
      BY <1>1, <2>3, <3>1 DEF FaithfulUnlessSkipped, TypeOK
    <3>3. done = old
      BY <3>1, <3>2, LiveIsHistory
    <3> QED
      BY <1>2, <3>3, RewindFaithful
  <2> QED
    BY <2>1, <2>2, <2>3
<1>6. ASSUME miss
      PROVE  /\ e \in emus /\ mb[e] = m /\ skipped[e]
             /\ Len(rew) < Len(h) /\ Embeds(rew, h)
  <2>1. ~fresh /\ ~NeedsReset(old, h) /\ skipped[e] /\ old = nph[e] /\ done = processed[e]
    BY <1>6
  <2>2. Len(done) < Len(old) /\ Embeds(done, old)
    BY <1>1, <2>1 DEF Lacking, Within
  <2>3. Embeds(rew, h)
    BY <1>2, <2>2, RewindEmbeds
  <2>4. Len(rew) < Len(h)
    <3> HIDE DEF h, old, done
    <3>1. CASE old = h
      BY <2>2, <3>1 DEF Rewind
    <3>2. CASE old # h
      <4> DEFINE since == GetPacketsSince(h, old)
      <4>1. rew = done \o since /\ Contains(h, old)
        BY <2>1, <3>2 DEF Rewind, NeedsReset
      <4>2. old \o since = h /\ since \in Histories
        BY <1>2, <4>1, SinceCompletes, SinceType
      <4> HIDE DEF since, rew
      <4>3. Len(h) = Len(old) + Len(since) /\ Len(rew) = Len(done) + Len(since)
        BY <1>2, <4>1, <4>2 DEF Histories
      <4> QED
        BY <1>2, <2>2, <4>2, <4>3 DEF Histories
    <3> QED
      BY <3>1, <3>2
  <2> QED
    BY <1>1, <2>1, <2>3, <2>4
<1>7. /\ emus' = emus \cup {e}
      /\ mb' = [mb EXCEPT ![e] = m]
      /\ nph' = [nph EXCEPT ![e] = new]
      /\ processed' = [processed EXCEPT ![e] = IF Cached(m, new) THEN rew ELSE rew \o Copies(p)]
      /\ skipped' = [skipped EXCEPT ![e] = Cached(m, new) \/ miss]
      /\ cache' = IF Cached(m, new) THEN cache
                  ELSE cache \cup {[mb |-> m, nph |-> new, before |-> rew, skipped |-> miss]}
  BY DEF InjectInto, Lookup
<1> HIDE DEF h, new, old, done, rew, miss
<1>8. \/ /\ Cached(m, new)
         /\ processed' = [processed EXCEPT ![e] = rew]
         /\ skipped' = [skipped EXCEPT ![e] = TRUE]
         /\ cache' = cache
      \/ /\ ~Cached(m, new)
         /\ processed' = [processed EXCEPT ![e] = rew \o Copies(p)]
         /\ skipped' = [skipped EXCEPT ![e] = miss]
         /\ cache' = cache \cup {[mb |-> m, nph |-> new, before |-> rew, skipped |-> miss]}
  <2>1. CASE Cached(m, new)
    BY <1>7, <2>1
  <2>2. CASE ~Cached(m, new)
    <3>1. (Cached(m, new) \/ miss) = miss
      BY <1>4, <2>2
    <3> QED
      BY <1>7, <2>2, <3>1
  <2> QED
    BY <2>1, <2>2
<1> QED
  <2>1. /\ ~miss => rew = h
        /\ miss => /\ e \in emus /\ mb[e] = m /\ skipped[e]
                   /\ Len(rew) < Len(h) /\ Embeds(rew, h)
    BY <1>5, <1>6
  <2>2. InjectedAfter(m, p, e, rew, miss)
    BY <1>1, <1>7, <1>8, <2>1 DEF InjectedAfter, h, new
  <2> QED
    BY <1>3, <1>4, <2>2

LEMMA LackingInvariant ==
  ASSUME PktsPerInjection = 1
  PROVE  Spec => []Lacking
<1>1. Init => Lacking
  BY DEF Init, Lacking
<1>2. TypeOK /\ PoolInv /\ FaithfulUnlessSkipped /\ Within /\ Lacking /\ [Next]_vars
        => Lacking'
  <2> SUFFICES ASSUME TypeOK, PoolInv, FaithfulUnlessSkipped, Within, Lacking, [Next]_vars
               PROVE  Lacking'
    OBVIOUS
  <2>1. ASSUME NEW m \in Middleboxes, NEW p \in Packets, InjectPacket(m, p)
        PROVE  Lacking'
    <3> DEFINE h == PktHist[m]
               new == Append(h, p)
    <3>1. PICK e \in GetEmulation(m, h) : InjectInto(m, p, e)
      BY <2>1 DEF InjectPacket
    <3>2. PICK rew \in Histories, miss \in BOOLEAN : InjectedAfter(m, p, e, rew, miss)
      BY <3>1, InjectedFrom
    <3>3. /\ h \in Histories
          /\ rew = h \/ Len(rew) < Len(h)
          /\ miss => Len(rew) < Len(h)
          /\ e \in Emulations
          /\ emus' = emus \cup {e}
          /\ nph' = [nph EXCEPT ![e] = new]
          /\ \/ /\ processed' = [processed EXCEPT ![e] = rew]
                /\ skipped' = [skipped EXCEPT ![e] = TRUE]
             \/ /\ processed' = [processed EXCEPT ![e] = rew \o Copies(p)]
                /\ skipped' = [skipped EXCEPT ![e] = miss]
      BY <3>2, PktHistType DEF InjectedAfter
    <3> HIDE DEF h
    <3>4. Len(new) = Len(h) + 1 /\ Len(h) \in Nat /\ Len(rew) \in Nat
      BY <3>3 DEF Histories
    <3>6. Len(rew \o Copies(p)) = Len(rew) + 1
      <4>1. Copies(p) = <<p>>
        BY DEF Copies
      <4> QED
        BY <4>1 DEF Histories
    <3> HIDE DEF new
    <3>5. ASSUME NEW f \in emus', skipped'[f]
          PROVE  Len(processed'[f]) < Len(nph'[f])
      <4>1. CASE f # e
        <5>1. /\ f \in emus /\ skipped'[f] = skipped[f]
              /\ processed'[f] = processed[f] /\ nph'[f] = nph[f]
          BY <3>3, <4>1 DEF TypeOK
        <5> QED
          BY <3>5, <5>1 DEF Lacking
      <4>2. CASE f = e
        <5>1. /\ nph'[e] = new
              /\ \/ processed'[e] = rew
                 \/ processed'[e] = rew \o Copies(p) /\ skipped'[e] = miss
          BY <3>3 DEF TypeOK
        <5>2. Len(rew) <= Len(h) /\ (miss => Len(rew) < Len(h))
          BY <3>3, <3>4
        <5> QED
          BY <3>4, <3>6, <3>5, <4>2, <5>1, <5>2
      <4> QED
        BY <4>1, <4>2
    <3> QED
      BY <3>5 DEF Lacking
  <2>2. CASE Reinit \/ Backtrack \/ UNCHANGED vars
    BY <2>2 DEF Reinit, Backtrack, vars, Lacking
  <2> QED
    BY <2>1, <2>2, PoolAssumption DEF Next
<1>3. Spec => []FaithfulUnlessSkipped
  BY FaithfulUnlessSkippedHolds
<1> QED
  BY <1>1, <1>2, <1>3, WithinInvariant, PoolTypeOK, PoolInvariant, PTL DEF Spec

\* What the search uses of the results in a cache.
Seen(results) == {[mb |-> c.mb, nph |-> c.nph, state |-> c.before] : c \in results}

LEMMA SeenAfterInsert ==
  ASSUME NEW C, NEW r
  PROVE  Seen(C \cup {r}) =
           Seen(C) \cup {[mb |-> r.mb, nph |-> r.nph, state |-> r.before]}
BY DEF Seen

\* The middleboxes that did not take in some packet.
Forgetting == {mb[e] : e \in {f \in emus : skipped[f]}}

\* An ordered part that is shorter lacks packets.
LEMMA EmbedsIsPart ==
  ASSUME PktsPerInjection = 1, NEW s \in Histories, NEW h \in Histories,
         Embeds(s, h), Len(s) < Len(h)
  PROVE  s \in Forgetful!Parts(h)
<1> DEFINE n == Len(s)
           l == Len(h)
<1>1. n \in Nat /\ l \in Nat /\ DOMAIN s = 1 .. n /\ DOMAIN h = 1 .. l
      /\ s = [i \in 1 .. n |-> s[i]]
  BY DEF Histories
<1>2. PICK f \in [1 .. n -> 1 .. l] :
        /\ \A i \in 1 .. n : s[i] = h[f[i]]
        /\ \A i, j \in 1 .. n : i < j => Ordered(f[i], f[j])
  BY <1>1, Zenon DEF Embeds
<1> HIDE DEF n, l
<1>3. f \in Forgetful!Increasing(n, l)
  BY <1>2 DEF Forgetful!Increasing, Ordered
<1>4. s = [i \in 1 .. n |-> h[f[i]]]
  BY <1>1, <1>2
<1>5. n \in 0 .. l - 1
  BY <1>1 DEF n, l
<1> DEFINE Of(k) == {[i \in 1 .. k |-> h[g[i]]] : g \in Forgetful!Increasing(k, l)}
<1>6. s \in Of(n)
  BY <1>3, <1>4
<1> HIDE DEF Of
<1>7. s \in UNION {Of(k) : k \in 0 .. l - 1}
  BY <1>5, <1>6
<1>8. Forgetful!Parts(h) = UNION {Of(k) : k \in 0 .. l - 1}
  BY DEF Forgetful!Parts, Of, l
<1> QED
  BY <1>7, <1>8

\* The middlebox of an injection is forgetful after it if its emulation skipped a
\* packet, and no other becomes so.
LEMMA ForgettingAfter ==
  ASSUME TypeOK, PoolInv', NEW m \in Middleboxes, NEW e \in Emulations, NEW x \in BOOLEAN,
         emus' = emus \cup {e}, mb' = [mb EXCEPT ![e] = m],
         skipped' = [skipped EXCEPT ![e] = x]
  PROVE  /\ m \in Forgetting' <=> x
         /\ Forgetting' \ {m} \subseteq Forgetting
<1>1. /\ mb'[e] = m /\ skipped'[e] = x
      /\ \A f \in emus' : f # e => /\ f \in emus
                                  /\ mb'[f] = mb[f] /\ skipped'[f] = skipped[f]
  BY DEF TypeOK
<1>2. \A f \in emus' : mb'[f] = m => f = e
  BY <1>1 DEF PoolInv, PoolWithinLimits
<1>3. ASSUME m \in Forgetting'
      PROVE  x
  <2>1. PICK f \in emus' : skipped'[f] /\ mb'[f] = m
    BY <1>3 DEF Forgetting
  <2> QED
    BY <1>1, <1>2, <2>1
<1>4. ASSUME x
      PROVE  m \in Forgetting'
  BY <1>1, <1>4 DEF Forgetting
<1>5. ASSUME NEW y \in Forgetting', y # m
      PROVE  y \in Forgetting
  <2>1. PICK f \in emus' : skipped'[f] /\ mb'[f] = y
    BY <1>5 DEF Forgetting
  <2>2. f # e
    BY <1>1, <1>5, <2>1
  <2> QED
    BY <1>1, <2>1, <2>2 DEF Forgetting
<1> QED
  BY <1>3, <1>4, <1>5

\* With one packet per injection, launching, taking over, resetting, replaying and
\* caching implement one middlebox of each that is asked every question once, in the
\* state after any history; only one that was asked again answers, until it starts
\* afresh, from a state that lacks packets.
THEOREM PoolImplementsForgetful ==
  ASSUME PktsPerInjection = 1
  PROVE  Spec => ImplementsForgetful
<1>1. Init => Forgetful!Init
  BY DEF Init, Forgetful!Init
<1>2. TypeOK /\ PoolInv /\ PoolInv' /\ FaithfulUnlessSkipped /\ Within /\ Lacking /\ [Next]_vars
        => [Forgetful!Next]_(Forgetful!vars)
  <2> SUFFICES ASSUME TypeOK, PoolInv, PoolInv', FaithfulUnlessSkipped, Within, Lacking,
                      [Next]_vars
               PROVE  [Forgetful!Next]_(Forgetful!vars)
    OBVIOUS
  <2>1. ASSUME NEW m \in Middleboxes, NEW p \in PacketsAt[m], InjectPacket(m, p)
        PROVE  Forgetful!Meet(m, p)
    <3> DEFINE h == PktHist[m]
               new == Append(h, p)
               known == \E o \in Seen(cache) : o.mb = m /\ o.nph = new
               seen(state) == [mb |-> m, nph |-> new, state |-> state]
    <3>1. PICK e \in GetEmulation(m, h) : InjectInto(m, p, e)
      BY <2>1 DEF InjectPacket
    <3>2. p \in Packets /\ h \in Histories
      BY PoolAssumption, PktHistType
    <3>3. Push([PktHist EXCEPT ![m] = new]) /\ Len(h) < MaxHist
      BY <2>1, <3>1 DEF InjectPacket, InjectInto
    <3>4. PICK rew \in Histories, miss \in BOOLEAN : InjectedAfter(m, p, e, rew, miss)
      BY <3>1, <3>2, InjectedFrom
    <3>6. /\ ~miss => rew = h
          /\ miss => /\ e \in emus /\ mb[e] = m /\ skipped[e]
                     /\ Len(rew) < Len(h) /\ Embeds(rew, h)
          /\ e \in Emulations
          /\ emus' = emus \cup {e}
          /\ mb' = [mb EXCEPT ![e] = m]
          /\ \/ /\ Cached(m, new)
                /\ skipped' = [skipped EXCEPT ![e] = TRUE]
                /\ cache' = cache
             \/ /\ ~Cached(m, new)
                /\ skipped' = [skipped EXCEPT ![e] = miss]
                /\ cache' = cache \cup {[mb |-> m, nph |-> new,
                                         before |-> rew, skipped |-> miss]}
      BY <3>4 DEF InjectedAfter
    <3>5. known <=> Cached(m, new)
      <4>1. ASSUME known
            PROVE  Cached(m, new)
        <5>1. PICK o \in Seen(cache) : o.mb = m /\ o.nph = new
          BY <4>1
        <5>2. PICK c \in cache : o = [mb |-> c.mb, nph |-> c.nph, state |-> c.before]
          BY <5>1 DEF Seen
        <5> QED
          BY <5>1, <5>2 DEF Cached
      <4>2. ASSUME Cached(m, new)
            PROVE  known
        <5>1. PICK c \in cache : c.mb = m /\ c.nph = new
          BY <4>2 DEF Cached
        <5>2. [mb |-> c.mb, nph |-> c.nph, state |-> c.before] \in Seen(cache)
          BY <5>1 DEF Seen
        <5> QED
          BY <5>1, <5>2
      <4> QED
        BY <4>1, <4>2
    <3>7. Forgetting' \ {m} \subseteq Forgetting
      BY <3>6, ForgettingAfter
    <3> HIDE DEF h, new
    <3>8. \/ known /\ Seen(cache') = Seen(cache) /\ m \in Forgetting'
          \/ /\ ~known
             /\ Seen(cache') = Seen(cache) \cup {seen(h)}
             /\ m \notin Forgetting'
          \/ /\ ~known
             /\ m \in Forgetting
             /\ rew \in Forgetful!Parts(h)
             /\ Seen(cache') = Seen(cache) \cup {seen(rew)}
             /\ m \in Forgetting'
      <4>1. CASE Cached(m, new)
        <5>1. skipped' = [skipped EXCEPT ![e] = TRUE] /\ cache' = cache
          BY <3>6, <4>1
        <5>2. m \in Forgetting'
          BY <3>6, <5>1, ForgettingAfter
        <5> QED
          BY <3>5, <4>1, <5>1, <5>2
      <4>2. CASE ~Cached(m, new)
        <5> DEFINE r == [mb |-> m, nph |-> new, before |-> rew, skipped |-> miss]
        <5>1. skipped' = [skipped EXCEPT ![e] = miss] /\ cache' = cache \cup {r}
          BY <3>6, <4>2
        <5>2. m \in Forgetting' <=> miss
          BY <3>6, <5>1, ForgettingAfter
        <5>3. r.mb = m /\ r.nph = new /\ r.before = rew
          OBVIOUS
        <5> HIDE DEF r
        <5>4. Seen(cache') = Seen(cache) \cup {seen(rew)}
          BY <5>1, <5>3, SeenAfterInsert
        <5>5. CASE miss
          <6>1. m \in Forgetting
            BY <3>6, <5>5 DEF Forgetting
          <6>2. rew \in Forgetful!Parts(h)
            BY <3>2, <3>4, <3>6, <5>5, EmbedsIsPart
          <6> QED
            BY <3>5, <4>2, <5>2, <5>4, <5>5, <6>1, <6>2
        <5>6. CASE ~miss
          BY <3>6, <3>5, <4>2, <5>2, <5>4, <5>6
        <5> QED
          BY <5>5, <5>6
      <4> QED
        BY <4>1, <4>2
    <3>9. \/ Forgetful!Repeat(m, p)
          \/ Forgetful!MeetFaithful(m, p)
          \/ Forgetful!MeetForgetful(m, p)
      <4>1. ASSUME known, Seen(cache') = Seen(cache), m \in Forgetting'
            PROVE  Forgetful!Repeat(m, p)
        BY <4>1 DEF Forgetful!Repeat, Forgetful!Known, Forgetful!PktHist, PktHist,
                    Seen, Forgetting, h, new
      <4>2. ASSUME ~known, Seen(cache') = Seen(cache) \cup {seen(h)}, m \notin Forgetting'
            PROVE  Forgetful!MeetFaithful(m, p)
        BY <4>2 DEF Forgetful!MeetFaithful, Forgetful!Observe, Forgetful!Known,
                    Forgetful!PktHist, PktHist, Seen, Forgetting, h, new
      <4>3. ASSUME ~known, m \in Forgetting, rew \in Forgetful!Parts(h),
                   Seen(cache') = Seen(cache) \cup {seen(rew)}, m \in Forgetting'
            PROVE  Forgetful!MeetForgetful(m, p)
        BY <4>3 DEF Forgetful!MeetForgetful, Forgetful!Observe, Forgetful!Known,
                    Forgetful!PktHist, PktHist, Seen, Forgetting, h, new
      <4> QED
        BY <3>8, <4>1, <4>2, <4>3
    <3> QED
      BY <3>3, <3>7, <3>9
         DEF Forgetful!Meet, Forgetful!Push, Forgetful!PktHist, Forgetful!OthersFresher,
             Push, PktHist, Forgetting, h, new
  <2>2. CASE Reinit
    BY <2>2 DEF Reinit, Push, PktHist, Forgetful!Next, Forgetful!Restart, Forgetful!Push,
                Forgetful!vars
  <2>3. CASE Backtrack
    BY <2>3 DEF Backtrack, Forgetful!Next, Forgetful!Return, Forgetful!vars
  <2>4. CASE UNCHANGED vars
    BY <2>4 DEF vars, Forgetful!vars
  <2>5. QED
    BY <2>1, <2>2, <2>3, <2>4 DEF Next, Forgetful!Next
<1>3. Spec => []FaithfulUnlessSkipped
  BY FaithfulUnlessSkippedHolds
<1>4. Spec => []Lacking
  BY LackingInvariant
<1>5. QED
  BY <1>1, <1>2, <1>3, <1>4, WithinInvariant, PoolTypeOK, PoolInvariant, PTL
     DEF Spec, ImplementsForgetful, Forgetful!Spec
=============================================================================

--------------------------- MODULE RegistryProofs ---------------------------
(***************************************************************************)
(* Proofs about Registry, for any ids, any number of handlers and any      *)
(* caps.                                                                   *)
(***************************************************************************)
EXTENDS Registry, FiniteSetTheorems, TLAPS

-----------------------------------------------------------------------------
(* There is a hub for every new entry: counting the references.            *)

\* The image of a finite set has no more members than the set.
LEMMA ImageBound ==
    ASSUME NEW S, NEW T, NEW f \in [S -> T], IsFiniteSet(S)
    PROVE  /\ IsFiniteSet({f[x] : x \in S})
           /\ Cardinality({f[x] : x \in S}) <= Cardinality(S)
<1> DEFINE R == {f[x] : x \in S}
<1>1. f \in Surjection(S, R)
    BY DEF Surjection
<1> HIDE DEF R
<1>2. IsFiniteSet(R) /\ Cardinality(R) <= Cardinality(S)
    BY <1>1, FS_Surjection
<1>3. QED
    BY <1>2 DEF R

LEMMA NewChannelExists ==
    ASSUME TypeOK, IsFiniteSet(Registered), UnderCap
    PROVE  NewChannel \in Objs /\ Unreferenced(NewChannel)
<1> DEFINE f == [i \in Registered |-> channels[i]]
           A == {f[i] : i \in Registered}
           B == {ref[h] : h \in Handlers}
<1>1. f \in [Registered -> Objs \cup {None}] /\ ref \in [Handlers -> Objs \cup {None}]
    BY DEF TypeOK, Registered
<1>4. \A i \in Registered : channels[i] \in A
    OBVIOUS
<1>5. \A h \in Handlers : ref[h] \in B
    OBVIOUS
<1> HIDE DEF f
<1>2. IsFiniteSet(A) /\ Cardinality(A) <= Cardinality(Registered)
    BY <1>1, ImageBound
<1>3. IsFiniteSet(B) /\ Cardinality(B) <= Cardinality(Handlers)
  <2>1. IsFiniteSet(Handlers)
    BY RegistryAssumption
  <2>2. QED
    BY <1>1, <2>1, ImageBound
<1> HIDE DEF A, B
<1>6. IsFiniteSet(A \cup B) /\ Cardinality(A \cup B) < MaxChannels + Cardinality(Handlers)
  <2>1. /\ IsFiniteSet(A \cup B)
        /\ Cardinality(A \cup B) = Cardinality(A) + Cardinality(B) - Cardinality(A \cap B)
    BY <1>2, <1>3, FS_Union
  <2>2. IsFiniteSet(A \cap B)
    <3>1. A \cap B \in SUBSET A
      OBVIOUS
    <3>2. QED
      BY <1>2, <3>1, FS_Subset
  <2>3. /\ Cardinality(A) \in Nat /\ Cardinality(B) \in Nat
        /\ Cardinality(A \cap B) \in Nat /\ Cardinality(Registered) \in Nat
        /\ Cardinality(Handlers) \in Nat /\ MaxChannels \in Nat
    BY <1>2, <1>3, <2>2, FS_CardinalityType, RegistryAssumption
  <2>4. Cardinality(Registered) < MaxChannels
    BY DEF UnderCap
  <2>5. QED
    BY <1>2, <1>3, <2>1, <2>3, <2>4
<1>7. ~(Objs \subseteq A \cup B)
  <2> SUFFICES ASSUME Objs \in SUBSET (A \cup B) PROVE FALSE
    OBVIOUS
  <2>1. IsFiniteSet(Objs) /\ Cardinality(Objs) <= Cardinality(A \cup B)
    BY <1>6, FS_Subset
  <2>2. Cardinality(Objs) >= MaxChannels + Cardinality(Handlers)
    BY <2>1, RegistryAssumption
  <2>3. /\ Cardinality(Objs) \in Nat /\ Cardinality(A \cup B) \in Nat
        /\ Cardinality(Handlers) \in Nat /\ MaxChannels \in Nat
    BY <1>6, <2>1, FS_CardinalityType, RegistryAssumption
  <2>4. QED
    BY <1>6, <2>1, <2>2, <2>3
<1>8. PICK o \in Objs : o \notin A \cup B
    BY <1>7
<1>9. Unreferenced(o)
  <2>1. \A i \in Ids : channels[i] # o
    BY <1>4, <1>8, RegistryAssumption DEF Registered
  <2>2. QED
    BY <1>5, <1>8, <2>1 DEF Unreferenced
<1>10. QED
    BY <1>9 DEF NewChannel

-----------------------------------------------------------------------------
(* Types and the cap on channels.                                          *)

TableInv ==
    /\ TypeOK
    /\ IsFiniteSet(Registered) /\ Cardinality(Registered) <= MaxChannels

LEMMA TableStep ==
    ASSUME TableInv, [Next]_vars
    PROVE  TableInv'
<1> USE DEF TypeOK
<1>0. /\ TypeOK /\ Cardinality(Registered) \in Nat /\ MaxChannels \in Nat
      /\ None \notin Objs /\ None \notin Ids
    BY FS_CardinalityType, RegistryAssumption DEF TableInv
<1>1. ASSUME UNCHANGED channels
      PROVE  IsFiniteSet(Registered)' /\ (Cardinality(Registered) <= MaxChannels)'
    BY <1>1 DEF TableInv, Registered
<1>2. ASSUME NEW h \in Handlers, NEW i \in Ids, GetOrCreate(h, i)
      PROVE  TableInv'
  <2>1. CASE channels[i] # None /\ UNCHANGED channels
    <3>1. TypeOK'
      BY <1>0, <1>2, <2>1 DEF GetOrCreate, reapVars
    <3>2. QED
      BY <1>1, <2>1, <3>1 DEF TableInv
  <2>2. CASE /\ channels[i] = None /\ UnderCap
             /\ channels' = [channels EXCEPT ![i] = NewChannel]
    <3>1. NewChannel \in Objs
      BY <2>2, NewChannelExists DEF TableInv
    <3>2. TypeOK'
      BY <1>0, <1>2, <2>2, <3>1 DEF GetOrCreate, reapVars
    <3>3. Registered' = Registered \cup {i} /\ i \notin Registered
      BY <1>0, <2>2, <3>1 DEF Registered
    <3>4. /\ IsFiniteSet(Registered')
          /\ Cardinality(Registered') = Cardinality(Registered) + 1
      BY <3>3, FS_AddElement DEF TableInv
    <3>5. QED
      BY <1>0, <2>2, <3>2, <3>4 DEF TableInv, UnderCap
  <2>3. QED
    BY <1>2, <2>1, <2>2 DEF GetOrCreate
<1>3. ASSUME NEW h \in Handlers, Enter(h) PROVE TableInv'
  <2>1. /\ hasPub' \in [Objs -> BOOLEAN] /\ subs' \in [Objs -> SUBSET Viewers]
    <3>1. ref[h] \in Objs
      BY <1>0, <1>3 DEF Enter
    <3>2. CASE hasPub' = [hasPub EXCEPT ![ref[h]] = TRUE] /\ subs' = subs
      BY <1>0, <3>1, <3>2
    <3>3. CASE /\ h \in Viewers /\ hasPub' = hasPub
               /\ subs' = [subs EXCEPT ![ref[h]] = @ \cup {h}]
      BY <1>0, <3>1, <3>3
    <3>4. QED
      BY <1>3, <3>2, <3>3 DEF Enter
  <2>2. late' \in [Handlers -> BOOLEAN]
    <3>1. (Orphan(ref[h]) \/ Doomed(ref[h])) \in BOOLEAN
      BY DEF Orphan, Doomed
    <3>2. QED
      BY <1>0, <1>3, <3>1 DEF Enter
  <2>3. /\ pc' \in [Handlers -> {"idle", "got", "in"}]
        /\ \A g \in Handlers : pc'[g] # "idle" => pc[g] # "idle"
        /\ UNCHANGED <<channels, id, ref, reapVars>>
    BY <1>0, <1>3 DEF Enter
  <2>4. TypeOK'
    BY <1>0, <2>1, <2>2, <2>3 DEF reapVars
  <2>5. QED
    BY <1>1, <2>3, <2>4 DEF TableInv
<1>4. ASSUME NEW h \in Handlers, Refused(h) \/ Exit(h) PROVE TableInv'
  <2>1. hasPub' \in [Objs -> BOOLEAN] /\ subs' \in [Objs -> SUBSET Viewers]
    <3>1. CASE Refused(h)
      BY <1>0, <3>1 DEF Refused, hubVars
    <3>2. CASE Exit(h)
      BY <1>0, <3>2 DEF Exit
    <3>3. QED
      BY <1>4, <3>1, <3>2
  <2>2. Finish(h) /\ UNCHANGED <<channels, reapVars>>
    BY <1>4 DEF Refused, Exit, hubVars
  <2>3. TypeOK'
    BY <1>0, <2>1, <2>2 DEF Finish, reapVars
  <2>4. QED
    BY <1>1, <2>2, <2>3 DEF TableInv
<1>5. CASE ReapStart \/ ReapEnd
  <2>1. TypeOK'
    BY <1>0, <1>5 DEF ReapStart, ReapEnd, hubVars, procVars, Registered
  <2>2. QED
    BY <1>1, <1>5, <2>1 DEF TableInv, ReapStart, ReapEnd, hubVars
<1>6. ASSUME NEW i \in Ids, ReapStats(i) PROVE TableInv'
  <2>1. TypeOK'
    BY <1>0, <1>6 DEF ReapStats, hubVars, procVars
  <2>2. QED
    BY <1>1, <1>6, <2>1 DEF TableInv, ReapStats, hubVars
<1>7. CASE ReapDelete
  <2>1. TypeOK'
    BY <1>0, <1>7 DEF ReapDelete, procVars
  <2>2. Registered' \in SUBSET Registered
    BY <1>0, <1>7 DEF ReapDelete, Registered
  <2>3. /\ IsFiniteSet(Registered')
        /\ Cardinality(Registered') <= Cardinality(Registered)
        /\ Cardinality(Registered') \in Nat
    BY <2>2, FS_Subset, FS_CardinalityType DEF TableInv
  <2>4. QED
    BY <1>0, <2>1, <2>3 DEF TableInv
<1>8. CASE UNCHANGED vars
    BY <1>0, <1>1, <1>8 DEF vars, hubVars, procVars, reapVars, TableInv
<1>9. QED
    BY <1>2, <1>3, <1>4, <1>5, <1>6, <1>7, <1>8 DEF Next, ReaperStep

LEMMA TableInvariant == Spec => []TableInv
<1>1. Init => TypeOK
    BY DEF Init, TypeOK
<1>2. Init => Registered = {}
    BY DEF Init, Registered
<1>3. Init => TableInv
    BY <1>1, <1>2, FS_EmptySet, RegistryAssumption DEF TableInv
<1>4. QED
    BY <1>3, TableStep, PTL DEF Spec

-----------------------------------------------------------------------------
(* Who is in a hub: the flag and the set of the hub agree with where the   *)
(* handlers are.                                                           *)

HubInv ==
    /\ \A p \in Pubs : pc[p] = "in" => hasPub[ref[p]]
    /\ \A v \in Viewers : pc[v] = "in" => v \in subs[ref[v]]
    /\ \A p, q \in Pubs : pc[p] = "in" /\ pc[q] = "in" /\ ref[p] = ref[q] => p = q
    /\ \A o \in Objs : IsFiniteSet(subs[o]) /\ Cardinality(subs[o]) <= MaxSubs

\* A step that moves no handler into or out of a hub.
LEMMA HubSame ==
    ASSUME HubInv, UNCHANGED <<hasPub, subs>>,
           \A h \in Handlers : pc'[h] = "in" => pc[h] = "in" /\ ref'[h] = ref[h]
    PROVE  HubInv'
  BY DEF HubInv, Handlers

LEMMA HubEnter ==
    ASSUME TypeOK, HubInv, NEW h \in Handlers, Enter(h)
    PROVE  HubInv'
<1>0. /\ ref[h] \in Objs /\ ref' = ref /\ MaxSubs \in Nat
      /\ \A g \in Handlers : pc'[g] = "in" => pc[g] = "in" \/ g = h
      /\ Pubs \cap Viewers = {} /\ Pubs \subseteq Handlers /\ Viewers \subseteq Handlers
    BY RegistryAssumption DEF TypeOK, Enter, Handlers
<1>1. CASE h \in Pubs
  <2>1. ~hasPub[ref[h]] /\ subs' = subs /\ hasPub' = [hasPub EXCEPT ![ref[h]] = TRUE]
    BY <1>0, <1>1 DEF Enter, MayEnter
  <2>2. \A o \in Objs : hasPub'[o] <=> hasPub[o] \/ o = ref[h]
    BY <2>1 DEF TypeOK
  <2>3. \A p \in Pubs : pc[p] = "in" => ref[p] \in Objs /\ ref[p] # ref[h]
    BY <1>0, <2>1 DEF HubInv, TypeOK
  <2>4. \A p \in Pubs : pc'[p] = "in" => hasPub'[ref'[p]]
    BY <1>0, <2>2, <2>3 DEF HubInv
  <2>5. \A p, q \in Pubs : pc'[p] = "in" /\ pc'[q] = "in" /\ ref'[p] = ref'[q] => p = q
    BY <1>0, <2>3 DEF HubInv
  <2>6. \A v \in Viewers : pc'[v] = "in" => v \in subs'[ref'[v]]
    BY <1>0, <1>1, <2>1 DEF HubInv
  <2>7. QED
    BY <2>1, <2>4, <2>5, <2>6 DEF HubInv
<1>2. CASE h \in Viewers
  <2>1. /\ Cardinality(subs[ref[h]]) < MaxSubs /\ hasPub' = hasPub
        /\ subs' = [subs EXCEPT ![ref[h]] = @ \cup {h}]
    BY <1>0, <1>2 DEF Enter, MayEnter
  <2>2. \A o \in Objs : subs'[o] = IF o = ref[h] THEN subs[o] \cup {h} ELSE subs[o]
    BY <2>1 DEF TypeOK
  <2>3. \A p \in Pubs : pc'[p] = "in" => pc[p] = "in"
    BY <1>0, <1>2
  <2>4. \A v \in Viewers : pc'[v] = "in" => v \in subs'[ref'[v]]
    <3>1. ASSUME NEW v \in Viewers, pc[v] = "in" PROVE v \in subs'[ref[v]]
      <4>1. ref[v] \in Objs /\ v \in subs[ref[v]]
        BY <1>0, <3>1 DEF HubInv, TypeOK
      <4>2. QED
        BY <2>2, <4>1
    <3>2. h \in subs'[ref[h]]
      BY <1>0, <2>2
    <3>3. QED
      BY <1>0, <3>1, <3>2
  <2>5. ASSUME NEW o \in Objs
        PROVE  IsFiniteSet(subs'[o]) /\ Cardinality(subs'[o]) <= MaxSubs
    <3>1. CASE o = ref[h]
      <4>1. /\ IsFiniteSet(subs[o]) /\ Cardinality(subs[o]) \in Nat
            /\ Cardinality(subs[o]) < MaxSubs /\ subs'[o] = subs[o] \cup {h}
        BY <2>1, <2>2, <3>1, FS_CardinalityType DEF HubInv
      <4>2. /\ IsFiniteSet(subs[o] \cup {h})
            /\ \/ Cardinality(subs[o] \cup {h}) = Cardinality(subs[o])
               \/ Cardinality(subs[o] \cup {h}) = Cardinality(subs[o]) + 1
        BY <4>1, FS_AddElement, Zenon
      <4>3. QED
        BY <1>0, <4>1, <4>2
    <3>2. QED
      BY <2>2, <3>1 DEF HubInv
  <2>6. QED
    BY <1>0, <2>1, <2>3, <2>4, <2>5 DEF HubInv
<1>3. QED
    BY <1>1, <1>2 DEF Handlers

LEMMA HubExit ==
    ASSUME TypeOK, HubInv, NEW h \in Handlers, Exit(h)
    PROVE  HubInv'
<1>0. /\ ref[h] \in Objs /\ pc[h] = "in"
      /\ \A g \in Handlers : pc'[g] = "in" => pc[g] = "in" /\ g # h /\ ref'[g] = ref[g]
      /\ \A g \in Handlers : pc[g] = "in" => ref[g] \in Objs
      /\ Pubs \cap Viewers = {} /\ Pubs \subseteq Handlers /\ Viewers \subseteq Handlers
    BY RegistryAssumption DEF TypeOK, Exit, Finish, Handlers
<1>1. CASE h \in Pubs
  <2>1. subs' = subs /\ hasPub' = [hasPub EXCEPT ![ref[h]] = FALSE]
    BY <1>0, <1>1 DEF Exit
  <2>2. \A o \in Objs : o # ref[h] => hasPub'[o] = hasPub[o]
    BY <2>1 DEF TypeOK
  <2>3. \A p \in Pubs : pc'[p] = "in" => ref[p] # ref[h]
    BY <1>0, <1>1 DEF HubInv
  <2>4. QED
    BY <1>0, <2>1, <2>2, <2>3 DEF HubInv
<1>2. CASE h \in Viewers
  <2>1. hasPub' = hasPub /\ subs' = [subs EXCEPT ![ref[h]] = @ \ {h}]
    BY <1>0, <1>2 DEF Exit
  <2>2. \A o \in Objs : subs'[o] \in SUBSET subs[o] /\ subs[o] \subseteq subs'[o] \cup {h}
    BY <2>1 DEF TypeOK
  <2>3. ASSUME NEW o \in Objs
        PROVE  IsFiniteSet(subs'[o]) /\ Cardinality(subs'[o]) <= MaxSubs
    <3>1. /\ IsFiniteSet(subs[o]) /\ Cardinality(subs[o]) \in Nat
          /\ Cardinality(subs[o]) <= MaxSubs /\ MaxSubs \in Nat
      BY FS_CardinalityType, RegistryAssumption DEF HubInv
    <3>2. /\ IsFiniteSet(subs'[o]) /\ Cardinality(subs'[o]) <= Cardinality(subs[o])
          /\ Cardinality(subs'[o]) \in Nat
      BY <2>2, <3>1, FS_Subset, FS_CardinalityType
    <3>3. QED
      BY <3>1, <3>2
  <2>4. \A v \in Viewers : pc'[v] = "in" => v \in subs'[ref'[v]]
    BY <1>0, <2>2 DEF HubInv
  <2>5. QED
    BY <1>0, <2>1, <2>3, <2>4 DEF HubInv
<1>3. QED
    BY <1>1, <1>2 DEF Handlers

LEMMA HubStep ==
    ASSUME TypeOK, HubInv, [Next]_vars
    PROVE  HubInv'
<1>1. ASSUME NEW h \in Handlers, NEW i \in Ids, GetOrCreate(h, i) PROVE HubInv'
  <2>1. \A g \in Handlers : pc'[g] = "in" => pc[g] = "in" /\ ref'[g] = ref[g]
    BY <1>1 DEF GetOrCreate, TypeOK
  <2>2. QED
    BY <1>1, <2>1, HubSame DEF GetOrCreate
<1>2. ASSUME NEW h \in Handlers, Refused(h) PROVE HubInv'
  <2>1. \A g \in Handlers : pc'[g] = "in" => pc[g] = "in" /\ ref'[g] = ref[g]
    BY <1>2 DEF Refused, Finish, TypeOK
  <2>2. QED
    BY <1>2, <2>1, HubSame DEF Refused, hubVars
<1>3. CASE ReaperStep \/ UNCHANGED vars
  <2>1. UNCHANGED <<hasPub, subs, pc, ref>>
    BY <1>3 DEF ReaperStep, ReapStart, ReapStats, ReapDelete, ReapEnd, vars,
                hubVars, procVars
  <2>2. QED
    BY <2>1, HubSame
<1>4. QED
    BY <1>1, <1>2, <1>3, HubEnter, HubExit DEF Next

LEMMA HubInvariant == Spec => []HubInv
<1>1. Init => HubInv
    BY FS_EmptySet, RegistryAssumption DEF Init, HubInv, Handlers
<1>2. QED
    BY <1>1, HubStep, TableInvariant, PTL DEF Spec, TableInv

\* The caps of the relay hold whatever handlers and the reaper do: entries in
\* the table, one publisher and so many viewers per hub, orphaned or not.
THEOREM CapsHoldHolds == Spec => []CapsHold
<1>1. TableInv /\ HubInv => CapsHold
    BY DEF TableInv, HubInv, CapsHold
<1>2. QED
    BY <1>1, TableInvariant, HubInvariant, PTL

-----------------------------------------------------------------------------
(* Who can lose the table entry.                                           *)

\* Between Stats and the delete, those in the doomed hub have come late.
OrphanInv ==
    /\ OnlyLateEntrantsOrphaned
    /\ \A h \in Handlers : pc[h] = "in" /\ Doomed(ref[h]) => late[h]

LEMMA OrphanStep ==
    ASSUME TableInv, HubInv, OrphanInv, [Next]_vars
    PROVE  OrphanInv'
<1>0. /\ TypeOK /\ Handlers = Pubs \cup Viewers
      /\ None \notin Objs
    BY RegistryAssumption DEF TableInv, Handlers
<1> USE DEF OrphanInv, OnlyLateEntrantsOrphaned
<1>1. ASSUME NEW h \in Handlers, NEW i \in Ids, GetOrCreate(h, i)
      PROVE  OrphanInv'
  <2>1. \A g \in Handlers : pc'[g] = "in" => /\ pc[g] = "in" /\ ref'[g] = ref[g]
                                             /\ ref[g] \in Objs
    BY <1>0, <1>1 DEF GetOrCreate, TypeOK
  <2>2. reap' = "off" /\ late' = late
    BY <1>1 DEF GetOrCreate, reapVars
  <2>3. \A j \in Ids : channels'[j] = channels[j] \/ channels[j] = None
    BY <1>0, <1>1 DEF GetOrCreate, TypeOK
  <2>4. \A o \in Objs : Orphan(o)' => Orphan(o)
    BY <1>0, <2>3 DEF Orphan
  <2>5. QED
    BY <2>1, <2>2, <2>4 DEF Doomed, Orphan
<1>2. ASSUME NEW h \in Handlers, Enter(h) PROVE OrphanInv'
  <2>1. /\ UNCHANGED <<channels, reap, rid, ref>>
        /\ \A g \in Handlers : g # h => pc'[g] = pc[g] /\ late'[g] = late[g]
        /\ late'[h] <=> Orphan(ref[h]) \/ Doomed(ref[h])
    BY <1>0, <1>2 DEF Enter, TypeOK, reapVars
  <2>2. \A o : (Orphan(o)' <=> Orphan(o)) /\ (Doomed(o)' <=> Doomed(o))
    BY <2>1 DEF Orphan, Doomed
  <2>3. QED
    BY <2>1, <2>2 DEF Orphan, Doomed
<1>3. ASSUME NEW h \in Handlers, Refused(h) \/ Exit(h) PROVE OrphanInv'
  <2>1. UNCHANGED <<channels, reap, rid>> /\ Finish(h)
    BY <1>3 DEF Refused, Exit, hubVars, reapVars
  <2>2. \A g \in Handlers : pc'[g] = "in" => /\ pc[g] = "in" /\ ref'[g] = ref[g]
                                             /\ late'[g] = late[g]
    BY <1>0, <2>1 DEF Finish, TypeOK
  <2>3. QED
    BY <2>1, <2>2 DEF Orphan, Doomed
<1>4. CASE ReapStart \/ ReapEnd
    BY <1>4 DEF ReapStart, ReapEnd, hubVars, procVars, Orphan, Doomed
<1>5. ASSUME NEW i \in Ids, ReapStats(i) PROVE OrphanInv'
  <2>1. UNCHANGED <<channels, hasPub, subs, pc, ref, late>> /\ reap = "scan"
    BY <1>5 DEF ReapStats, hubVars, procVars
  <2>2. CASE StatsIdle(channels[i])
    <3>1. rid' = i
      BY <1>5, <2>2 DEF ReapStats
    <3>2. \A h \in Handlers : pc[h] = "in" => ref[h] # channels[i]
      BY <1>0, <2>2 DEF StatsIdle, HubInv
    <3>3. QED
      BY <2>1, <3>1, <3>2 DEF Orphan, Doomed
  <2>3. CASE ~StatsIdle(channels[i])
    BY <1>5, <2>1, <2>3 DEF ReapStats, Orphan, Doomed
  <2>4. QED
    BY <2>2, <2>3
<1>6. CASE ReapDelete
  <2>1. /\ UNCHANGED <<pc, ref, late>> /\ reap = "found" /\ reap' = "scan"
        /\ \A j \in Ids : j # rid => channels'[j] = channels[j]
    BY <1>0, <1>6 DEF ReapDelete, procVars, TypeOK
  <2>2. \A o : Orphan(o)' => Orphan(o) \/ Doomed(o)
    BY <2>1 DEF Orphan, Doomed
  <2>3. QED
    BY <2>1, <2>2 DEF Doomed, Orphan
<1>7. CASE UNCHANGED vars
    BY <1>7 DEF vars, hubVars, procVars, reapVars, Orphan, Doomed
<1>8. QED
    BY <1>1, <1>2, <1>3, <1>4, <1>5, <1>6, <1>7 DEF Next, ReaperStep

\* Reap never takes the entry from under a handler that was in the hub when
\* Stats looked; only one that slipped in after it can be orphaned.
THEOREM OnlyLateEntrantsOrphanedHolds == Spec => []OnlyLateEntrantsOrphaned
<1>1. Init => OrphanInv
    BY DEF Init, OrphanInv, OnlyLateEntrantsOrphaned
<1>2. OrphanInv => OnlyLateEntrantsOrphaned
    BY DEF OrphanInv
<1>3. QED
    BY <1>1, <1>2, OrphanStep, TableInvariant, HubInvariant, PTL DEF Spec
=============================================================================

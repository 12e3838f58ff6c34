---------------------------- MODULE SessionProofs ---------------------------
(***************************************************************************)
(* Proofs about Session, for any track lists, any number of pages and mock *)
(* subscribers and any queue length.                                       *)
(***************************************************************************)
EXTENDS Session, TLAPS, WellFoundedInduction

-----------------------------------------------------------------------------
(* What a subscriber's queue says.                                         *)

Index(l) == indexTracks(<<>>, l)

\* A list that the subscriber decodes.
Taken(m) == IsList(m) /\ m.list \notin Refused

\* A subscriber that knows f puts m in the right lane, if m is audio that was
\* sent behind its announcement.
Routes(f, m) ==
    m.type = "AUDIO_OPUS" /\ m.led => m.track \in DOMAIN f /\ f[m.track] = m.slug

NoList(q, a, b) == \A k \in a..b : ~IsList(q[k])

\* Every message is routed right by what the subscriber will know when it comes
\* to it: the last list before it in the queue, or, if there is none and no list
\* was missed, what it knows now.
Consistent(q, f, ms) ==
    /\ \A i, j \in 1..Len(q) :
        i < j /\ IsList(q[i]) /\ NoList(q, i + 1, j - 1) => Routes(Index(q[i].list), q[j])
    /\ ~ms => \A j \in 1..Len(q) : NoList(q, 1, j - 1) => Routes(f, q[j])

\* Having read the queue, the subscriber will know the list l.
Current(q, f, ms, l) ==
    /\ \A i \in 1..Len(q) :
        IsList(q[i]) /\ NoList(q, i + 1, Len(q)) => Index(q[i].list) = Index(l)
    /\ ~ms /\ NoList(q, 1, Len(q)) => f = Index(l)

LEMMA IndexIsFresh == \A f, l : indexTracks(f, l) = Index(l)
    BY DEF indexTracks, Index

LEMMA EmptyQueue ==
    ASSUME NEW f, NEW ms, NEW l
    PROVE  /\ Consistent(<<>>, f, ms)
           /\ (~ms => f = Index(l)) <=> Current(<<>>, f, ms, l)
<1>1. Len(<<>>) = 0 /\ \A j \in 1..Len(<<>>) : FALSE
    OBVIOUS
<1>2. NoList(<<>>, 1, Len(<<>>))
    BY <1>1 DEF NoList
<1>3. QED
    BY <1>1, <1>2 DEF Consistent, Current

\* The head leaves the queue: the subscriber has handled it, or it was dropped
\* and is accounted for in missed.
LEMMA HeadLeaves ==
    ASSUME NEW S, NEW q \in Seq(S), q # <<>>, NEW f, NEW g, NEW ms, NEW mt,
           IsList(Head(q)) => (~mt => g = Index(Head(q).list)),
           ~IsList(Head(q)) => g = f /\ (~mt => ~ms)
    PROVE  /\ Consistent(q, f, ms) => Consistent(Tail(q), g, mt)
           /\ \A l : Current(q, f, ms, l) => Current(Tail(q), g, mt, l)
<1> DEFINE t == Tail(q)
<1>0. /\ Len(q) \in Nat \ {0} /\ Len(t) = Len(q) - 1 /\ Head(q) = q[1]
      /\ \A k \in 1..Len(t) : t[k] = q[k + 1]
    OBVIOUS
<1> HIDE DEF t
<1>1. ASSUME NEW a \in Nat \ {0}, NEW b \in Int, b <= Len(t), NoList(t, a, b)
      PROVE  NoList(q, a + 1, b + 1)
  <2> SUFFICES ASSUME NEW k \in (a + 1)..(b + 1) PROVE ~IsList(q[k])
    BY DEF NoList
  <2>1. k - 1 \in a..b /\ k - 1 \in 1..Len(t) /\ (k - 1) + 1 = k
    BY <1>0, <1>1
  <2>2. t[k - 1] = q[k] /\ ~IsList(t[k - 1])
    BY <1>0, <1>1, <2>1 DEF NoList
  <2>3. QED
    BY <2>2
<1>2. ASSUME NEW b \in Int, NoList(q, 2, b), ~IsList(q[1]) PROVE NoList(q, 1, b)
  <2>1. \A k \in 1..b : k = 1 \/ k \in 2..b
    BY <1>2
  <2>2. QED
    BY <1>2, <2>1 DEF NoList
<1>3. ASSUME Consistent(q, f, ms) PROVE Consistent(t, g, mt)
  <2>1. ASSUME NEW i \in 1..Len(t), NEW j \in 1..Len(t), i < j, IsList(t[i]),
               NoList(t, i + 1, j - 1)
        PROVE  Routes(Index(t[i].list), t[j])
    <3>1. /\ i + 1 \in 1..Len(q) /\ j + 1 \in 1..Len(q) /\ i + 1 < j + 1
          /\ (j + 1) - 1 = (j - 1) + 1 /\ i + 1 \in Nat \ {0} /\ j - 1 \in Int
          /\ j - 1 <= Len(t)
      BY <1>0, <2>1
    <3>2. t[i] = q[i + 1] /\ t[j] = q[j + 1]
      BY <1>0
    <3>3. NoList(q, (i + 1) + 1, (j + 1) - 1)
      <4>1. NoList(q, (i + 1) + 1, (j - 1) + 1)
        BY <1>1, <2>1, <3>1
      <4>2. QED
        BY <3>1, <4>1
    <3>4. QED
      BY <1>3, <2>1, <3>1, <3>2, <3>3 DEF Consistent
  <2>2. ASSUME ~mt, NEW j \in 1..Len(t), NoList(t, 1, j - 1) PROVE Routes(g, t[j])
    <3>1. /\ 1 \in 1..Len(q) /\ j + 1 \in 1..Len(q) /\ 1 < j + 1
          /\ (j - 1) + 1 = (j + 1) - 1 /\ j - 1 \in Int /\ j - 1 <= Len(t)
          /\ (j + 1) - 1 \in Int
      BY <1>0
    <3>2. NoList(q, 1 + 1, (j + 1) - 1)
      <4>1. NoList(q, 1 + 1, (j - 1) + 1)
        BY <1>1, <2>2, <3>1
      <4>2. QED
        BY <3>1, <4>1
    <3>3. t[j] = q[j + 1]
      BY <1>0
    <3>4. CASE IsList(q[1])
      <4>1. g = Index(q[1].list)
        BY <1>0, <2>2, <3>4
      <4>2. QED
        BY <1>3, <3>1, <3>2, <3>3, <3>4, <4>1 DEF Consistent
    <3>5. CASE ~IsList(q[1])
      <4>1. g = f /\ ~ms
        BY <1>0, <2>2, <3>5
      <4>2. NoList(q, 1, (j + 1) - 1)
        BY <1>2, <3>1, <3>2, <3>5
      <4>3. QED
        BY <1>3, <3>1, <3>3, <4>1, <4>2 DEF Consistent
    <3>6. QED
      BY <3>4, <3>5
  <2>3. QED
    BY <2>1, <2>2 DEF Consistent
<1>4. ASSUME NEW l, Current(q, f, ms, l) PROVE Current(t, g, mt, l)
  <2>0. Len(t) + 1 = Len(q) /\ Len(t) \in Int /\ Len(t) <= Len(t)
    BY <1>0
  <2>1. ASSUME NEW i \in 1..Len(t), IsList(t[i]), NoList(t, i + 1, Len(t))
        PROVE  Index(t[i].list) = Index(l)
    <3>1. i + 1 \in 1..Len(q) /\ i + 1 \in Nat \ {0} /\ t[i] = q[i + 1]
      BY <1>0
    <3>2. NoList(q, (i + 1) + 1, Len(q))
      BY <1>1, <2>0, <2>1, <3>1
    <3>3. QED
      BY <1>4, <2>1, <3>1, <3>2 DEF Current
  <2>2. ASSUME ~mt, NoList(t, 1, Len(t)) PROVE g = Index(l)
    <3>1. 1 \in 1..Len(q) /\ Len(q) \in Int
      BY <1>0
    <3>2. NoList(q, 1 + 1, Len(q))
      BY <1>1, <2>0, <2>2
    <3>3. CASE IsList(q[1])
      BY <1>0, <1>4, <2>2, <3>1, <3>2, <3>3 DEF Current
    <3>4. CASE ~IsList(q[1])
      <4>1. NoList(q, 1, Len(q))
        BY <1>2, <3>1, <3>2, <3>4
      <4>2. QED
        BY <1>0, <1>4, <2>2, <3>4, <4>1 DEF Current
    <3>5. QED
      BY <3>3, <3>4
  <2>3. QED
    BY <2>1, <2>2 DEF Current
<1>5. QED
    BY <1>3, <1>4 DEF t

\* A message is queued: right audio behind the current list, or one that is not
\* routed at all.
LEMMA MessageQueued ==
    ASSUME NEW S, NEW q \in Seq(S), NEW m \in S, NEW f, NEW ms, NEW l
    PROVE  /\ /\ Consistent(q, f, ms)
              /\ \/ \A g : Routes(g, m)
                 \/ Current(q, f, ms, l) /\ Routes(Index(l), m)
              => Consistent(Append(q, m), f, ms)
           /\ /\ Current(q, f, ms, l)
              /\ ~IsList(m)
              => Current(Append(q, m), f, ms, l)
           /\ IsList(m) /\ Index(m.list) = Index(l) => Current(Append(q, m), f, ms, l)
<1> DEFINE r == Append(q, m)
           n == Len(q)
<1>0. /\ n \in Nat /\ Len(r) = n + 1 /\ r[n + 1] = m
      /\ \A k \in 1..n : r[k] = q[k]
    OBVIOUS
<1> HIDE DEF r, n
<1>1. \A k \in 1..(n + 1) : k \in 1..n \/ k = n + 1
    BY <1>0
<1>2. ASSUME NEW a \in Nat \ {0}, NEW b \in Int, b <= n, NoList(r, a, b)
      PROVE  NoList(q, a, b)
  <2> SUFFICES ASSUME NEW k \in a..b PROVE ~IsList(q[k])
    BY DEF NoList
  <2>1. k \in 1..n
    BY <1>0, <1>2
  <2>2. r[k] = q[k]
    BY <1>0, <2>1
  <2>3. QED
    BY <1>2, <2>2 DEF NoList
<1>3. ASSUME Consistent(q, f, ms),
             \/ \A g : Routes(g, m)
             \/ Current(q, f, ms, l) /\ Routes(Index(l), m)
      PROVE  Consistent(r, f, ms)
  <2>1. ASSUME NEW i \in 1..(n + 1), NEW j \in 1..(n + 1), i < j, IsList(r[i]),
               NoList(r, i + 1, j - 1)
        PROVE  Routes(Index(r[i].list), r[j])
    <3>1. i \in 1..n /\ i + 1 \in Nat \ {0} /\ j - 1 \in Int /\ j - 1 <= n
      BY <1>0, <2>1
    <3>2. r[i] = q[i] /\ NoList(q, i + 1, j - 1)
      BY <1>0, <1>2, <2>1, <3>1
    <3>3. CASE j \in 1..n
      <4>1. r[j] = q[j]
        BY <1>0, <3>3
      <4>2. QED
        BY <1>3, <2>1, <3>1, <3>2, <3>3, <4>1 DEF Consistent, n
    <3>4. CASE j = n + 1
      <4>1. r[j] = m /\ j - 1 = n
        BY <1>0, <3>4
      <4>2. CASE \A g : Routes(g, m)
        BY <4>1, <4>2
      <4>3. CASE Current(q, f, ms, l) /\ Routes(Index(l), m)
        <5>1. Index(q[i].list) = Index(l)
          BY <2>1, <3>1, <3>2, <4>1, <4>3 DEF Current, n
        <5>2. QED
          BY <3>2, <4>1, <4>3, <5>1
      <4>4. QED
        BY <1>3, <4>2, <4>3
    <3>5. QED
      BY <1>1, <3>3, <3>4
  <2>2. ASSUME ~ms, NEW j \in 1..(n + 1), NoList(r, 1, j - 1) PROVE Routes(f, r[j])
    <3>1. j - 1 \in Int /\ j - 1 <= n /\ 1 \in Nat \ {0}
      BY <1>0
    <3>2. NoList(q, 1, j - 1)
      BY <1>2, <2>2, <3>1
    <3>3. CASE j \in 1..n
      <4>1. r[j] = q[j]
        BY <1>0, <3>3
      <4>2. QED
        BY <1>3, <2>2, <3>2, <3>3, <4>1 DEF Consistent, n
    <3>4. CASE j = n + 1
      <4>1. r[j] = m /\ j - 1 = n
        BY <1>0, <3>4
      <4>2. CASE \A g : Routes(g, m)
        BY <4>1, <4>2
      <4>3. CASE Current(q, f, ms, l) /\ Routes(Index(l), m)
        <5>1. f = Index(l)
          BY <2>2, <3>2, <4>1, <4>3 DEF Current, n
        <5>2. QED
          BY <4>1, <4>3, <5>1
      <4>4. QED
        BY <1>3, <4>2, <4>3
    <3>5. QED
      BY <1>1, <3>3, <3>4
  <2>3. QED
    BY <1>0, <2>1, <2>2 DEF Consistent
<1>4. ASSUME Current(q, f, ms, l), ~IsList(m) PROVE Current(r, f, ms, l)
  <2>1. ASSUME NEW i \in 1..(n + 1), IsList(r[i]), NoList(r, i + 1, n + 1)
        PROVE  Index(r[i].list) = Index(l)
    <3>1. i \in 1..n /\ r[i] = q[i]
      BY <1>0, <1>1, <1>4, <2>1
    <3>2. i + 1 \in Nat \ {0} /\ n \in Int /\ n <= n /\ \A k \in (i + 1)..n : k \in (i + 1)..(n + 1)
      BY <1>0, <3>1
    <3>3. NoList(r, i + 1, n)
      BY <2>1, <3>2 DEF NoList
    <3>4. NoList(q, i + 1, n)
      BY <1>2, <3>2, <3>3
    <3>5. QED
      BY <1>4, <2>1, <3>1, <3>4 DEF Current, n
  <2>2. ASSUME ~ms, NoList(r, 1, n + 1) PROVE f = Index(l)
    <3>1. 1 \in Nat \ {0} /\ n \in Int /\ n <= n /\ \A k \in 1..n : k \in 1..(n + 1)
      BY <1>0
    <3>2. NoList(r, 1, n)
      BY <2>2, <3>1 DEF NoList
    <3>3. NoList(q, 1, n)
      BY <1>2, <3>1, <3>2
    <3>4. QED
      BY <1>4, <2>2, <3>3 DEF Current, n
  <2>3. QED
    BY <1>0, <2>1, <2>2 DEF Current
<1>5. ASSUME IsList(m), Index(m.list) = Index(l) PROVE Current(r, f, ms, l)
  <2>0. \A a \in 1..(n + 1) : n + 1 \in a..(n + 1)
    BY <1>0
  <2>1. ASSUME NEW i \in 1..(n + 1), NoList(r, i + 1, n + 1) PROVE i = n + 1
    <3>1. CASE i # n + 1
      <4>1. n + 1 \in (i + 1)..(n + 1)
        BY <1>0, <3>1
      <4>2. QED
        BY <1>0, <1>5, <2>1, <4>1 DEF NoList
    <3>2. QED
      BY <3>1
  <2>2. ~NoList(r, 1, n + 1)
    <3>1. n + 1 \in 1..(n + 1)
      BY <1>0
    <3>2. QED
      BY <1>0, <1>5, <3>1 DEF NoList
  <2>3. QED
    BY <1>0, <1>5, <2>1, <2>2 DEF Current
<1>6. QED
    BY <1>3, <1>4, <1>5 DEF r
\* A nonempty set of positions has a last one.
LEMMA LastPosition ==
    ASSUME NEW n \in Nat, NEW P \in SUBSET (1..n), P # {}
    PROVE  Max(P) \in P /\ \A i \in P : i <= Max(P)
<1> DEFINE D == {n - i : i \in P}
<1>1. D \subseteq Nat /\ D # {}
  <2>1. \A i \in P : n - i \in Nat
    OBVIOUS
  <2>2. QED
    BY <2>1
<1>2. PICK d \in D : \A e \in D : d <= e
  <2> DEFINE R == {ss \in Nat \X Nat : ss[1] < ss[2]}
  <2>1. IsWellFoundedOn(R, Nat)
    BY NatLessThanWellFounded, Zenon DEF OpToRel
  <2> HIDE DEF R, D
  <2>2. PICK d \in D : \A e \in D : ~(<<e, d>> \in R)
    BY <1>1, <2>1, WFMin
  <2>3. \A x, y \in Nat : x < y => <<x, y>> \in R
    BY DEF R
  <2>4. \A e \in D : d <= e
    <3> SUFFICES ASSUME NEW e \in D PROVE d <= e
      OBVIOUS
    <3>1. d \in Nat /\ e \in Nat
      BY <1>1, <2>2
    <3>2. ~(e < d)
      BY <2>2, <2>3, <3>1, Zenon
    <3>3. QED
      BY <3>1, <3>2
  <2>5. QED
    BY <2>4
<1>3. PICK i \in P : d = n - i
    BY <1>2
<1>4. \A j \in P : n - j \in D /\ j \in Int
    OBVIOUS
<1> HIDE DEF D
<1>5. \A j \in P : i >= j
    <2> SUFFICES ASSUME NEW j \in P PROVE i >= j
      OBVIOUS
    <2>1. n - i <= n - j /\ i \in Int /\ j \in Int
      BY <1>2, <1>3, <1>4
    <2>2. QED
      BY <2>1
<1>6. Max(P) \in P /\ \A j \in P : Max(P) >= j
    BY <1>5 DEF Max
<1>7. QED
    BY <1>4, <1>6

-----------------------------------------------------------------------------
(* Types.                                                                  *)

AllLists == Lists \cup {MockTracks}
Maps == {<<>>} \cup {Index(l) : l \in AllLists}

TypeInv ==
    /\ pub \in PubStates /\ mock \in BOOLEAN
    /\ list \in AllLists \cup {<<>>} /\ (pub # "off" => list \in AllLists)
    /\ joined \subseteq Viewers
    /\ queue \in [Viewers -> Seq(Messages)]
    /\ \A v \in Viewers : /\ Len(queue[v]) <= SendBuf
                          /\ v \notin joined => queue[v] = <<>>
    /\ idToSlug \in [Viewers -> Maps]
    /\ missed \in [Viewers -> BOOLEAN]

LEMMA TypeInvImplies == TypeInv => TypeOK
<1> SUFFICES ASSUME TypeInv PROVE TypeOK
    OBVIOUS
<1>1. \A v \in Viewers : \A i \in 1..Len(queue[v]) : queue[v][i] \in Messages
    BY DEF TypeInv
<1>2. \A v \in Viewers : idToSlug[v] \in
        {<<>>} \cup {indexTracks(<<>>, l) : l \in Lists \cup {MockTracks}}
    BY DEF TypeInv, Maps, Index, AllLists
<1>3. list \in Lists \cup {MockTracks, <<>>}
    BY DEF TypeInv, AllLists
<1>4. QED
    BY <1>1, <1>2, <1>3, Zenon DEF TypeInv, TypeOK

LEMMA HelloFacts == Hello \in Messages /\ ~IsList(Hello) /\ \A g : Routes(g, Hello)
<1>1. Hello \in [type : {"HELLO"}] /\ Hello.type = "HELLO"
    BY DEF Hello
<1>2. Hello \in Messages
    BY <1>1 DEF Messages
<1>3. QED
    BY <1>1, <1>2 DEF IsList, Routes

LEMMA TrackListFacts ==
    ASSUME list \in AllLists
    PROVE  /\ TrackListMsg \in Messages /\ IsList(TrackListMsg)
           /\ TrackListMsg.list = list /\ \A g : Routes(g, TrackListMsg)
<1>1. /\ TrackListMsg \in [type : {"TRACK_LIST"}, list : Lists \cup {MockTracks}]
      /\ TrackListMsg.type = "TRACK_LIST" /\ TrackListMsg.list = list
    BY DEF TrackListMsg, AllLists
<1>2. TrackListMsg \in Messages
    BY <1>1 DEF Messages
<1>3. QED
    BY <1>1, <1>2 DEF IsList, Routes

LEMMA ListTypes ==
    ASSUME NEW l \in AllLists, NEW id \in TrackIds(l)
    PROVE  id \in Nat /\ Index(l)[id] \in STRING /\ id \in DOMAIN Index(l)
<1>1. l \in Seq([id : Nat, slug : STRING])
    BY SessionAssumption DEF AllLists
<1>2. \A i \in 1..Len(l) : l[i].id \in Nat /\ l[i].slug \in STRING
  <2> DEFINE Row == [id : Nat, slug : STRING]
  <2>1. \A i \in 1..Len(l) : l[i] \in Row
    <3> HIDE DEF Row
    <3>1. l \in Seq(Row)
      BY <1>1 DEF Row
    <3>2. QED
      BY <3>1
  <2>2. QED
    BY <2>1
<1>3. \E i \in 1..Len(l) : l[i].id = id
    BY DEF TrackIds
<1>4. (CHOOSE i \in 1..Len(l) : l[i].id = id) \in 1..Len(l)
    BY <1>3
<1>5. Index(l)[id] = l[CHOOSE i \in 1..Len(l) : l[i].id = id].slug /\ id \in DOMAIN Index(l)
    BY DEF Index, indexTracks
<1>6. QED
    BY <1>2, <1>3, <1>4, <1>5

LEMMA AudioFacts ==
    ASSUME list \in AllLists, NEW id \in TrackIds(list)
    PROVE  /\ Audio(id) \in Messages /\ ~IsList(Audio(id))
           /\ Routes(Index(list), Audio(id))
           /\ pub # "up" => \A g : Routes(g, Audio(id))
<1>1. id \in Nat /\ Index(list)[id] \in STRING /\ id \in DOMAIN Index(list)
    BY ListTypes
<1>2. /\ Audio(id).type = "AUDIO_OPUS" /\ Audio(id).track = id
      /\ Audio(id).slug = Index(list)[id]
    BY DEF Audio, Index
<1>3. Audio(id).led = (pub = "up")
    BY Zenon DEF Audio
<1>4. Audio(id) \in Messages
  <2> DEFINE b == pub = "up"
             s == Index(list)[id]
  <2>1. b \in BOOLEAN /\ s \in STRING
    BY <1>1
  <2>2. Audio(id) = [type |-> "AUDIO_OPUS", track |-> id, slug |-> s, led |-> b]
    BY Zenon DEF Audio, Index
  <2> HIDE DEF b, s
  <2>3. [type |-> "AUDIO_OPUS", track |-> id, slug |-> s, led |-> b]
            \in [type : {"AUDIO_OPUS"}, track : Nat, slug : STRING, led : BOOLEAN]
    BY <1>1, <2>1
  <2>4. QED
    BY <2>2, <2>3 DEF Messages
<1>5. ~IsList(Audio(id)) /\ Routes(Index(list), Audio(id))
    BY <1>1, <1>2 DEF IsList, Routes
<1>6. pub # "up" => \A g : Routes(g, Audio(id))
    BY <1>3, Zenon DEF Routes
<1>7. QED
    BY <1>4, <1>5, <1>6

LEMMA FingerprintFacts ==
    ASSUME NEW id \in Nat
    PROVE  /\ Fingerprint(id) \in Messages /\ ~IsList(Fingerprint(id))
           /\ \A g : Routes(g, Fingerprint(id))
<1>1. /\ Fingerprint(id) \in [type : {"FINGERPRINT"}, track : Nat]
      /\ Fingerprint(id).type = "FINGERPRINT"
    BY DEF Fingerprint
<1>2. Fingerprint(id) \in Messages
    BY <1>1 DEF Messages
<1>3. QED
    BY <1>1, <1>2 DEF IsList, Routes

-----------------------------------------------------------------------------
(* The hub.                                                                *)

\* What Broadcast does to one subscriber.
LEMMA BroadcastTo ==
    ASSUME TypeInv, NEW m \in Messages, Broadcast(m), NEW v \in Viewers
    PROVE  /\ idToSlug' = idToSlug /\ joined' = joined
           /\ v \notin joined =>
                /\ queue'[v] = <<>> /\ queue[v] = <<>>
                /\ IsList(m) => (missed'[v] <=> Index(m.list) # idToSlug[v])
                /\ ~IsList(m) => (missed'[v] <=> missed[v])
           /\ v \in joined /\ Len(queue[v]) >= SendBuf =>
                /\ queue[v] # <<>> /\ queue'[v] = Append(Tail(queue[v]), m)
                /\ IsList(Head(queue[v])) =>
                    (missed'[v] <=> Index(Head(queue[v]).list) # idToSlug[v])
                /\ ~IsList(Head(queue[v])) => (missed'[v] <=> missed[v])
           /\ v \in joined /\ ~(Len(queue[v]) >= SendBuf) =>
                /\ queue'[v] = Append(queue[v], m)
                /\ missed'[v] <=> missed[v]
<1> DEFINE lost == IF v \notin joined THEN m
                   ELSE IF Len(queue[v]) >= SendBuf THEN Head(queue[v]) ELSE Hello
<1>1. idToSlug' = idToSlug /\ joined' = joined
    BY DEF Broadcast, subVars
<1>2. queue'[v] = IF v \in joined THEN Deliver(queue[v], m) ELSE queue[v]
    BY DEF Broadcast
<1>3. missed'[v] = IF IsList(lost) THEN Changes(v, lost) ELSE missed[v]
    BY Zenon DEF Broadcast
<1>4. IsList(lost) => (missed'[v] <=> Index(lost.list) # idToSlug[v])
    BY <1>3, Zenon DEF Changes, Index
<1>5. ~IsList(lost) => (missed'[v] <=> missed[v])
    BY <1>3, Zenon
<1>6. v \notin joined => queue[v] = <<>>
    BY DEF TypeInv
<1>7. Len(queue[v]) >= SendBuf => queue[v] # <<>>
  <2>1. queue[v] \in Seq(Messages) /\ SendBuf \in Nat \ {0}
    BY SessionAssumption DEF TypeInv
  <2>2. QED
    BY <2>1
<1>8. CASE v \notin joined
    BY <1>1, <1>2, <1>4, <1>5, <1>6, <1>8, Zenon
<1>9. CASE v \in joined /\ Len(queue[v]) >= SendBuf
    BY <1>1, <1>2, <1>4, <1>5, <1>7, <1>9, Zenon DEF Deliver
<1>10. CASE v \in joined /\ ~(Len(queue[v]) >= SendBuf)
    BY <1>1, <1>2, <1>5, <1>10, HelloFacts, Zenon DEF Deliver
<1>11. QED
    BY <1>8, <1>9, <1>10, Zenon

LEMMA BroadcastTypes ==
    ASSUME TypeInv, NEW m \in Messages, Broadcast(m)
    PROVE  /\ joined' \subseteq Viewers
           /\ queue' \in [Viewers -> Seq(Messages)]
           /\ \A v \in Viewers : /\ Len(queue'[v]) <= SendBuf
                                 /\ v \notin joined' => queue'[v] = <<>>
           /\ idToSlug' \in [Viewers -> Maps] /\ missed' \in [Viewers -> BOOLEAN]
<1>1. joined' = joined /\ idToSlug' = idToSlug
    BY DEF Broadcast, subVars
<1>2. ASSUME NEW v \in Viewers
      PROVE  /\ queue'[v] \in Seq(Messages) /\ Len(queue'[v]) <= SendBuf
             /\ v \notin joined => queue'[v] = <<>>
  <2>0. /\ queue[v] \in Seq(Messages) /\ Len(queue[v]) \in Nat
        /\ SendBuf \in Nat \ {0} /\ Len(queue[v]) <= SendBuf
    BY SessionAssumption DEF TypeInv
  <2>1. CASE v \notin joined
    <3>1. queue'[v] = <<>> /\ queue[v] = <<>>
      BY <2>1, BroadcastTo
    <3>2. QED
      BY <2>0, <3>1
  <2>2. CASE v \in joined /\ Len(queue[v]) >= SendBuf
    <3>1. queue[v] # <<>> /\ queue'[v] = Append(Tail(queue[v]), m)
      BY <2>2, BroadcastTo
    <3>2. /\ Append(Tail(queue[v]), m) \in Seq(Messages)
          /\ Len(Append(Tail(queue[v]), m)) = Len(queue[v])
      BY <2>0, <3>1
    <3>3. QED
      BY <2>0, <2>2, <3>1, <3>2
  <2>3. CASE v \in joined /\ ~(Len(queue[v]) >= SendBuf)
    <3>1. queue'[v] = Append(queue[v], m)
      BY <2>3, BroadcastTo
    <3>2. /\ Append(queue[v], m) \in Seq(Messages)
          /\ Len(Append(queue[v], m)) = Len(queue[v]) + 1
      BY <2>0
    <3>3. QED
      BY <2>0, <2>3, <3>1, <3>2
  <2>4. QED
    BY <2>1, <2>2, <2>3
<1>3. queue' \in [Viewers -> Seq(Messages)]
    BY <1>2 DEF Broadcast
<1>4. missed' \in [Viewers -> BOOLEAN]
  <2> DEFINE lost(v) == IF v \notin joined THEN m
                        ELSE IF Len(queue[v]) >= SendBuf THEN Head(queue[v]) ELSE Hello
             b(v) == IF IsList(lost(v)) THEN Changes(v, lost(v)) ELSE missed[v]
  <2>1. missed' = [v \in Viewers |-> b(v)]
    BY Zenon DEF Broadcast
  <2>2. \A v \in Viewers : missed[v] \in BOOLEAN
    BY DEF TypeInv
  <2> HIDE DEF lost
  <2>3. \A v \in Viewers : b(v) \in BOOLEAN
    BY <2>2, Zenon DEF Changes
  <2> HIDE DEF b
  <2>4. QED
    BY <2>1, <2>3, Zenon
<1>5. QED
    BY <1>1, <1>2, <1>3, <1>4 DEF TypeInv

LEMMA ConsistentMissed ==
    ASSUME NEW q, NEW f, NEW ms, NEW mt, ms <=> mt, Consistent(q, f, ms)
    PROVE  Consistent(q, f, mt)
  BY DEF Consistent

LEMMA CurrentMissed ==
    ASSUME NEW q, NEW f, NEW ms, NEW mt, NEW l, ms <=> mt, Current(q, f, ms, l)
    PROVE  Current(q, f, mt, l)
  BY DEF Current

LEMMA BroadcastConsistent ==
    ASSUME TypeInv, NEW m \in Messages, Broadcast(m), NEW v \in Viewers,
           Consistent(queue[v], idToSlug[v], missed[v]),
           \/ \A g : Routes(g, m)
           \/ /\ Current(queue[v], idToSlug[v], missed[v], list)
              /\ Routes(Index(list), m)
    PROVE  Consistent(queue'[v], idToSlug'[v], missed'[v])
<1>0. queue[v] \in Seq(Messages) /\ idToSlug' = idToSlug
    BY BroadcastTo DEF TypeInv
<1>1. CASE v \notin joined
  <2>1. queue'[v] = <<>>
    BY <1>1, BroadcastTo
  <2>2. QED
    BY <2>1, EmptyQueue
<1>2. CASE v \in joined /\ Len(queue[v]) >= SendBuf
  <2> DEFINE t == Tail(queue[v])
  <2>1. /\ queue[v] # <<>> /\ queue'[v] = Append(t, m)
        /\ IsList(Head(queue[v])) => (~missed'[v] => idToSlug[v] = Index(Head(queue[v]).list))
        /\ ~IsList(Head(queue[v])) => (~missed'[v] => ~missed[v])
    BY <1>2, BroadcastTo
  <2>2. t \in Seq(Messages)
    BY <1>0, <2>1
  <2>3. /\ Consistent(t, idToSlug[v], missed'[v])
        /\ \A l : Current(queue[v], idToSlug[v], missed[v], l)
                    => Current(t, idToSlug[v], missed'[v], l)
    BY <1>0, <2>1, HeadLeaves
  <2> HIDE DEF t
  <2>4. Consistent(Append(t, m), idToSlug[v], missed'[v])
    BY <2>2, <2>3, MessageQueued
  <2>5. QED
    BY <1>0, <2>1, <2>4
<1>3. CASE v \in joined /\ ~(Len(queue[v]) >= SendBuf)
  <2>1. queue'[v] = Append(queue[v], m) /\ (missed'[v] <=> missed[v])
    BY <1>3, BroadcastTo
  <2>2. Consistent(Append(queue[v], m), idToSlug[v], missed[v])
    BY <1>0, MessageQueued
  <2>3. QED
    BY <1>0, <2>1, <2>2, ConsistentMissed
<1>4. QED
    BY <1>1, <1>2, <1>3

LEMMA BroadcastCurrent ==
    ASSUME TypeInv, NEW m \in Messages, Broadcast(m), NEW v \in Viewers, NEW l,
           \/ ~IsList(m) /\ Current(queue[v], idToSlug[v], missed[v], l)
           \/ IsList(m) /\ Index(m.list) = Index(l)
    PROVE  Current(queue'[v], idToSlug'[v], missed'[v], l)
<1>0. queue[v] \in Seq(Messages) /\ idToSlug' = idToSlug
    BY BroadcastTo DEF TypeInv
<1>1. CASE v \notin joined
  <2>1. /\ queue'[v] = <<>> /\ queue[v] = <<>>
        /\ IsList(m) => (~missed'[v] => idToSlug[v] = Index(m.list))
        /\ ~IsList(m) => (missed'[v] <=> missed[v])
    BY <1>1, BroadcastTo
  <2>2. CASE IsList(m)
    <3>1. ~missed'[v] => idToSlug'[v] = Index(l)
      BY <1>0, <2>1, <2>2
    <3>2. QED
      BY <2>1, <3>1, EmptyQueue
  <2>3. CASE ~IsList(m)
    <3>1. ~missed[v] => idToSlug[v] = Index(l)
      BY <2>1, <2>3, EmptyQueue
    <3>2. ~missed'[v] => idToSlug'[v] = Index(l)
      BY <1>0, <2>1, <2>3, <3>1
    <3>3. QED
      BY <2>1, <3>2, EmptyQueue
  <2>4. QED
    BY <2>2, <2>3
<1>2. CASE v \in joined /\ Len(queue[v]) >= SendBuf
  <2> DEFINE t == Tail(queue[v])
  <2>1. /\ queue[v] # <<>> /\ queue'[v] = Append(t, m)
        /\ IsList(Head(queue[v])) => (~missed'[v] => idToSlug[v] = Index(Head(queue[v]).list))
        /\ ~IsList(Head(queue[v])) => (~missed'[v] => ~missed[v])
    BY <1>2, BroadcastTo
  <2>2. t \in Seq(Messages)
    BY <1>0, <2>1
  <2>3. Current(queue[v], idToSlug[v], missed[v], l) => Current(t, idToSlug[v], missed'[v], l)
    BY <1>0, <2>1, HeadLeaves
  <2> HIDE DEF t
  <2>4. Current(Append(t, m), idToSlug[v], missed'[v], l)
    BY <2>2, <2>3, MessageQueued
  <2>5. QED
    BY <1>0, <2>1, <2>4
<1>3. CASE v \in joined /\ ~(Len(queue[v]) >= SendBuf)
  <2>1. queue'[v] = Append(queue[v], m) /\ (missed'[v] <=> missed[v])
    BY <1>3, BroadcastTo
  <2>2. Current(Append(queue[v], m), idToSlug[v], missed[v], l)
    BY <1>0, MessageQueued
  <2>3. QED
    BY <1>0, <2>1, <2>2, CurrentMissed
<1>4. QED
    BY <1>1, <1>2, <1>3

-----------------------------------------------------------------------------
(* The invariant.                                                          *)

\* What each subscriber knows, will know and misses, whoever is publishing.
\* Subscribers that are away are included: they may join again.
Knows(v) ==
    /\ Consistent(queue[v], idToSlug[v], missed[v])
    /\ pub = "up" => Current(queue[v], idToSlug[v], missed[v], list)

SessionInv == TypeInv /\ \A v \in Viewers : Knows(v)

LEMMA SessionInit == Init => SessionInv
<1> SUFFICES ASSUME Init PROVE SessionInv
    OBVIOUS
<1>1. TypeInv
  <2>1. <<>> \in Seq(Messages) /\ Len(<<>>) = 0 /\ SendBuf \in Nat \ {0}
    BY SessionAssumption
  <2>2. queue \in [Viewers -> Seq(Messages)] /\ \A v \in Viewers : queue[v] = <<>>
    BY <2>1 DEF Init
  <2>3. \A v \in Viewers : Len(queue[v]) <= SendBuf
    BY <2>1, <2>2
  <2>4. idToSlug \in [Viewers -> Maps] /\ missed \in [Viewers -> BOOLEAN]
    BY DEF Init, Maps
  <2>5. mock \in BOOLEAN
    BY DEF Init
  <2>6. QED
    BY <2>2, <2>3, <2>4, <2>5 DEF Init, TypeInv, PubStates
<1>2. ASSUME NEW v \in Viewers PROVE Knows(v)
  <2>1. queue[v] = <<>> /\ pub # "up"
    BY DEF Init
  <2>2. QED
    BY <2>1, EmptyQueue DEF Knows
<1>3. QED
    BY <1>1, <1>2 DEF SessionInv

LEMMA TypeInvStep ==
    ASSUME TypeInv,
           pub' \in PubStates, mock' \in BOOLEAN,
           list' \in AllLists \cup {<<>>}, pub' # "off" => list' \in AllLists,
           joined' \subseteq Viewers,
           queue' \in [Viewers -> Seq(Messages)],
           \A v \in Viewers : /\ Len(queue'[v]) <= SendBuf
                              /\ v \notin joined' => queue'[v] = <<>>,
           idToSlug' \in [Viewers -> Maps], missed' \in [Viewers -> BOOLEAN]
    PROVE  TypeInv'
  BY Zenon DEF TypeInv

\* A message is sent while the process goes on.
LEMMA SessionBroadcast ==
    ASSUME SessionInv, NEW m \in Messages, Broadcast(m), mock' = mock, list' = list,
           pub # "off", pub' \in {pub, "list", "up"},
           \/ pub' # "up" /\ \A g : Routes(g, m)
           \/ IsList(m) /\ m.list = list /\ \A g : Routes(g, m)
           \/ pub = "up" /\ ~IsList(m) /\ Routes(Index(list), m)
    PROVE  SessionInv'
<1>0. TypeInv /\ \A v \in Viewers : Knows(v)
    BY DEF SessionInv
<1>1. TypeInv'
  <2>1. /\ pub' \in PubStates
        /\ list' \in AllLists \cup {<<>>} /\ (pub' # "off" => list' \in AllLists)
    BY <1>0 DEF TypeInv, PubStates
  <2>2. mock' \in BOOLEAN
    BY <1>0, Zenon DEF TypeInv
  <2>3. QED
    BY <1>0, <2>1, <2>2, BroadcastTypes, TypeInvStep
<1>2. ASSUME NEW v \in Viewers PROVE Knows(v)'
  <2>1. Consistent(queue'[v], idToSlug'[v], missed'[v])
    BY <1>0, BroadcastConsistent DEF Knows
  <2>2. ASSUME pub' = "up" PROVE Current(queue'[v], idToSlug'[v], missed'[v], list)
    BY <1>0, <2>2, BroadcastCurrent DEF Knows
  <2>3. QED
    BY <2>1, <2>2 DEF Knows
<1>3. QED
    BY <1>1, <1>2 DEF SessionInv

LEMMA SessionHandle ==
    ASSUME SessionInv, NEW v \in Viewers, HandleMessage(v)
    PROVE  SessionInv'
<1> DEFINE q == queue[v]
           m == Head(queue[v])
<1>0. /\ TypeInv /\ \A w \in Viewers : Knows(w)
      /\ queue \in [Viewers -> Seq(Messages)] /\ idToSlug \in [Viewers -> Maps]
      /\ missed \in [Viewers -> BOOLEAN]
    BY DEF SessionInv, TypeInv
<1>1. /\ v \in joined /\ q # <<>> /\ queue' = [queue EXCEPT ![v] = Tail(q)]
      /\ UNCHANGED <<pub, mock, list, joined>>
    BY DEF HandleMessage, pubVars
<1>2. Taken(m) => /\ idToSlug' = [idToSlug EXCEPT ![v] = Index(m.list)]
                  /\ missed' = [missed EXCEPT ![v] = FALSE]
    BY IndexIsFresh DEF HandleMessage, Taken
<1>3. ~Taken(m) => /\ idToSlug' = idToSlug
                   /\ missed' = [missed EXCEPT ![v] = IF IsList(m) THEN Changes(v, m)
                                                      ELSE missed[v]]
    BY Zenon DEF HandleMessage, Taken
<1>4. /\ q \in Seq(Messages) /\ Tail(q) \in Seq(Messages) /\ m \in Messages
      /\ Len(q) \in Nat /\ Len(Tail(q)) <= Len(q)
    BY <1>0, <1>1
<1>5. queue'[v] = Tail(q) /\ \A w \in Viewers : w # v => queue'[w] = queue[w]
    BY <1>0, <1>1
<1>6. IsList(m) => m.list \in AllLists
    BY <1>4 DEF Messages, IsList, AllLists
<1> HIDE DEF q, m
<1>7. idToSlug' \in [Viewers -> Maps] /\ missed' \in [Viewers -> BOOLEAN]
  <2>1. CASE Taken(m)
    <3>1. Index(m.list) \in Maps
      BY <1>6, <2>1 DEF Maps, Taken
    <3>2. idToSlug' \in [Viewers -> Maps]
      BY <1>0, <1>2, <2>1, <3>1
    <3>3. missed' \in [Viewers -> BOOLEAN]
      BY <1>0, <1>2, <2>1
    <3>4. QED
      BY <3>2, <3>3
  <2>2. CASE ~Taken(m)
    <3>1. missed[v] \in BOOLEAN /\ Changes(v, m) \in BOOLEAN
      BY <1>0 DEF Changes
    <3>2. missed' \in [Viewers -> BOOLEAN]
      BY <1>0, <1>3, <2>2, <3>1
    <3>3. QED
      BY <1>0, <1>3, <2>2, <3>2
  <2>3. QED
    BY <2>1, <2>2
<1>8. \A w \in Viewers : w # v => idToSlug'[w] = idToSlug[w] /\ missed'[w] = missed[w]
    BY <1>0, <1>2, <1>3
<1>9. TypeInv'
  <2>1. queue' \in [Viewers -> Seq(Messages)]
    BY <1>0, <1>1, <1>4
  <2>2. SendBuf \in Nat /\ Len(q) <= SendBuf
    BY <1>0, SessionAssumption DEF TypeInv, q
  <2>3. ASSUME NEW w \in Viewers
        PROVE  Len(queue'[w]) <= SendBuf /\ (w \notin joined' => queue'[w] = <<>>)
    <3>1. CASE w = v
      <4>1. Len(Tail(q)) \in Nat /\ Len(Tail(q)) <= SendBuf
        BY <1>4, <2>2
      <4>2. QED
        BY <1>1, <1>5, <3>1, <4>1
    <3>2. CASE w # v
      BY <1>0, <1>1, <1>5, <3>2 DEF TypeInv
    <3>3. QED
      BY <3>1, <3>2
  <2>4. /\ pub' \in PubStates /\ joined' \subseteq Viewers
        /\ list' \in AllLists \cup {<<>>} /\ (pub' # "off" => list' \in AllLists)
    BY <1>0, <1>1 DEF TypeInv
  <2>5. mock' \in BOOLEAN
    BY <1>0, <1>1, Zenon DEF TypeInv
  <2>6. QED
    BY <1>0, <1>7, <2>1, <2>3, <2>4, <2>5, TypeInvStep
<1>10. ASSUME NEW w \in Viewers PROVE Knows(w)'
  <2>1. CASE w # v
    BY <1>0, <1>1, <1>5, <1>8, <2>1 DEF Knows
  <2>2. CASE w = v
    <3>1. IsList(m) => (~missed'[v] => idToSlug'[v] = Index(m.list))
      <4>1. CASE Taken(m)
        BY <1>0, <1>2, <4>1
      <4>2. CASE IsList(m) /\ ~Taken(m)
        <5>1. missed'[v] = Changes(v, m) /\ idToSlug' = idToSlug
          BY <1>0, <1>3, <4>2
        <5>2. QED
          BY <4>2, <5>1 DEF Changes, Index
      <4>3. QED
        BY <4>1, <4>2
    <3>2. ~IsList(m) => idToSlug'[v] = idToSlug[v] /\ (~missed'[v] => ~missed[v])
      BY <1>0, <1>3 DEF Taken
    <3>3. /\ Consistent(q, idToSlug[v], missed[v])
            => Consistent(Tail(q), idToSlug'[v], missed'[v])
          /\ \A l : Current(q, idToSlug[v], missed[v], l)
                => Current(Tail(q), idToSlug'[v], missed'[v], l)
      BY <1>1, <1>4, <3>1, <3>2, HeadLeaves DEF m, q
    <3>4. /\ Consistent(q, idToSlug[v], missed[v])
          /\ pub = "up" => Current(q, idToSlug[v], missed[v], list)
      BY <1>0 DEF Knows, q
    <3>5. QED
      BY <1>1, <1>5, <2>2, <3>3, <3>4 DEF Knows
  <2>3. QED
    BY <2>1, <2>2
<1>11. QED
    BY <1>9, <1>10 DEF SessionInv

\* The queue of v is thrown away; what was in it is accounted for in missed.
LEMMA SessionAway ==
    ASSUME SessionInv, NEW v \in Viewers, NEW f \in Maps, NEW ms \in BOOLEAN,
           UNCHANGED pubVars, joined' = joined \ {v},
           queue' = [queue EXCEPT ![v] = <<>>],
           idToSlug' = [idToSlug EXCEPT ![v] = f],
           missed' = [missed EXCEPT ![v] = ms],
           pub = "up" /\ ~ms => f = Index(list)
    PROVE  SessionInv'
<1>0. /\ TypeInv /\ (\A w \in Viewers : Knows(w))
      /\ queue \in [Viewers -> Seq(Messages)] /\ idToSlug \in [Viewers -> Maps]
      /\ missed \in [Viewers -> BOOLEAN] /\ SendBuf \in Nat \ {0}
    BY SessionAssumption DEF SessionInv, TypeInv
<1>1. pub' = pub /\ mock' = mock /\ list' = list
    BY DEF pubVars
<1>2. /\ queue'[v] = <<>> /\ idToSlug'[v] = f /\ missed'[v] = ms
      /\ \A w \in Viewers : w # v =>
            queue'[w] = queue[w] /\ idToSlug'[w] = idToSlug[w] /\ missed'[w] = missed[w]
    BY <1>0
<1>3. TypeInv'
  <2>1. queue' \in [Viewers -> Seq(Messages)] /\ idToSlug' \in [Viewers -> Maps]
    <3>1. <<>> \in Seq(Messages)
      OBVIOUS
    <3>2. QED
      BY <1>0, <3>1
  <2>2. missed' \in [Viewers -> BOOLEAN]
    BY <1>0
  <2>3. ASSUME NEW w \in Viewers
        PROVE  Len(queue'[w]) <= SendBuf /\ (w \notin joined' => queue'[w] = <<>>)
    <3>1. CASE w = v
      <4>1. queue'[w] = <<>> /\ Len(<<>>) = 0
        BY <1>2, <3>1
      <4>2. QED
        BY <1>0, <4>1
    <3>2. CASE w # v
      BY <1>0, <1>2, <3>2 DEF TypeInv
    <3>3. QED
      BY <3>1, <3>2
  <2>4. /\ pub' \in PubStates /\ joined' \subseteq Viewers
        /\ list' \in AllLists \cup {<<>>} /\ (pub' # "off" => list' \in AllLists)
    BY <1>0, <1>1 DEF TypeInv
  <2>5. mock' \in BOOLEAN
    BY <1>0, <1>1, Zenon DEF TypeInv
  <2>6. QED
    BY <1>0, <2>1, <2>2, <2>3, <2>4, <2>5, TypeInvStep
<1>4. ASSUME NEW w \in Viewers PROVE Knows(w)'
  <2>1. CASE w # v
    BY <1>0, <1>1, <1>2, <2>1 DEF Knows
  <2>2. CASE w = v
    <3>1. Consistent(<<>>, f, ms) /\ (pub = "up" => Current(<<>>, f, ms, list))
      BY EmptyQueue
    <3>2. queue'[w] = <<>> /\ idToSlug'[w] = f /\ missed'[w] = ms
      BY <1>2, <2>2
    <3>3. QED
      BY <1>1, <3>1, <3>2, Zenon DEF Knows
  <2>3. QED
    BY <2>1, <2>2
<1>5. QED
    BY <1>3, <1>4 DEF SessionInv

\* The last list of a queue is the one of the publisher that is up.
LEMMA LastListIsCurrent ==
    ASSUME SessionInv, NEW v \in Viewers, pub = "up"
    PROVE  /\ LostLists(v) = {} => (~missed[v] => idToSlug[v] = Index(list))
           /\ LostLists(v) # {} =>
                /\ IsList(queue[v][Max(LostLists(v))])
                /\ Index(queue[v][Max(LostLists(v))].list) = Index(list)
<1>0. /\ Current(queue[v], idToSlug[v], missed[v], list) /\ Len(queue[v]) \in Nat
      /\ LostLists(v) \in SUBSET (1..Len(queue[v]))
      /\ \A i \in 1..Len(queue[v]) : i \in LostLists(v) <=> IsList(queue[v][i])
  <2>1. Knows(v) /\ queue[v] \in Seq(Messages)
    BY DEF SessionInv, TypeInv
  <2>2. Len(queue[v]) \in Nat
    BY <2>1
  <2>3. QED
    BY <2>1, <2>2 DEF Knows, LostLists
<1>1. CASE LostLists(v) = {}
  <2>1. NoList(queue[v], 1, Len(queue[v]))
    BY <1>0, <1>1 DEF NoList
  <2>2. QED
    BY <1>0, <1>1, <2>1 DEF Current
<1>2. CASE LostLists(v) # {}
  <2> DEFINE z == Max(LostLists(v))
  <2>1. z \in LostLists(v) /\ \A i \in LostLists(v) : i <= z
    BY <1>0, <1>2, LastPosition
  <2> HIDE DEF z
  <2>2. z \in 1..Len(queue[v]) /\ IsList(queue[v][z])
    BY <1>0, <2>1
  <2>3. NoList(queue[v], z + 1, Len(queue[v]))
    <3> SUFFICES ASSUME NEW k \in (z + 1)..Len(queue[v]) PROVE ~IsList(queue[v][k])
      BY DEF NoList
    <3>1. k \in 1..Len(queue[v]) /\ ~(k <= z)
      BY <1>0, <2>2
    <3>2. QED
      BY <1>0, <2>1, <3>1
  <2>4. QED
    BY <1>0, <1>2, <2>2, <2>3 DEF Current, z
<1>3. QED
    BY <1>1, <1>2

LEMMA SessionLeave ==
    ASSUME SessionInv, NEW v \in Viewers, Leave(v)
    PROVE  SessionInv'
<1> DEFINE f == AfterClose(v)
           z == queue[v][Max(LostLists(v))]
           ms == IF v \in Tools THEN TRUE
                 ELSE IF LostLists(v) = {} THEN missed[v] ELSE Changes(v, z)
<1>1. /\ UNCHANGED pubVars /\ joined' = joined \ {v}
      /\ queue' = [queue EXCEPT ![v] = <<>>]
      /\ idToSlug' = [idToSlug EXCEPT ![v] = f]
    BY DEF Leave
<1>2. missed' = [missed EXCEPT ![v] = ms]
    BY Zenon DEF Leave
<1>3. f \in Maps
    BY DEF SessionInv, TypeInv, AfterClose, Maps
<1>4. missed[v] \in BOOLEAN
    BY DEF SessionInv, TypeInv
<1>5. ms \in BOOLEAN
    BY <1>4, Zenon DEF Changes
<1>6. ASSUME pub = "up", ~ms PROVE f = Index(list)
  <2>1. v \notin Tools /\ f = idToSlug[v]
    BY <1>6, Zenon DEF AfterClose
  <2>2. CASE LostLists(v) = {}
    <3>1. ~missed[v]
      BY <1>6, <2>1, <2>2, Zenon
    <3>2. QED
      BY <1>6, <2>1, <2>2, <3>1, LastListIsCurrent
  <2>3. CASE LostLists(v) # {}
    <3>1. ~Changes(v, z)
      BY <1>6, <2>1, <2>3, Zenon
    <3>2. IsList(z) /\ Index(z.list) = Index(list)
      BY <1>6, <2>3, LastListIsCurrent
    <3>3. idToSlug[v] = Index(z.list)
      BY <3>1, <3>2, Zenon DEF Changes, Index
    <3>4. QED
      BY <2>1, <3>2, <3>3
  <2>4. QED
    BY <2>2, <2>3
<1> HIDE DEF ms, f
<1>7. QED
    BY <1>1, <1>2, <1>3, <1>5, <1>6, SessionAway

LEMMA SessionRemount ==
    ASSUME SessionInv, NEW v \in Pages, Remount(v)
    PROVE  SessionInv'
<1>1. v \in Viewers /\ <<>> \in Maps
    BY DEF Viewers, Maps
<1>2. /\ UNCHANGED pubVars /\ joined' = joined \ {v}
      /\ queue' = [queue EXCEPT ![v] = <<>>]
      /\ idToSlug' = [idToSlug EXCEPT ![v] = <<>>]
      /\ missed' = [missed EXCEPT ![v] = TRUE]
    BY DEF Remount
<1>3. QED
    BY <1>1, <1>2, SessionAway

\* Steps that touch no queue.
LEMMA SessionQuiet ==
    ASSUME SessionInv, UNCHANGED <<queue, idToSlug, missed>>,
           joined \subseteq joined', joined' \subseteq Viewers, mock' \in BOOLEAN,
           \/ UNCHANGED <<pub, list>>
           \/ /\ pub' \in {"off", "down", "hello", "list", "unlisted"}
              /\ list' \in AllLists \cup {<<>>}
              /\ pub' # "off" => list' \in AllLists
    PROVE  SessionInv'
<1>0. TypeInv /\ \A v \in Viewers : Knows(v)
    BY DEF SessionInv
<1>1. /\ pub' \in PubStates
      /\ list' \in AllLists \cup {<<>>} /\ (pub' # "off" => list' \in AllLists)
    BY <1>0 DEF TypeInv, PubStates
<1>2. /\ queue' \in [Viewers -> Seq(Messages)] /\ idToSlug' \in [Viewers -> Maps]
      /\ \A v \in Viewers : /\ Len(queue'[v]) <= SendBuf
                            /\ v \notin joined' => queue'[v] = <<>>
    BY <1>0 DEF TypeInv
<1>3. missed' \in [Viewers -> BOOLEAN]
    BY <1>0 DEF TypeInv
<1>4. TypeInv'
    BY <1>0, <1>1, <1>2, <1>3, TypeInvStep
<1>5. ASSUME NEW v \in Viewers PROVE Knows(v)'
    BY <1>0 DEF Knows
<1>6. QED
    BY <1>4, <1>5 DEF SessionInv

LEMMA SessionStep == SessionInv /\ [Next]_vars => SessionInv'
<1> SUFFICES ASSUME SessionInv, [Next]_vars PROVE SessionInv'
    OBVIOUS
<1>0. /\ pub \in PubStates
      /\ list \in AllLists \cup {<<>>} /\ (pub # "off" => list \in AllLists)
      /\ joined \subseteq Viewers
    BY DEF SessionInv, TypeInv
<1>1. mock \in BOOLEAN
    BY DEF SessionInv, TypeInv
<1>2. ASSUME NEW b \in BOOLEAN, NEW l \in AllLists, Launch(b, l) PROVE SessionInv'
  <2>1. /\ UNCHANGED <<queue, idToSlug, missed, joined>> /\ pub' = "down" /\ list' = l
        /\ mock' = b
    BY <1>2, Zenon DEF Launch, subVars
  <2>2. mock' \in BOOLEAN
    BY <2>1, Zenon
  <2>3. QED
    BY <1>0, <2>1, <2>2, SessionQuiet
<1>3. CASE Connect \/ QueueOverflow \/ ConnectionLost \/ Quit
  <2>1. /\ UNCHANGED <<queue, idToSlug, missed, joined, list, mock>>
        /\ pub # "off" /\ pub' \in {"off", "down", "hello", "list", "unlisted"}
    BY <1>3 DEF Connect, QueueOverflow, ConnectionLost, Quit, subVars
  <2>2. mock' \in BOOLEAN
    BY <1>1, <2>1, Zenon
  <2>3. QED
    BY <1>0, <2>1, <2>2, SessionQuiet
<1>4. CASE SendHello
  <2>1. /\ pub = "hello" /\ pub' = "list" /\ Broadcast(Hello)
        /\ mock' = mock /\ list' = list
    BY <1>4 DEF SendHello
  <2>2. QED
    BY <2>1, HelloFacts, SessionBroadcast
<1>5. CASE SendTrackList
  <2>1. /\ pub = "list" /\ pub' = "up" /\ Broadcast(TrackListMsg)
        /\ mock' = mock /\ list' = list
    BY <1>5 DEF SendTrackList
  <2>2. QED
    BY <1>0, <2>1, TrackListFacts, SessionBroadcast
<1>6. ASSUME NEW id \in TrackIds(list), SendAudio(id) PROVE SessionInv'
  <2>1. /\ Broadcast(Audio(id)) /\ mock' = mock /\ list' = list /\ pub' = pub
        /\ pub # "off" /\ list \in AllLists
    BY <1>0, <1>6 DEF SendAudio, AudioRuns, pubVars
  <2>2. /\ Audio(id) \in Messages /\ ~IsList(Audio(id))
        /\ Routes(Index(list), Audio(id))
        /\ pub # "up" => \A g : Routes(g, Audio(id))
    BY <2>1, AudioFacts
  <2>3. QED
    BY <2>1, <2>2, SessionBroadcast
<1>7. ASSUME NEW id \in TrackIds(list), SendFingerprint(id) PROVE SessionInv'
  <2>1. /\ Broadcast(Fingerprint(id)) /\ mock' = mock /\ list' = list /\ pub' = pub
        /\ pub = "up" /\ list \in AllLists
    BY <1>0, <1>7 DEF SendFingerprint, pubVars
  <2>2. id \in Nat
    BY <2>1, ListTypes
  <2>3. QED
    BY <2>1, <2>2, FingerprintFacts, SessionBroadcast
<1>8. ASSUME NEW v \in Viewers, Join(v) PROVE SessionInv'
  <2>1. /\ UNCHANGED <<queue, idToSlug, missed, pub, list, mock>>
        /\ joined' = joined \cup {v}
    BY <1>8 DEF Join, pubVars
  <2>2. mock' \in BOOLEAN
    BY <1>1, <2>1, Zenon
  <2>3. QED
    BY <1>0, <2>1, <2>2, SessionQuiet
<1>9. CASE UNCHANGED vars
  <2>1. UNCHANGED <<queue, idToSlug, missed, joined, pub, list, mock>>
    BY <1>9 DEF vars, pubVars, subVars
  <2>2. mock' \in BOOLEAN
    BY <1>1, <2>1, Zenon
  <2>3. QED
    BY <1>0, <2>1, <2>2, SessionQuiet
<1>10. CASE (\E l \in Lists : Launch(FALSE, l)) \/ Launch(TRUE, MockTracks)
    BY <1>2, <1>10 DEF AllLists
<1>11. CASE \E v \in Viewers : Join(v) \/ HandleMessage(v) \/ Leave(v)
    BY <1>8, <1>11, SessionHandle, SessionLeave
<1>12. CASE \E v \in Pages : Remount(v)
    BY <1>12, SessionRemount
<1>13. QED
    BY <1>3, <1>4, <1>5, <1>6, <1>7, <1>9, <1>10, <1>11, <1>12 DEF Next

LEMMA SessionInvariant == Spec => []SessionInv
    BY SessionInit, SessionStep, PTL DEF Spec

\* Audio is played in its own track's lane, or the subscriber missed or refused
\* an announcement, or the frame was not sent behind one: for any track lists and
\* processes, any number of subscribers, and queues of any length.
THEOREM RoutedRightHolds == Spec => []RoutedRight
<1>1. SessionInv => RoutedRight
  <2> SUFFICES ASSUME SessionInv PROVE RoutedRight
    OBVIOUS
  <2>1. TypeOK
    BY TypeInvImplies DEF SessionInv
  <2>2. ASSUME NEW v \in Viewers, queue[v] # <<>>, ~missed[v]
        PROVE  Routes(idToSlug[v], Head(queue[v]))
    <3>1. Consistent(queue[v], idToSlug[v], missed[v]) /\ queue[v] \in Seq(Messages)
      BY DEF SessionInv, Knows, TypeInv
    <3>2. 1 \in 1..Len(queue[v]) /\ Head(queue[v]) = queue[v][1]
      BY <2>2, <3>1
    <3>3. NoList(queue[v], 1, 1 - 1)
      BY DEF NoList
    <3>4. QED
      BY <2>2, <3>1, <3>2, <3>3 DEF Consistent
  <2>3. QED
    BY <2>1, <2>2 DEF RoutedRight, Routes
<1>2. QED
    BY <1>1, SessionInvariant, PTL

\* A subscriber that missed and refused nothing and has read its queue knows the
\* tracks of a publisher that has sent its list.
THEOREM CaughtUpHolds == Spec => []CaughtUp
<1>1. SessionInv => CaughtUp
  <2> SUFFICES ASSUME SessionInv, NEW v \in joined,
                      pub = "up", queue[v] = <<>>, ~missed[v]
               PROVE  idToSlug[v] = indexTracks(<<>>, list)
    BY DEF CaughtUp
  <2>1. v \in Viewers
    BY DEF SessionInv, TypeInv
  <2>2. Current(<<>>, idToSlug[v], missed[v], list)
    BY <2>1 DEF SessionInv, Knows
  <2>3. idToSlug[v] = Index(list)
    BY <2>2, EmptyQueue
  <2>4. QED
    BY <2>3 DEF Index
<1>2. QED
    BY <1>1, SessionInvariant, PTL
=============================================================================

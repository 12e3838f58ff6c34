------------------------- MODULE AuthLimiterProofs --------------------------
(***************************************************************************)
(* Proofs about AuthLimiter, for any addresses, any number of overlapping  *)
(* requests and any threshold, window and cooldown.                        *)
(***************************************************************************)
EXTENDS AuthLimiter, TLAPS, FiniteSetTheorems

Entry == [count : Nat, firstFail : Nat, bannedUntil : Nat]
Fail == [at : Nat, nth : Nat]
Verifying(a) == {q \in Reqs : pc[q] = "verify" /\ ip[q] = a}

\* The failures of F before, in and after the first instant of the window of e.
Before(e, F) == {f \in F : f.at < e.firstFail}
From(e, F) == {f \in F : f.at >= e.firstFail}
After(e, F) == {f \in F : f.at > e.firstFail}
At(F, n) == {f \in F : f.at = n}

\* The entry e of an address, its failures F and its requests V past Allowed, at
\* time n.  The window of e accounts for the failures since it began; of those
\* before it few are left, because their window ended more than Window after its
\* first failure, and because a request that was past Allowed began the new one.
Failures(e, F, n) ==
    \A f \in F : /\ f.at \in 1..n /\ n - f.at <= Window
                 /\ f.at <= e.firstFail + Window
                 /\ e.bannedUntil # 0 => f.at + Cooldown <= e.bannedUntil
                 /\ f.at = n => f.nth < Cardinality(At(F, n))
Counted(e, F, n) ==
    /\ Cardinality(Before(e, F)) <= Threshold + Cardinality(Reqs) - 3
    /\ Cardinality(From(e, F)) <= e.count
    /\ Cardinality(After(e, F)) <= e.count - 1
    /\ n - e.firstFail <= Window => Cardinality(From(e, F)) = e.count
Capped(e, V) ==
    /\ e.bannedUntil = 0 => e.count < Threshold
    /\ e.bannedUntil # 0 => /\ e.count >= Threshold
                            /\ e.count + Cardinality(V) < Threshold + Cardinality(Reqs)
Good(e, F, V, n) ==
    /\ e.firstFail <= n /\ e.bannedUntil <= n + Cooldown
    /\ e.count = 0 => e = NoEntry /\ F = {}
    /\ Failures(e, F, n)
    /\ e.count # 0 => Counted(e, F, n)
    /\ Capped(e, V)

Types ==
    /\ now \in 1..MaxTime
    /\ entries \in [IPs -> Entry]
    /\ pc \in [Reqs -> {"idle", "verify"}] /\ ip \in [Reqs -> IPs]
    /\ fails \in [IPs -> SUBSET Fail] /\ \A a \in IPs : IsFiniteSet(fails[a])
    /\ promised \in [IPs -> Nat] /\ overlap \in [IPs -> BOOLEAN]

LimitInv ==
    /\ Types
    /\ \A a \in IPs : Good(entries[a], fails[a], Verifying(a), now)

\* An address is kept out until the end of the cooldown it has earned.
Served(a) ==
    now < promised[a] /\ ~overlap[a] =>
        entries[a].bannedUntil = promised[a] /\ Verifying(a) = {}
ServedInv == \A a \in IPs : Served(a)

-----------------------------------------------------------------------------
(* Constants, sets of failures, entries.                                   *)

LEMMA ConstantFacts ==
    /\ Threshold \in Nat /\ Threshold >= 2 /\ Window \in Nat /\ Cooldown \in Nat
    /\ Cooldown > Window /\ MaxTime \in Nat \ {0}
    /\ Cardinality(Reqs) \in Nat /\ Cardinality(Reqs) >= 1
<1>1. Cardinality(Reqs) \in Nat /\ Cardinality(Reqs) # 0
    BY LimiterAssumption, FS_CardinalityType, FS_EmptySet
<1>2. QED
    BY <1>1, LimiterAssumption

LEMMA PartFacts ==
    ASSUME NEW F, IsFiniteSet(F), NEW e, NEW n
    PROVE  /\ IsFiniteSet(Before(e, F)) /\ Cardinality(Before(e, F)) \in Nat
           /\ IsFiniteSet(From(e, F)) /\ Cardinality(From(e, F)) \in Nat
           /\ IsFiniteSet(After(e, F)) /\ Cardinality(After(e, F)) \in Nat
           /\ IsFiniteSet(At(F, n)) /\ Cardinality(At(F, n)) \in Nat
<1>1. /\ Before(e, F) \in SUBSET F /\ From(e, F) \in SUBSET F
      /\ After(e, F) \in SUBSET F /\ At(F, n) \in SUBSET F
    BY DEF Before, From, After, At
<1>2. /\ IsFiniteSet(Before(e, F)) /\ IsFiniteSet(From(e, F))
      /\ IsFiniteSet(After(e, F)) /\ IsFiniteSet(At(F, n))
    BY <1>1, FS_Subset
<1>3. QED
    BY <1>2, FS_CardinalityType

LEMMA EntryFacts ==
    ASSUME NEW e \in Entry
    PROVE  e.count \in Nat /\ e.firstFail \in Nat /\ e.bannedUntil \in Nat
  BY DEF Entry

LEMMA AfterAnother ==
    ASSUME NEW e \in Entry, e.count # 0, ~Expired(e), BanAfter(e, e.count + 1) \in Nat
    PROVE  /\ AfterFailure(e) \in Entry /\ AfterFailure(e).count = e.count + 1
           /\ AfterFailure(e).firstFail = e.firstFail
           /\ AfterFailure(e).bannedUntil = BanAfter(e, e.count + 1)
<1>1. AfterFailure(e) = [e EXCEPT !.count = e.count + 1, !.bannedUntil = BanAfter(e, e.count + 1)]
    BY DEF AfterFailure
<1>2. e.count + 1 \in Nat
    BY EntryFacts
<1> DEFINE c == e.count + 1
           b == BanAfter(e, e.count + 1)
           d == AfterFailure(e)
<1>3. c \in Nat /\ b \in Nat
    BY <1>2
<1>4. d = [e EXCEPT !.count = c, !.bannedUntil = b]
    BY <1>1
<1> HIDE DEF b, c, d
<1>5. d \in Entry /\ d.count = c /\ d.firstFail = e.firstFail /\ d.bannedUntil = b
    BY <1>3, <1>4 DEF Entry
<1>6. QED
    BY <1>5 DEF b, c, d

LEMMA NoEntryFacts ==
    /\ NoEntry \in Entry
    /\ NoEntry.count = 0 /\ NoEntry.firstFail = 0 /\ NoEntry.bannedUntil = 0
  BY DEF NoEntry, Entry

\* An address without an entry.
LEMMA GoodFresh ==
    ASSUME NEW V, NEW n \in Nat
    PROVE  Good(NoEntry, {}, V, n)
<1>1. Failures(NoEntry, {}, n)
    BY DEF Failures
<1>2. Capped(NoEntry, V)
    BY NoEntryFacts, ConstantFacts DEF Capped
<1>3. NoEntry.firstFail <= n /\ NoEntry.bannedUntil <= n + Cooldown
    BY NoEntryFacts, ConstantFacts
<1>4. QED
    BY <1>1, <1>2, <1>3, NoEntryFacts DEF Good

\* The clock ticks: failures older than Window are forgotten.
LEMMA GoodTick ==
    ASSUME NEW e \in Entry, NEW F \in SUBSET Fail, IsFiniteSet(F), NEW V,
           NEW n \in Nat, Good(e, F, V, n)
    PROVE  Good(e, {f \in F : (n + 1) - f.at <= Window}, V, n + 1)
<1> DEFINE G == {f \in F : (n + 1) - f.at <= Window}
<1>0. /\ \A f \in F : f.at \in Nat
      /\ \A f \in F : f.at \in 1..n
      /\ \A f \in G : f \in F /\ (n + 1) - f.at <= Window
      /\ G \in SUBSET F /\ IsFiniteSet(G)
      /\ e.count \in Nat /\ e.firstFail \in Nat /\ e.bannedUntil \in Nat
  <2>1. G \in SUBSET F
    OBVIOUS
  <2>2. IsFiniteSet(G)
    BY <2>1, FS_Subset
  <2>3. QED
    BY <2>1, <2>2, EntryFacts DEF Fail, Good, Failures
<1>1. \A f \in F : (n + 1) - f.at <= Window => f \in G
    OBVIOUS
<1> HIDE DEF G
<1>2. e.firstFail <= n + 1 /\ e.bannedUntil <= (n + 1) + Cooldown
    BY <1>0, ConstantFacts DEF Good
<1>3. e.count = 0 => e = NoEntry /\ G = {}
    BY <1>0 DEF Good
<1>4. Failures(e, G, n + 1)
  <2> SUFFICES ASSUME NEW f \in G
               PROVE  /\ f.at \in 1..(n + 1) /\ (n + 1) - f.at <= Window
                      /\ f.at <= e.firstFail + Window
                      /\ e.bannedUntil # 0 => f.at + Cooldown <= e.bannedUntil
                      /\ f.at # n + 1
    BY DEF Failures
  <2>1. f \in F /\ f.at \in 1..n
    BY <1>0
  <2>2. f.at \in 1..(n + 1) /\ f.at # n + 1
    BY <2>1
  <2>3. QED
    BY <1>0, <2>1, <2>2 DEF Good, Failures
<1>5. ASSUME e.count # 0 PROVE Counted(e, G, n + 1)
  <2>0. Counted(e, F, n)
    BY <1>5 DEF Good
  <2>1. /\ Before(e, G) \in SUBSET Before(e, F)
        /\ From(e, G) \in SUBSET From(e, F) /\ After(e, G) \in SUBSET After(e, F)
    BY <1>0 DEF Before, From, After
  <2>2. /\ Cardinality(Before(e, G)) <= Cardinality(Before(e, F))
        /\ Cardinality(From(e, G)) <= Cardinality(From(e, F))
        /\ Cardinality(After(e, G)) <= Cardinality(After(e, F))
    BY <2>1, PartFacts, FS_Subset
  <2>3. /\ Cardinality(Before(e, G)) \in Nat /\ Cardinality(Before(e, F)) \in Nat
        /\ Cardinality(From(e, G)) \in Nat /\ Cardinality(From(e, F)) \in Nat
        /\ Cardinality(After(e, G)) \in Nat /\ Cardinality(After(e, F)) \in Nat
    BY <1>0, PartFacts
  <2>4. ASSUME (n + 1) - e.firstFail <= Window PROVE Cardinality(From(e, G)) = e.count
    <3>1. n - e.firstFail <= Window
      BY <1>0, <2>4, ConstantFacts
    <3>2. \A f \in F : f.at >= e.firstFail => (n + 1) - f.at <= Window
      BY <1>0, <2>4, ConstantFacts
    <3>3. From(e, G) = From(e, F)
      BY <1>0, <1>1, <3>2 DEF From
    <3>4. QED
      BY <2>0, <3>1, <3>3 DEF Counted
  <2>5. /\ Cardinality(Before(e, G)) <= Threshold + Cardinality(Reqs) - 3
        /\ Cardinality(From(e, G)) <= e.count
        /\ Cardinality(After(e, G)) <= e.count - 1
    BY <1>0, <2>0, <2>2, <2>3, ConstantFacts DEF Counted
  <2>6. QED
    BY <2>4, <2>5 DEF Counted
<1>6. Capped(e, V)
    BY DEF Good
<1>7. QED
    BY <1>2, <1>3, <1>4, <1>5, <1>6 DEF Good, G

\* Requests come and go.
LEMMA GoodRequests ==
    ASSUME NEW e \in Entry, NEW F, NEW V \in SUBSET Reqs, NEW W \in SUBSET Reqs,
           NEW n, Good(e, F, V, n), e.bannedUntil = 0 \/ W \subseteq V
    PROVE  Good(e, F, W, n)
<1>1. Capped(e, W)
  <2>1. CASE e.bannedUntil = 0
    BY <2>1 DEF Good, Capped
  <2>2. CASE e.bannedUntil # 0
    <3>1. IsFiniteSet(V) /\ IsFiniteSet(W)
      BY LimiterAssumption, FS_Subset
    <3>2. Cardinality(W) <= Cardinality(V)
      BY <2>2, <3>1, FS_Subset
    <3>3. Cardinality(W) \in Nat /\ Cardinality(V) \in Nat
      BY <3>1, FS_CardinalityType
    <3>4. /\ e.count + Cardinality(V) < Threshold + Cardinality(Reqs)
          /\ e.count >= Threshold
      BY <2>2 DEF Good, Capped
    <3>5. e.count + Cardinality(W) < Threshold + Cardinality(Reqs)
      BY <3>2, <3>3, <3>4, EntryFacts, ConstantFacts
    <3>6. QED
      BY <2>2, <3>4, <3>5 DEF Capped
  <2>3. QED
    BY <2>1, <2>2
<1>2. QED
    BY <1>1 DEF Good

\* When a cooldown is over, the failures that earned it are older than Window.
LEMMA CooldownOutlivesFailures ==
    ASSUME NEW e \in Entry, NEW F \in SUBSET Fail, NEW V, NEW n \in Nat,
           Good(e, F, V, n), e.bannedUntil # 0, e.bannedUntil <= n
    PROVE  F = {}
<1> SUFFICES ASSUME NEW f \in F PROVE FALSE
    OBVIOUS
<1>1. f.at \in Nat /\ f.at + Cooldown <= e.bannedUntil /\ n - f.at <= Window
    BY DEF Good, Failures, Fail
<1>2. QED
    BY <1>1, EntryFacts, ConstantFacts

\* The failure that happens now is told apart from the others at this time.
LEMMA FailureIsNew ==
    ASSUME NEW F \in SUBSET Fail, IsFiniteSet(F), NEW n \in Nat, NEW x,
           x = [at |-> n, nth |-> Cardinality(At(F, n))],
           \A f \in F : f.at = n => f.nth < Cardinality(At(F, n))
    PROVE  /\ x \in Fail /\ x \notin F
           /\ x.at = n /\ x.nth = Cardinality(At(F, n))
           /\ Cardinality(At(F \cup {x}, n)) = Cardinality(At(F, n)) + 1
<1>1. Cardinality(At(F, n)) \in Nat /\ IsFiniteSet(At(F, n))
    BY PartFacts
<1>2. x \in Fail /\ x.at = n /\ x.nth = Cardinality(At(F, n))
    BY <1>1 DEF Fail
<1>3. x \notin F
    BY <1>1, <1>2
<1>4. At(F \cup {x}, n) = At(F, n) \cup {x} /\ x \notin At(F, n)
    BY <1>2, <1>3 DEF At
<1>5. Cardinality(At(F, n) \cup {x}) = Cardinality(At(F, n)) + 1
    BY <1>1, <1>4, FS_AddElement, Zenon
<1>6. QED
    BY <1>2, <1>3, <1>4, <1>5, Zenon

\* A failure that begins a new window.
LEMMA GoodFirst ==
    ASSUME NEW e \in Entry, NEW F \in SUBSET Fail, IsFiniteSet(F),
           NEW V \in SUBSET Reqs, NEW r \in V, now \in Nat \ {0},
           Good(e, F, V, now), NEW x,
           x = [at |-> now, nth |-> Cardinality(At(F, now))],
           e.count = 0 \/ Expired(e)
    PROVE  /\ AfterFailure(e) \in Entry /\ AfterFailure(e).bannedUntil = 0
           /\ Good(AfterFailure(e), F \cup {x}, V \ {r}, now)
<1> DEFINE d == AfterFailure(e)
           G == F \cup {x}
<1>0. d = [count |-> 1, firstFail |-> now, bannedUntil |-> 0]
    BY DEF AfterFailure
<1>1. d \in Entry /\ d.count = 1 /\ d.firstFail = now /\ d.bannedUntil = 0
    BY <1>0 DEF Entry
<1>2. /\ x \in Fail /\ x \notin F /\ x.at = now /\ x.nth = Cardinality(At(F, now))
      /\ Cardinality(At(G, now)) = Cardinality(At(F, now)) + 1
      /\ Cardinality(At(F, now)) \in Nat
    BY FailureIsNew, PartFacts DEF Good, Failures
<1> HIDE DEF d
<1>3. /\ e.count \in Nat /\ e.firstFail \in Nat /\ e.bannedUntil \in Nat
      /\ \A f \in F : f.at \in Nat
    BY EntryFacts DEF Fail
<1>4. \A f \in F : f.at < now /\ f.at \in 1..now /\ now - f.at <= Window
  <2>1. CASE e.count = 0
    BY <2>1 DEF Good
  <2>2. CASE Expired(e)
    <3> SUFFICES ASSUME NEW f \in F
                 PROVE  f.at < now /\ f.at \in 1..now /\ now - f.at <= Window
      OBVIOUS
    <3>1. /\ f.at <= e.firstFail + Window /\ f.at \in Nat
          /\ f.at \in 1..now /\ now - f.at <= Window
      BY <1>3 DEF Good, Failures
    <3>2. now - e.firstFail > Window
      BY <2>2 DEF Expired
    <3>3. QED
      BY <1>3, <3>1, <3>2, ConstantFacts
  <2>3. QED
    BY <2>1, <2>2
<1>5. Cardinality(F) <= Threshold + Cardinality(Reqs) - 3
  <2>1. CASE e.count = 0
    <3>1. Cardinality(F) = 0
      BY <2>1, FS_EmptySet DEF Good
    <3>2. QED
      BY <3>1, ConstantFacts
  <2>2. CASE e.count # 0 /\ Expired(e)
    <3>1. \A f \in F : f.at > e.firstFail
      <4> SUFFICES ASSUME NEW f \in F PROVE f.at > e.firstFail
        OBVIOUS
      <4>1. f.at \in Nat /\ now - f.at <= Window /\ now - e.firstFail > Window
        BY <1>3, <1>4, <2>2 DEF Expired
      <4>2. QED
        BY <1>3, <4>1, ConstantFacts
    <3>2. After(e, F) = F
      BY <3>1 DEF After
    <3>3. Cardinality(F) <= e.count - 1 /\ Cardinality(F) \in Nat
      BY <2>2, <3>2, FS_CardinalityType DEF Good, Counted
    <3>4. Cardinality(V) \in Nat /\ Cardinality(V) # 0
      <4>1. IsFiniteSet(V)
        BY LimiterAssumption, FS_Subset
      <4>2. QED
        BY <4>1, FS_CardinalityType, FS_EmptySet
    <3>5. \/ e.count < Threshold
          \/ e.count + Cardinality(V) < Threshold + Cardinality(Reqs)
      BY DEF Good, Capped
    <3>6. QED
      BY <1>3, <3>3, <3>4, <3>5, ConstantFacts
  <2>3. QED
    BY <2>1, <2>2
<1>6. Before(d, G) = F /\ From(d, G) = {x} /\ After(d, G) = {}
    BY <1>1, <1>2, <1>3, <1>4 DEF Before, From, After
<1>7. Counted(d, G, now)
  <2>1. Cardinality(From(d, G)) = 1 /\ Cardinality(After(d, G)) = 0
    BY <1>6, FS_Singleton, FS_EmptySet
  <2>2. QED
    BY <1>1, <1>5, <1>6, <2>1 DEF Counted
<1>8. Failures(d, G, now)
  <2> SUFFICES ASSUME NEW f \in G
               PROVE  /\ f.at \in 1..now /\ now - f.at <= Window
                      /\ f.at <= now + Window
                      /\ f.at = now => f.nth < Cardinality(At(G, now))
    BY <1>1 DEF Failures
  <2>1. CASE f = x
    BY <1>2, <2>1, ConstantFacts
  <2>2. CASE f \in F
    <3>1. f.at < now /\ f.at \in 1..now /\ now - f.at <= Window /\ f.at \in Nat
      BY <1>3, <1>4, <2>2
    <3>2. QED
      BY <3>1, ConstantFacts
  <2>3. QED
    BY <2>1, <2>2
<1>9. Capped(d, V \ {r})
    BY <1>1, ConstantFacts DEF Capped
<1>10. d.firstFail <= now /\ d.bannedUntil <= now + Cooldown
    BY <1>1, ConstantFacts
<1>11. QED
    BY <1>1, <1>7, <1>8, <1>9, <1>10 DEF Good, d

\* A failure within the window; the one that crosses the threshold is deserved.
LEMMA GoodAnother ==
    ASSUME NEW e \in Entry, NEW F \in SUBSET Fail, IsFiniteSet(F),
           NEW V \in SUBSET Reqs, NEW r \in V, now \in Nat \ {0},
           Good(e, F, V, now), NEW x,
           x = [at |-> now, nth |-> Cardinality(At(F, now))],
           e.count # 0, ~Expired(e)
    PROVE  /\ AfterFailure(e) \in Entry
           /\ Good(AfterFailure(e), F \cup {x}, V \ {r}, now)
           /\ AfterFailure(e).bannedUntil # 0 => Cardinality(F \cup {x}) >= Threshold
<1> DEFINE d == AfterFailure(e)
           G == F \cup {x}
<1>0. /\ e.count \in Nat /\ e.firstFail \in Nat /\ e.bannedUntil \in Nat
      /\ \A f \in F : f.at \in Nat
    BY EntryFacts DEF Fail
<1>1. /\ d \in Entry /\ d.count = e.count + 1 /\ d.firstFail = e.firstFail
      /\ d.bannedUntil = BanAfter(e, e.count + 1)
  <2>1. BanAfter(e, e.count + 1) \in Nat
    BY <1>0, ConstantFacts DEF BanAfter
  <2>2. QED
    BY <2>1, AfterAnother
<1>2. /\ x \in Fail /\ x \notin F /\ x.at = now /\ x.nth = Cardinality(At(F, now))
      /\ Cardinality(At(G, now)) = Cardinality(At(F, now)) + 1
      /\ Cardinality(At(F, now)) \in Nat
    BY FailureIsNew, PartFacts DEF Good, Failures
<1> HIDE DEF d
<1>3. /\ e.count + 1 >= Threshold => d.bannedUntil = now + Cooldown
      /\ ~(e.count + 1 >= Threshold) => d.bannedUntil = 0
  <2>1. e.count < Threshold => e.bannedUntil = 0 \/ e.count >= Threshold
    BY DEF Good, Capped
  <2>2. QED
    BY <1>0, <1>1, <2>1, ConstantFacts DEF BanAfter
<1>4. now - e.firstFail <= Window /\ e.firstFail <= now
    BY <1>0, ConstantFacts DEF Expired, Good
<1>5. /\ Cardinality(From(e, F)) = e.count /\ Cardinality(After(e, F)) <= e.count - 1
      /\ Cardinality(Before(e, F)) <= Threshold + Cardinality(Reqs) - 3
      /\ IsFiniteSet(From(e, F)) /\ IsFiniteSet(After(e, F))
      /\ Cardinality(After(e, F)) \in Nat
    BY <1>4, PartFacts DEF Good, Counted
<1>6. Counted(d, G, now)
  <2>1. Before(d, G) = Before(e, F)
    BY <1>0, <1>1, <1>2, <1>4 DEF Before
  <2>2. From(d, G) = From(e, F) \cup {x} /\ x \notin From(e, F)
    BY <1>0, <1>1, <1>2, <1>4 DEF From
  <2>3. After(d, G) = After(e, F) \/ After(d, G) = After(e, F) \cup {x}
    <3>1. CASE now > e.firstFail
      BY <1>1, <1>2, <3>1 DEF After
    <3>2. CASE ~(now > e.firstFail)
      BY <1>1, <1>2, <3>2 DEF After
    <3>3. QED
      BY <3>1, <3>2
  <2>4. Cardinality(From(d, G)) = e.count + 1
    <3>1. Cardinality(From(e, F) \cup {x}) = Cardinality(From(e, F)) + 1
      BY <1>5, <2>2, FS_AddElement, Zenon
    <3>2. QED
      BY <1>5, <2>2, <3>1, Zenon
  <2>5. Cardinality(After(e, F) \cup {x}) <= e.count
    <3>1. \/ Cardinality(After(e, F) \cup {x}) = Cardinality(After(e, F))
          \/ Cardinality(After(e, F) \cup {x}) = Cardinality(After(e, F)) + 1
      BY <1>5, FS_AddElement
    <3>2. QED
      BY <1>0, <1>5, <3>1
  <2>6. Cardinality(After(d, G)) <= (e.count + 1) - 1
    <3>1. (e.count + 1) - 1 = e.count /\ Cardinality(After(e, F)) <= e.count
      BY <1>0, <1>5
    <3>2. QED
      BY <2>3, <2>5, <3>1
  <2>7. QED
    BY <1>0, <1>1, <1>5, <2>1, <2>4, <2>6 DEF Counted
<1>7. Failures(d, G, now)
  <2> SUFFICES ASSUME NEW f \in G
               PROVE  /\ f.at \in 1..now /\ now - f.at <= Window
                      /\ f.at <= e.firstFail + Window
                      /\ d.bannedUntil # 0 => f.at + Cooldown <= d.bannedUntil
                      /\ f.at = now => f.nth < Cardinality(At(G, now))
    BY <1>1 DEF Failures
  <2>1. d.bannedUntil # 0 => d.bannedUntil = now + Cooldown
    BY <1>3
  <2>2. CASE f = x
    <3>1. now <= e.firstFail + Window
      BY <1>0, <1>4, ConstantFacts
    <3>2. QED
      BY <1>2, <2>1, <2>2, <3>1, ConstantFacts
  <2>3. CASE f \in F
    <3>1. /\ f.at \in 1..now /\ now - f.at <= Window /\ f.at <= e.firstFail + Window
          /\ f.at = now => f.nth < Cardinality(At(F, now))
          /\ f.nth \in Nat /\ f.at \in Nat
      BY <2>3 DEF Good, Failures, Fail
    <3>2. d.bannedUntil # 0 => f.at + Cooldown <= d.bannedUntil
      BY <2>1, <3>1, ConstantFacts
    <3>3. f.at = now => f.nth < Cardinality(At(G, now))
      BY <1>2, <3>1
    <3>4. QED
      BY <3>1, <3>2, <3>3
  <2>4. QED
    BY <2>2, <2>3
<1>8. Capped(d, V \ {r})
  <2>1. /\ IsFiniteSet(V) /\ Cardinality(V) \in Nat /\ Cardinality(V) <= Cardinality(Reqs)
        /\ Cardinality(V \ {r}) = Cardinality(V) - 1
    <3>1. IsFiniteSet(V) /\ Cardinality(V) <= Cardinality(Reqs)
      BY LimiterAssumption, FS_Subset
    <3>2. QED
      BY <3>1, FS_CardinalityType, FS_RemoveElement
  <2>2. d.bannedUntil = 0 => e.count + 1 < Threshold
    BY <1>0, <1>3, ConstantFacts
  <2>3. ASSUME d.bannedUntil # 0
        PROVE  /\ e.count + 1 >= Threshold
               /\ (e.count + 1) + (Cardinality(V) - 1) < Threshold + Cardinality(Reqs)
    <3>1. e.count + 1 >= Threshold
      BY <1>3, <2>3
    <3>2. \/ e.count < Threshold
          \/ e.count + Cardinality(V) < Threshold + Cardinality(Reqs)
      BY DEF Good, Capped
    <3>3. QED
      BY <1>0, <2>1, <3>1, <3>2, ConstantFacts
  <2>4. QED
    BY <1>1, <2>1, <2>2, <2>3 DEF Capped
<1>9. d.firstFail <= now /\ d.bannedUntil <= now + Cooldown
    BY <1>1, <1>3, <1>4, ConstantFacts
<1>10. d.bannedUntil # 0 => Cardinality(G) >= Threshold
  <2>1. /\ IsFiniteSet(G) /\ Cardinality(G) \in Nat
    BY FS_AddElement, FS_CardinalityType
  <2>2. From(d, G) \in SUBSET G
    BY DEF From
  <2>3. Cardinality(From(d, G)) <= Cardinality(G)
    BY <2>1, <2>2, FS_Subset
  <2>4. Cardinality(From(d, G)) = e.count + 1
    BY <1>1, <1>4, <1>6 DEF Counted
  <2>5. QED
    BY <1>0, <1>3, <2>1, <2>3, <2>4, ConstantFacts
<1>11. d.count # 0
    BY <1>0, <1>1
<1>12. QED
    BY <1>1, <1>6, <1>7, <1>8, <1>9, <1>10, <1>11 DEF Good, d

-----------------------------------------------------------------------------
(* The invariant.                                                          *)

\* Requests of other addresses are not touched by a step of request r.
LEMMA OthersVerify ==
    ASSUME Types, NEW r \in Reqs, NEW a \in IPs, NEW b \in IPs, b # a,
           \/ /\ pc' = [pc EXCEPT ![r] = "idle"] /\ ip' = ip /\ ip[r] = a
           \/ /\ pc[r] = "idle" /\ pc' = [pc EXCEPT ![r] = "verify"]
              /\ ip' = [ip EXCEPT ![r] = a]
    PROVE  Verifying(b)' = Verifying(b)
<1>0. pc \in [Reqs -> {"idle", "verify"}] /\ ip \in [Reqs -> IPs]
    BY DEF Types
<1>1. \A q \in Reqs : (pc'[q] = "verify" /\ ip'[q] = b) <=> (pc[q] = "verify" /\ ip[q] = b)
    BY <1>0
<1>2. QED
    BY <1>1 DEF Verifying

LEMMA LimitInit == Init => LimitInv
<1> SUFFICES ASSUME Init PROVE LimitInv
    OBVIOUS
<1>1. now \in 1..MaxTime /\ now \in Nat
    BY ConstantFacts DEF Init
<1>2. /\ entries \in [IPs -> Entry] /\ pc \in [Reqs -> {"idle", "verify"}]
      /\ ip \in [Reqs -> IPs] /\ fails \in [IPs -> SUBSET Fail]
      /\ \A a \in IPs : entries[a] = NoEntry /\ fails[a] = {}
    BY NoEntryFacts DEF Init
<1>3. promised \in [IPs -> Nat] /\ overlap \in [IPs -> BOOLEAN]
    BY DEF Init
<1>4. \A a \in IPs : IsFiniteSet(fails[a])
    BY <1>2, FS_EmptySet
<1>5. \A a \in IPs : Good(entries[a], fails[a], Verifying(a), now)
    BY <1>1, <1>2, GoodFresh
<1>6. QED
    BY <1>1, <1>2, <1>3, <1>4, <1>5 DEF LimitInv, Types

\* What the invariant says of one address.
LEMMA AddressFacts ==
    ASSUME LimitInv, NEW a \in IPs
    PROVE  /\ entries[a] \in Entry /\ fails[a] \in SUBSET Fail /\ IsFiniteSet(fails[a])
           /\ Verifying(a) \in SUBSET Reqs /\ now \in Nat \ {0}
           /\ Good(entries[a], fails[a], Verifying(a), now)
<1>1. now \in Nat \ {0}
    BY ConstantFacts DEF LimitInv, Types
<1>2. QED
    BY <1>1 DEF LimitInv, Types, Verifying

LEMMA LimitTick ==
    ASSUME LimitInv, Tick
    PROVE  LimitInv'
<1>1. /\ now < MaxTime /\ now' = now + 1 /\ UNCHANGED <<entries, pc, ip, promised, overlap>>
      /\ fails' = [a \in IPs |-> {f \in fails[a] : (now + 1) - f.at <= Window}]
  <2>1. now < MaxTime /\ now' = now + 1 /\ UNCHANGED <<entries, pc, ip, promised, overlap>>
    BY DEF Tick, histVars
  <2>2. fails' = [a \in IPs |-> {f \in fails[a] : (now + 1) - f.at <= Window}]
    BY Zenon DEF Tick, Recent
  <2>3. QED
    BY <2>1, <2>2
<1>2. ASSUME NEW a \in IPs
      PROVE  /\ fails'[a] \in SUBSET Fail /\ IsFiniteSet(fails'[a])
             /\ Good(entries'[a], fails'[a], Verifying(a)', now')
  <2>1. fails'[a] = {f \in fails[a] : (now + 1) - f.at <= Window} /\ Verifying(a)' = Verifying(a)
    BY <1>1 DEF Verifying
  <2>2. fails'[a] \in SUBSET fails[a]
    BY <2>1
  <2>3. IsFiniteSet(fails'[a]) /\ fails'[a] \in SUBSET Fail
    BY <2>2, AddressFacts, FS_Subset
  <2>4. Good(entries[a], {f \in fails[a] : (now + 1) - f.at <= Window}, Verifying(a), now + 1)
    BY AddressFacts, GoodTick
  <2>5. QED
    BY <1>1, <2>1, <2>3, <2>4
<1>3. Types'
  <2>1. now' \in 1..MaxTime
    BY <1>1, ConstantFacts DEF LimitInv, Types
  <2>2. fails' \in [IPs -> SUBSET Fail]
    BY <1>1, <1>2
  <2>3. /\ entries' \in [IPs -> Entry] /\ pc' \in [Reqs -> {"idle", "verify"}]
        /\ ip' \in [Reqs -> IPs] /\ promised' \in [IPs -> Nat] /\ overlap' \in [IPs -> BOOLEAN]
    BY <1>1 DEF LimitInv, Types
  <2>4. QED
    BY <1>2, <2>1, <2>2, <2>3 DEF Types
<1>4. QED
    BY <1>2, <1>3 DEF LimitInv

\* A step of request r for address a leaves the other addresses alone.
LEMMA LimitRequest ==
    ASSUME LimitInv, NEW r \in Reqs, NEW a \in IPs, now' = now,
           NEW e \in Entry, NEW F \in SUBSET Fail, IsFiniteSet(F),
           entries' = [entries EXCEPT ![a] = e], fails' = [fails EXCEPT ![a] = F],
           promised' \in [IPs -> Nat], overlap' \in [IPs -> BOOLEAN],
           \/ /\ pc' = [pc EXCEPT ![r] = "idle"] /\ ip' = ip /\ ip[r] = a
           \/ /\ pc[r] = "idle" /\ pc' = [pc EXCEPT ![r] = "verify"]
              /\ ip' = [ip EXCEPT ![r] = a],
           Good(e, F, Verifying(a)', now)
    PROVE  LimitInv'
<1>0. /\ Types /\ entries \in [IPs -> Entry] /\ fails \in [IPs -> SUBSET Fail]
      /\ pc \in [Reqs -> {"idle", "verify"}] /\ ip \in [Reqs -> IPs]
    BY DEF LimitInv, Types
<1>1. /\ entries'[a] = e /\ fails'[a] = F
      /\ \A b \in IPs : b # a => entries'[b] = entries[b] /\ fails'[b] = fails[b]
    BY <1>0
<1>2. Types'
  <2>1. /\ entries' \in [IPs -> Entry] /\ fails' \in [IPs -> SUBSET Fail]
        /\ pc' \in [Reqs -> {"idle", "verify"}] /\ ip' \in [Reqs -> IPs]
    BY <1>0
  <2>2. \A b \in IPs : IsFiniteSet(fails'[b])
    BY <1>0, <1>1 DEF Types
  <2>3. now' \in 1..MaxTime
    BY <1>0 DEF Types
  <2>4. QED
    BY <2>1, <2>2, <2>3 DEF Types
<1>3. ASSUME NEW b \in IPs PROVE Good(entries'[b], fails'[b], Verifying(b)', now')
  <2>1. CASE b = a
    BY <1>1, <2>1
  <2>2. CASE b # a
    <3>1. Verifying(b)' = Verifying(b)
      BY <1>0, <2>2, OthersVerify
    <3>2. QED
      BY <1>1, <2>2, <3>1 DEF LimitInv
  <2>3. QED
    BY <2>1, <2>2
<1>4. QED
    BY <1>2, <1>3 DEF LimitInv

LEMMA LimitAllowed ==
    ASSUME LimitInv, NEW r \in Reqs, NEW a \in IPs, Allowed(r, a)
    PROVE  LimitInv'
<1>0. /\ promised' \in [IPs -> Nat] /\ overlap' \in [IPs -> BOOLEAN] /\ now' = now
      /\ entries \in [IPs -> Entry] /\ fails \in [IPs -> SUBSET Fail] /\ fails' = fails
  <2>1. promised' = promised /\ overlap' = overlap /\ now' = now /\ fails' = fails
    BY DEF Allowed, histVars
  <2>2. QED
    BY <2>1, Zenon DEF LimitInv, Types
<1>1. /\ pc[r] = "idle" /\ pc' = [pc EXCEPT ![r] = "verify"] /\ ip' = [ip EXCEPT ![r] = a]
    BY DEF Allowed
<1>2. Verifying(a)' \in SUBSET Reqs
    BY DEF Verifying
<1>3. CASE entries[a].bannedUntil # 0
  <2>1. entries' = [entries EXCEPT ![a] = NoEntry]
    BY <1>3 DEF Allowed, Forget
  <2>2. entries[a].bannedUntil <= now
    <3>1. ~(now < entries[a].bannedUntil)
      BY <1>3 DEF Allowed, InCooldown
    <3>2. QED
      BY <3>1, AddressFacts, EntryFacts
  <2>3. fails[a] = {}
    <3>1. now \in Nat
      BY AddressFacts
    <3>2. QED
      BY <1>3, <2>2, <3>1, AddressFacts, CooldownOutlivesFailures
  <2>4. fails' = [fails EXCEPT ![a] = {}]
    BY <1>0, <2>3
  <2>5. Good(NoEntry, {}, Verifying(a)', now)
    BY AddressFacts, GoodFresh
  <2>6. IsFiniteSet({}) /\ {} \in SUBSET Fail
    BY FS_EmptySet
  <2>7. QED
    BY <1>0, <1>1, <2>1, <2>4, <2>5, <2>6, NoEntryFacts, LimitRequest
<1>4. CASE entries[a].bannedUntil = 0
  <2>1. entries' = [entries EXCEPT ![a] = entries[a]]
    BY <1>0, <1>4 DEF Allowed
  <2>2. fails' = [fails EXCEPT ![a] = fails[a]]
    BY <1>0
  <2>3. Good(entries[a], fails[a], Verifying(a)', now)
    BY <1>2, <1>4, AddressFacts, GoodRequests
  <2>4. QED
    BY <1>0, <1>1, <2>1, <2>2, <2>3, AddressFacts, LimitRequest
<1>5. QED
    BY <1>3, <1>4

\* Request r is through with the limiter.
LEMMA Through ==
    ASSUME Types, NEW r \in Reqs, NEW a, ip[r] = a, pc[r] = "verify",
           pc' = [pc EXCEPT ![r] = "idle"], ip' = ip
    PROVE  r \in Verifying(a) /\ Verifying(a)' = Verifying(a) \ {r}
  BY DEF Types, Verifying

\* A failure; the one that begins a cooldown is deserved.
LEMMA LimitFailure ==
    ASSUME LimitInv, NEW r \in Reqs, RecordFailure(r)
    PROVE  /\ LimitInv'
           /\ \A b \in IPs : entries[b].bannedUntil = 0 /\ entries'[b].bannedUntil # 0
                => Cardinality(fails'[b]) >= Threshold
<1>a. PICK a \in IPs : ip[r] = a
    BY DEF LimitInv, Types
<1> DEFINE e == entries[a]
           x == Failure(a)
           G == fails[a] \cup {x}
<1>0. /\ Types /\ entries \in [IPs -> Entry] /\ fails \in [IPs -> SUBSET Fail]
    BY DEF LimitInv, Types
<1>1. /\ pc[r] = "verify" /\ pc' = [pc EXCEPT ![r] = "idle"] /\ ip' = ip /\ now' = now
      /\ entries' = [entries EXCEPT ![a] = AfterFailure(e)]
      /\ fails' = [fails EXCEPT ![a] = G]
    BY <1>a DEF RecordFailure
<1>2. r \in Verifying(a) /\ Verifying(a)' = Verifying(a) \ {r}
    BY <1>0, <1>1, <1>a, Through
<1>3. /\ e \in Entry /\ fails[a] \in SUBSET Fail /\ IsFiniteSet(fails[a])
      /\ Verifying(a) \in SUBSET Reqs /\ now \in Nat \ {0}
      /\ Good(e, fails[a], Verifying(a), now)
    BY <1>2, AddressFacts
<1>4. x = [at |-> now, nth |-> Cardinality(At(fails[a], now))]
    BY DEF Failure, At
<1> HIDE DEF x, e
<1>5. /\ AfterFailure(e) \in Entry
      /\ Good(AfterFailure(e), G, Verifying(a) \ {r}, now)
      /\ AfterFailure(e).bannedUntil # 0 => Cardinality(G) >= Threshold
  <2>1. CASE e.count = 0 \/ Expired(e)
    BY <1>2, <1>3, <1>4, <2>1, GoodFirst
  <2>2. CASE ~(e.count = 0 \/ Expired(e))
    BY <1>2, <1>3, <1>4, <2>2, GoodAnother
  <2>3. QED
    BY <2>1, <2>2
<1>6. G \in SUBSET Fail /\ IsFiniteSet(G)
  <2>1. x \in Fail
    BY <1>3, <1>4, PartFacts DEF Fail
  <2>2. QED
    BY <1>3, <2>1, FS_AddElement
<1>7. promised' \in [IPs -> Nat] /\ overlap' \in [IPs -> BOOLEAN]
  <2>0. promised \in [IPs -> Nat] /\ overlap \in [IPs -> BOOLEAN] /\ now + Cooldown \in Nat
    BY <1>0, <1>3, ConstantFacts DEF Types
  <2>1. promised' = promised \/ promised' = [promised EXCEPT ![a] = now + Cooldown]
    BY <1>a DEF RecordFailure, histVars
  <2>2. promised' \in [IPs -> Nat]
    BY <2>0, <2>1
  <2> DEFINE o == \E q \in Reqs \ {r} : pc[q] = "verify" /\ ip[q] = a
  <2>3. overlap' = overlap \/ overlap' = [overlap EXCEPT ![a] = o]
    BY <1>a, Zenon DEF RecordFailure, histVars
  <2>4. o \in BOOLEAN
    BY Zenon
  <2> HIDE DEF o
  <2>5. overlap' \in [IPs -> BOOLEAN]
    BY <2>0, <2>3, <2>4
  <2>6. QED
    BY <2>2, <2>5
<1>8. LimitInv'
  <2>1. Good(AfterFailure(e), G, Verifying(a)', now)
    BY <1>2, <1>5
  <2> HIDE DEF G
  <2>2. QED
    <3> DEFINE d == AfterFailure(e)
    <3>1. d \in Entry /\ entries' = [entries EXCEPT ![a] = d] /\ Good(d, G, Verifying(a)', now)
      BY <1>1, <1>5, <2>1
    <3> HIDE DEF d
    <3>2. fails' = [fails EXCEPT ![a] = G] /\ now' = now
      BY <1>1 DEF G
    <3>3. pc' = [pc EXCEPT ![r] = "idle"] /\ ip' = ip /\ ip[r] = a
      BY <1>1, <1>a
    <3>4. G \in SUBSET Fail /\ IsFiniteSet(G)
      BY <1>6
    <3>5. QED
      BY <1>2, <1>7, <3>1, <3>2, <3>3, <3>4, LimitRequest
<1>9. ASSUME NEW b \in IPs, entries[b].bannedUntil = 0, entries'[b].bannedUntil # 0
      PROVE  Cardinality(fails'[b]) >= Threshold
  <2>1. b = a
    BY <1>0, <1>1, <1>2, <1>9
  <2>2. entries'[b] = AfterFailure(e) /\ fails'[b] = G
    BY <1>0, <1>1, <1>2, <2>1
  <2>3. QED
    BY <1>5, <1>9, <2>2
<1>10. QED
    BY <1>8, <1>9

LEMMA LimitSuccess ==
    ASSUME LimitInv, NEW r \in Reqs, RecordSuccess(r)
    PROVE  LimitInv'
<1>a. PICK a \in IPs : ip[r] = a
    BY DEF LimitInv, Types
<1>0. Types /\ promised \in [IPs -> Nat] /\ overlap \in [IPs -> BOOLEAN]
    BY DEF LimitInv, Types
<1>1. /\ pc[r] = "verify" /\ pc' = [pc EXCEPT ![r] = "idle"] /\ ip' = ip /\ now' = now
      /\ entries' = [entries EXCEPT ![a] = NoEntry]
      /\ fails' = [fails EXCEPT ![a] = {}]
      /\ promised' = [promised EXCEPT ![a] = 0]
    BY <1>a DEF RecordSuccess, Forget
<1>2. overlap' = [overlap EXCEPT ![a] = FALSE]
    BY <1>a DEF RecordSuccess
<1>4. promised' \in [IPs -> Nat]
    BY <1>0, <1>1
<1>5. overlap' \in [IPs -> BOOLEAN]
    BY <1>0, <1>2
<1>6. Good(NoEntry, {}, Verifying(a)', now)
    BY AddressFacts, GoodFresh
<1>7. IsFiniteSet({}) /\ {} \in SUBSET Fail
    BY FS_EmptySet
<1>8. QED
    BY <1>1, <1>a, <1>4, <1>5, <1>6, <1>7, NoEntryFacts, LimitRequest

LEMMA LimitBadChannel ==
    ASSUME LimitInv, NEW r \in Reqs, BadChannel(r)
    PROVE  LimitInv'
<1>a. PICK a \in IPs : ip[r] = a
    BY DEF LimitInv, Types
<1>0. /\ Types /\ promised \in [IPs -> Nat] /\ overlap \in [IPs -> BOOLEAN]
      /\ entries \in [IPs -> Entry] /\ fails \in [IPs -> SUBSET Fail]
    BY DEF LimitInv, Types
<1>1. /\ pc[r] = "verify" /\ pc' = [pc EXCEPT ![r] = "idle"] /\ ip' = ip /\ now' = now
      /\ UNCHANGED <<entries, fails, promised, overlap>>
    BY DEF BadChannel, histVars
<1>2. /\ entries' = [entries EXCEPT ![a] = entries[a]]
      /\ fails' = [fails EXCEPT ![a] = fails[a]]
    BY <1>0, <1>1
<1>3. promised' \in [IPs -> Nat] /\ overlap' \in [IPs -> BOOLEAN]
    BY <1>0, <1>1, Zenon
<1>4. r \in Verifying(a) /\ Verifying(a)' = Verifying(a) \ {r}
    BY <1>0, <1>1, <1>a, Through
<1>5. Verifying(a)' \in SUBSET Reqs /\ Verifying(a)' \subseteq Verifying(a)
    BY <1>4 DEF Verifying
<1>6. Good(entries[a], fails[a], Verifying(a)', now)
    BY <1>4, <1>5, AddressFacts, GoodRequests
<1>7. QED
    BY <1>1, <1>2, <1>3, <1>a, <1>6, AddressFacts, LimitRequest

LEMMA LimitStep == LimitInv /\ [Next]_vars => LimitInv'
<1> SUFFICES ASSUME LimitInv, [Next]_vars PROVE LimitInv'
    OBVIOUS
<1>1. CASE UNCHANGED vars
  <2>1. UNCHANGED <<now, entries, pc, ip, fails, promised, overlap>>
    BY <1>1 DEF vars, histVars
  <2>2. Types' /\ \A a \in IPs : Verifying(a)' = Verifying(a)
    BY <2>1 DEF LimitInv, Types, Verifying
  <2>3. QED
    BY <2>1, <2>2 DEF LimitInv
<1>2. QED
    BY <1>1, LimitTick, LimitAllowed, LimitFailure, LimitSuccess, LimitBadChannel DEF Next

LEMMA LimitInvariant == Spec => []LimitInv
    BY LimitInit, LimitStep, PTL DEF Spec

\* In any Window an address fails at most about twice Threshold, plus twice the
\* requests that may overlap, for any number of addresses and requests and any
\* parameters of the limiter.
THEOREM FailureRateBoundedHolds == Spec => []FailureRateBounded
<1>1. LimitInv => FailureRateBounded
  <2> SUFFICES ASSUME LimitInv PROVE FailureRateBounded
    OBVIOUS
  <2>1. TypeOK
    <3>1. ASSUME NEW a \in IPs
          PROVE  /\ entries[a].count \in Nat /\ entries[a].firstFail \in 0..now
                 /\ entries[a].bannedUntil \in 0..now + Cooldown
                 /\ entries[a].count = 0 => entries[a] = NoEntry
                 /\ \A f \in fails[a] : f.at \in 1..now
      <4>1. /\ entries[a].count \in Nat /\ entries[a].firstFail \in Nat
            /\ entries[a].bannedUntil \in Nat /\ now \in Nat
        BY AddressFacts, EntryFacts
      <4>2. /\ entries[a].firstFail <= now /\ entries[a].bannedUntil <= now + Cooldown
            /\ entries[a].count = 0 => entries[a] = NoEntry
            /\ \A f \in fails[a] : f.at \in 1..now
        BY AddressFacts DEF Good, Failures
      <4>3. QED
        BY <4>1, <4>2, ConstantFacts
    <3>2. /\ now \in 1..MaxTime /\ pc \in [Reqs -> {"idle", "verify"}]
          /\ ip \in [Reqs -> IPs] /\ promised \in [IPs -> Nat]
          /\ overlap \in [IPs -> BOOLEAN]
      BY DEF LimitInv, Types
    <3>3. QED
      BY <3>1, <3>2 DEF TypeOK
  <2>2. ASSUME NEW a \in IPs
        PROVE  Cardinality(fails[a]) <= 2 * (Threshold + Cardinality(Reqs)) - 4
    <3> DEFINE e == entries[a]
               F == fails[a]
    <3>0. e \in Entry /\ F \in SUBSET Fail /\ IsFiniteSet(F)
          /\ Good(e, F, Verifying(a), now)
      BY AddressFacts
    <3> HIDE DEF e, F
    <3>1. CASE e.count = 0
      <4>1. Cardinality(F) = 0
        BY <3>0, <3>1, FS_EmptySet DEF Good
      <4>2. QED
        BY <4>1, ConstantFacts DEF F
    <3>2. CASE e.count # 0
      <4>1. F = Before(e, F) \cup From(e, F) /\ Before(e, F) \cap From(e, F) = {}
        <5>1. e.firstFail \in Nat /\ \A f \in F : f.at \in Nat
          BY <3>0, EntryFacts DEF Fail
        <5>2. QED
          BY <5>1 DEF Before, From
      <4>2. Cardinality(F) = Cardinality(Before(e, F)) + Cardinality(From(e, F))
        <5>1. IsFiniteSet(Before(e, F)) /\ IsFiniteSet(From(e, F))
          BY <3>0, PartFacts
        <5>2. Cardinality(Before(e, F) \cup From(e, F)) =
                Cardinality(Before(e, F)) + Cardinality(From(e, F)) - Cardinality({})
          BY <4>1, <5>1, FS_Union
        <5>3. QED
          <6>1. /\ Cardinality(Before(e, F)) \in Nat /\ Cardinality(From(e, F)) \in Nat
                /\ Cardinality({}) = 0
            BY <3>0, PartFacts, FS_EmptySet
          <6>2. Cardinality(F) = Cardinality(Before(e, F) \cup From(e, F))
            BY <4>1, Zenon
          <6>3. QED
            BY <5>2, <6>1, <6>2
      <4>3. /\ Cardinality(Before(e, F)) <= Threshold + Cardinality(Reqs) - 3
            /\ Cardinality(From(e, F)) <= e.count
            /\ Cardinality(Before(e, F)) \in Nat /\ Cardinality(From(e, F)) \in Nat
        BY <3>0, <3>2, PartFacts DEF Good, Counted
      <4>4. e.count \in Nat /\ e.count <= Threshold + Cardinality(Reqs) - 1
        <5>1. IsFiniteSet(Verifying(a)) /\ Cardinality(Verifying(a)) \in Nat
          BY AddressFacts, LimiterAssumption, FS_Subset, FS_CardinalityType
        <5>2. \/ e.count < Threshold
              \/ e.count + Cardinality(Verifying(a)) < Threshold + Cardinality(Reqs)
          BY <3>0 DEF Good, Capped
        <5>3. e.count \in Nat
          BY <3>0, EntryFacts
        <5>4. QED
          BY <5>1, <5>2, <5>3, ConstantFacts
      <4>5. QED
        BY <4>2, <4>3, <4>4, ConstantFacts DEF F
    <3>3. QED
      BY <3>1, <3>2
  <2>3. QED
    BY <2>1, <2>2 DEF FailureRateBounded
<1>2. QED
    BY <1>1, LimitInvariant, PTL

\* A cooldown begins only with Threshold failures of the address itself, within
\* Window and since its last success, however its requests overlap.
THEOREM CooldownDeservedHolds == Spec => CooldownDeserved
<1> DEFINE Deserved == \A a \in IPs :
        entries[a].bannedUntil = 0 /\ entries'[a].bannedUntil # 0
            => Cardinality(fails'[a]) >= Threshold
<1>1. LimitInv /\ [Next]_vars => [Deserved]_vars
  <2> SUFFICES ASSUME LimitInv, Next PROVE Deserved
    OBVIOUS
  <2>1. CASE \E r \in Reqs : RecordFailure(r)
    BY <2>1, LimitFailure
  <2>2. CASE UNCHANGED entries
    BY <2>2
  <2>3. ASSUME NEW b \in IPs, entries' = Forget(b) PROVE Deserved
    <3>1. \A a \in IPs : entries'[a] = entries[a] \/ entries'[a] = NoEntry
      BY <2>3 DEF Forget, LimitInv, Types
    <3>2. QED
      BY <3>1, NoEntryFacts
  <2>4. \A r \in Reqs : ip[r] \in IPs
    BY DEF LimitInv, Types
  <2>5. QED
    BY <2>1, <2>2, <2>3, <2>4 DEF Next, Tick, Allowed, RecordSuccess, BadChannel
<1>2. Spec => [][Deserved]_vars
    BY <1>1, LimitInvariant, PTL DEF Spec
<1>3. QED
    BY <1>2 DEF CooldownDeserved

-----------------------------------------------------------------------------
(* The cooldown is served.                                                 *)

\* A request step for address a leaves what the others are owed.
LEMMA ServedOthers ==
    ASSUME LimitInv, ServedInv, NEW r \in Reqs, NEW a \in IPs, NEW b \in IPs, b # a,
           now' = now, entries'[b] = entries[b],
           promised'[b] = promised[b], overlap'[b] = overlap[b],
           \/ /\ pc' = [pc EXCEPT ![r] = "idle"] /\ ip' = ip /\ ip[r] = a
           \/ /\ pc[r] = "idle" /\ pc' = [pc EXCEPT ![r] = "verify"]
              /\ ip' = [ip EXCEPT ![r] = a]
    PROVE  Served(b)'
<1>1. Verifying(b)' = Verifying(b)
    BY OthersVerify DEF LimitInv
<1>2. QED
    BY <1>1 DEF ServedInv, Served

LEMMA ServedTick ==
    ASSUME LimitInv, ServedInv, Tick
    PROVE  ServedInv'
<1>1. now' = now + 1 /\ UNCHANGED <<entries, pc, ip, promised, overlap>>
    BY DEF Tick, histVars
<1>2. now \in Nat /\ promised \in [IPs -> Nat]
    BY ConstantFacts DEF LimitInv, Types
<1>3. ASSUME NEW a \in IPs PROVE Served(a)'
  <2>1. Verifying(a)' = Verifying(a)
    BY <1>1 DEF Verifying
  <2>2. now' < promised[a] => now < promised[a]
    BY <1>1, <1>2
  <2>3. QED
    BY <1>1, <2>1, <2>2 DEF ServedInv, Served
<1>4. QED
    BY <1>3 DEF ServedInv

\* No request of an address passes Allowed while the address is owed a cooldown.
LEMMA AllowedServed ==
    ASSUME LimitInv, ServedInv, NEW r \in Reqs, NEW a \in IPs, Allowed(r, a)
    PROVE  ~(now < promised[a] /\ ~overlap[a])
<1> SUFFICES ASSUME now < promised[a], ~overlap[a] PROVE FALSE
    OBVIOUS
<1>1. entries[a].bannedUntil = promised[a]
    BY DEF ServedInv, Served
<1>2. now \in Nat /\ promised[a] \in Nat
    BY ConstantFacts DEF LimitInv, Types
<1>3. InCooldown(a)
    BY <1>1, <1>2 DEF InCooldown
<1>4. QED
    BY <1>3 DEF Allowed

LEMMA ServedAllowed ==
    ASSUME LimitInv, ServedInv, NEW r \in Reqs, NEW a \in IPs, Allowed(r, a)
    PROVE  ServedInv'
<1>0. /\ entries \in [IPs -> Entry] /\ promised \in [IPs -> Nat] /\ overlap \in [IPs -> BOOLEAN]
    BY DEF LimitInv, Types
<1>1. /\ pc[r] = "idle" /\ pc' = [pc EXCEPT ![r] = "verify"] /\ ip' = [ip EXCEPT ![r] = a]
      /\ now' = now /\ promised' = promised /\ overlap' = overlap
    BY DEF Allowed, histVars
<1>2. Served(a)'
    BY <1>1, AllowedServed DEF Served
<1>3. ASSUME NEW b \in IPs, b # a PROVE Served(b)'
  <2>1. entries'[b] = entries[b]
    BY <1>0, <1>3 DEF Allowed, Forget
  <2>2. promised'[b] = promised[b] /\ overlap'[b] = overlap[b]
    BY <1>1
  <2>3. QED
    BY <1>1, <1>3, <2>1, <2>2, ServedOthers
<1>4. QED
    BY <1>2, <1>3 DEF ServedInv

\* A failure that earns the cooldown while no other request of its address is
\* past Allowed: the entry carries the cooldown, and nobody is left to lift it.
LEMMA ServedFailure ==
    ASSUME LimitInv, ServedInv, NEW r \in Reqs, RecordFailure(r)
    PROVE  ServedInv'
<1>a. PICK a \in IPs : ip[r] = a
    BY DEF LimitInv, Types
<1> DEFINE e == entries[a]
           d == AfterFailure(e)
           o == \E q \in Reqs \ {r} : pc[q] = "verify" /\ ip[q] = a
<1>0. /\ Types /\ entries \in [IPs -> Entry] /\ promised \in [IPs -> Nat]
      /\ overlap \in [IPs -> BOOLEAN]
    BY DEF LimitInv, Types
<1>1. /\ pc[r] = "verify" /\ pc' = [pc EXCEPT ![r] = "idle"] /\ ip' = ip /\ now' = now
      /\ entries' = [entries EXCEPT ![a] = d]
    BY <1>a DEF RecordFailure
<1>2. r \in Verifying(a) /\ Verifying(a)' = Verifying(a) \ {r}
    BY <1>0, <1>1, <1>a, Through
<1>3. ~(now < promised[a] /\ ~overlap[a])
    BY <1>2 DEF ServedInv, Served
<1>4. entries'[a] = d
    BY <1>0, <1>1
<1>5. \/ /\ d.count >= Threshold /\ promised' = [promised EXCEPT ![a] = now + Cooldown]
         /\ overlap' = [overlap EXCEPT ![a] = o]
      \/ promised' = promised /\ overlap' = overlap
    BY <1>4, <1>a, Zenon DEF RecordFailure, histVars
<1>6. d.count >= Threshold => d.bannedUntil = now + Cooldown
  <2>1. e \in Entry /\ e.count \in Nat /\ e.bannedUntil \in Nat /\ now \in Nat
    BY <1>a, AddressFacts, EntryFacts
  <2>2. CASE e.count = 0 \/ Expired(e)
    <3>1. d.count = 1
      BY <2>2 DEF AfterFailure
    <3>2. QED
      BY <3>1, ConstantFacts
  <2>3. CASE ~(e.count = 0 \/ Expired(e))
    <3>1. BanAfter(e, e.count + 1) \in Nat
      BY <2>1, ConstantFacts DEF BanAfter
    <3>2. d.count = e.count + 1 /\ d.bannedUntil = BanAfter(e, e.count + 1)
      BY <2>1, <2>3, <3>1, AfterAnother
    <3>3. QED
      BY <3>2 DEF BanAfter
  <2>4. QED
    BY <2>2, <2>3
<1>7. ~o => Verifying(a)' = {}
    BY <1>2 DEF Verifying
<1> HIDE DEF d, o
<1>8. CASE /\ d.count >= Threshold /\ promised' = [promised EXCEPT ![a] = now + Cooldown]
           /\ overlap' = [overlap EXCEPT ![a] = o]
  <2>1. promised'[a] = now + Cooldown /\ overlap'[a] = o
    BY <1>0, <1>8
  <2>2. Served(a)'
    BY <1>4, <1>6, <1>7, <1>8, <2>1 DEF Served
  <2>3. ASSUME NEW b \in IPs, b # a PROVE Served(b)'
    <3>1. entries'[b] = entries[b] /\ promised'[b] = promised[b]
      BY <1>0, <1>1, <1>8, <2>3
    <3>2. overlap'[b] = overlap[b]
      BY <1>0, <1>8, <2>3
    <3>3. QED
      BY <1>1, <1>a, <2>3, <3>1, <3>2, ServedOthers
  <2>4. QED
    BY <2>2, <2>3 DEF ServedInv
<1>9. CASE promised' = promised /\ overlap' = overlap
  <2>1. Served(a)'
    BY <1>1, <1>3, <1>9 DEF Served
  <2>2. ASSUME NEW b \in IPs, b # a PROVE Served(b)'
    <3>1. entries'[b] = entries[b]
      BY <1>0, <1>1, <2>2
    <3>2. promised'[b] = promised[b] /\ overlap'[b] = overlap[b]
      BY <1>9
    <3>3. QED
      BY <1>1, <1>a, <2>2, <3>1, <3>2, ServedOthers
  <2>3. QED
    BY <2>1, <2>2 DEF ServedInv
<1>10. QED
    BY <1>5, <1>8, <1>9

LEMMA ServedSuccess ==
    ASSUME LimitInv, ServedInv, NEW r \in Reqs, RecordSuccess(r)
    PROVE  ServedInv'
<1>a. PICK a \in IPs : ip[r] = a
    BY DEF LimitInv, Types
<1>0. /\ entries \in [IPs -> Entry] /\ promised \in [IPs -> Nat]
      /\ overlap \in [IPs -> BOOLEAN] /\ now \in Nat
    BY ConstantFacts DEF LimitInv, Types
<1>1. /\ pc' = [pc EXCEPT ![r] = "idle"] /\ ip' = ip /\ now' = now
      /\ entries' = [entries EXCEPT ![a] = NoEntry] /\ promised' = [promised EXCEPT ![a] = 0]
    BY <1>a DEF RecordSuccess, Forget
<1>2. overlap' = [overlap EXCEPT ![a] = FALSE]
    BY <1>a DEF RecordSuccess
<1>3. ~(now' < promised'[a])
    BY <1>0, <1>1
<1>4. Served(a)'
    BY <1>3 DEF Served
<1>5. ASSUME NEW b \in IPs, b # a PROVE Served(b)'
  <2>1. entries'[b] = entries[b] /\ promised'[b] = promised[b]
    BY <1>0, <1>1, <1>5
  <2>2. overlap'[b] = overlap[b]
    BY <1>0, <1>2, <1>5
  <2>3. QED
    BY <1>1, <1>a, <1>5, <2>1, <2>2, ServedOthers
<1>6. QED
    BY <1>4, <1>5 DEF ServedInv

LEMMA ServedBadChannel ==
    ASSUME LimitInv, ServedInv, NEW r \in Reqs, BadChannel(r)
    PROVE  ServedInv'
<1>a. PICK a \in IPs : ip[r] = a
    BY DEF LimitInv, Types
<1>1. /\ pc[r] = "verify" /\ pc' = [pc EXCEPT ![r] = "idle"] /\ ip' = ip /\ now' = now
      /\ entries' = entries /\ promised' = promised /\ overlap' = overlap
    BY DEF BadChannel, histVars
<1>2. r \in Verifying(a)
    BY <1>1, <1>a, Through DEF LimitInv
<1>3. Served(a)'
    BY <1>1, <1>2 DEF ServedInv, Served
<1>4. ASSUME NEW b \in IPs, b # a PROVE Served(b)'
    BY <1>1, <1>a, <1>4, ServedOthers
<1>5. QED
    BY <1>3, <1>4 DEF ServedInv

LEMMA ServedStep == LimitInv /\ ServedInv /\ [Next]_vars => ServedInv'
<1> SUFFICES ASSUME LimitInv, ServedInv, [Next]_vars PROVE ServedInv'
    OBVIOUS
<1>1. CASE UNCHANGED vars
  <2>1. UNCHANGED <<now, entries, pc, ip, fails, promised, overlap>>
    BY <1>1 DEF vars, histVars
  <2>2. QED
    BY <2>1 DEF ServedInv, Served, Verifying
<1>2. QED
    BY <1>1, ServedTick, ServedAllowed, ServedFailure, ServedSuccess, ServedBadChannel DEF Next

\* An address that earned a cooldown gets no request past Allowed before its end,
\* unless a login succeeded or requests overlapped when the cooldown was earned.
THEOREM CooldownServedHolds == Spec => CooldownServed
<1> DEFINE Kept == \A r \in Reqs :
        pc[r] = "idle" /\ pc'[r] = "verify" =>
            now >= promised[ip'[r]] \/ overlap[ip'[r]]
<1>1. Init => ServedInv
  <2> SUFFICES ASSUME Init, NEW a \in IPs PROVE Served(a)
    BY DEF ServedInv
  <2>1. now = 1 /\ promised[a] = 0
    BY DEF Init
  <2>2. QED
    BY <2>1 DEF Served
<1>2. LimitInv /\ ServedInv /\ [Next]_vars => [Kept]_vars
  <2> SUFFICES ASSUME LimitInv, ServedInv, Next PROVE Kept
    OBVIOUS
  <2> SUFFICES ASSUME NEW q \in Reqs, pc[q] = "idle", pc'[q] = "verify"
               PROVE  now >= promised[ip'[q]] \/ overlap[ip'[q]]
    OBVIOUS
  <2>1. /\ pc \in [Reqs -> {"idle", "verify"}] /\ ip \in [Reqs -> IPs]
        /\ now \in Nat /\ promised \in [IPs -> Nat]
    BY ConstantFacts DEF LimitInv, Types
  <2>2. ASSUME NEW r \in Reqs, NEW a \in IPs, Allowed(r, a)
        PROVE  now >= promised[ip'[q]] \/ overlap[ip'[q]]
    <3>1. pc' = [pc EXCEPT ![r] = "verify"] /\ ip' = [ip EXCEPT ![r] = a]
      BY <2>2 DEF Allowed
    <3>2. q = r /\ ip'[q] = a
      BY <2>1, <3>1
    <3>3. ~(now < promised[a] /\ ~overlap[a])
      BY <2>2, AllowedServed
    <3>4. QED
      BY <2>1, <3>2, <3>3
  <2>3. ASSUME NEW r \in Reqs, pc' = [pc EXCEPT ![r] = "idle"] PROVE FALSE
    BY <2>1, <2>3
  <2>4. ASSUME Tick PROVE FALSE
    BY <2>4 DEF Tick
  <2>5. QED
    BY <2>2, <2>3, <2>4 DEF Next, RecordFailure, RecordSuccess, BadChannel
<1>3. Spec => [][Kept]_vars
    BY <1>1, <1>2, ServedStep, LimitInvariant, PTL DEF Spec
<1>4. QED
    BY <1>3 DEF CooldownServed
=============================================================================

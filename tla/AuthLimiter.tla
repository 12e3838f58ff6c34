---------------------------- MODULE AuthLimiter ----------------------------
(***************************************************************************)
(* The per-IP limiter of failed publisher logins                           *)
(* (relay/internal/ratelimit.go) and the way handlePublish                 *)
(* (relay/internal/server.go) uses it: Allowed first, then token           *)
(* verification without any lock, then RecordFailure or RecordSuccess, so  *)
(* requests of one IP overlap.  Each limiter call is one step: it reads    *)
(* the clock and then holds the limiter's mutex for a few map operations,  *)
(* which is short against a clock tick.                                    *)
(***************************************************************************)
EXTENDS Integers, FiniteSets

CONSTANTS
    IPs,        \* source addresses, as ClientIP extracts them
    Reqs,       \* /publish requests in flight
    Threshold,  \* 5
    Window,     \* one minute
    Cooldown,   \* five minutes
    MaxTime     \* bound: length of a behaviour in clock ticks

ASSUME LimiterAssumption ==
    /\ Threshold \in Nat /\ Threshold >= 2
    /\ Window \in Nat /\ Cooldown \in Nat /\ Cooldown > Window
    /\ MaxTime \in Nat \ {0}
    /\ IsFiniteSet(Reqs) /\ Reqs # {}

VARIABLES
    now,      \* time.Now()
    entries,  \* ip -> [count, firstFail, bannedUntil]; count 0 is no entry
    pc,       \* request: "idle" or "verify" (Allowed said yes)
    ip,       \* request: its source address
    fails,    \* history: failures of ip not older than Window, since its last
              \*   success: [at, nth], the nth of those at that time
    promised, \* history: end of the cooldown ip has earned, 0 for none
    overlap   \* history: another request of ip was past Allowed when ip
              \*   earned its cooldown

histVars == <<promised, overlap>>
vars == <<now, entries, pc, ip, fails, histVars>>

NoEntry == [count |-> 0, firstFail |-> 0, bannedUntil |-> 0]

\* Names ending in M are plausible mistakes in the definition that follows;
\* no action uses them.

Init ==
    /\ now = 1
    /\ entries = [a \in IPs |-> NoEntry]
    /\ pc = [r \in Reqs |-> "idle"]
    /\ ip \in [Reqs -> IPs]
    /\ fails = [a \in IPs |-> {}]
    /\ promised = [a \in IPs |-> 0]
    /\ overlap = [a \in IPs |-> FALSE]

\* The failures of a not older than Window at time t.
Recent(a, t) == {f \in fails[a] : t - f.at <= Window}

Tick ==
    /\ now < MaxTime
    /\ now' = now + 1
    /\ fails' = [a \in IPs |-> Recent(a, now + 1)]
    /\ UNCHANGED <<entries, pc, ip, histVars>>

\* The entry says the IP is in cooldown.
\* (The mistake: the cooldown ends with the window.)
InCooldownM(a) == entries[a].bannedUntil # 0 /\ now - entries[a].firstFail <= Window
InCooldown(a) == entries[a].bannedUntil # 0 /\ now < entries[a].bannedUntil

\* delete(l.entries, ip)
Forget(a) == [entries EXCEPT ![a] = NoEntry]

\* Allowed says yes; an entry whose cooldown is over is deleted.  When it says
\* no the request gets 429 and nothing changes.
Allowed(r, a) ==
    /\ pc[r] = "idle"
    /\ ~InCooldown(a)
    /\ entries' = IF entries[a].bannedUntil # 0
                  THEN Forget(a) ELSE entries
    /\ pc' = [pc EXCEPT ![r] = "verify"]
    /\ ip' = [ip EXCEPT ![r] = a]
    /\ UNCHANGED <<now, fails, histVars>>

\* The failure window of an entry is over.
ExpiredM(e) == FALSE
Expired(e) == now - e.firstFail > Window

\* bannedUntil after a failure that is the n-th in the window.
BanAfterM(e, n) == IF n > Threshold THEN now + Cooldown ELSE e.bannedUntil
BanAfter(e, n) == IF n >= Threshold THEN now + Cooldown ELSE e.bannedUntil

\* The entry after one more failure; an expired window starts afresh, and so
\* does the entry of an IP in cooldown.
AfterFailure(e) ==
    IF e.count = 0 \/ Expired(e)
    THEN [count |-> 1, firstFail |-> now, bannedUntil |-> 0]
    ELSE [e EXCEPT !.count = @ + 1, !.bannedUntil = BanAfter(e, e.count + 1)]

\* History: the failure of a that happens now.
Failure(a) == [at |-> now, nth |-> Cardinality({f \in fails[a] : f.at = now})]

\* VerifyToken rejects the token: RecordFailure, 401.
RecordFailure(r) ==
    LET a == ip[r] IN
    /\ pc[r] = "verify"
    /\ entries' = [entries EXCEPT ![a] = AfterFailure(@)]
    /\ fails' = [fails EXCEPT ![a] = @ \cup {Failure(a)}]
    /\ IF entries'[a].count >= Threshold
       THEN /\ promised' = [promised EXCEPT ![a] = now + Cooldown]
            /\ overlap' = [overlap EXCEPT ![a] =
                              \E q \in Reqs \ {r} : pc[q] = "verify" /\ ip[q] = a]
       ELSE UNCHANGED histVars
    /\ pc' = [pc EXCEPT ![r] = "idle"]
    /\ UNCHANGED <<now, ip>>

\* VerifyToken accepts the token: RecordSuccess, then on to the registry.
RecordSuccess(r) ==
    LET a == ip[r] IN
    /\ pc[r] = "verify"
    /\ entries' = Forget(a)
    /\ fails' = [fails EXCEPT ![a] = {}]
    /\ promised' = [promised EXCEPT ![a] = 0]
    /\ overlap' = [overlap EXCEPT ![a] = FALSE]
    /\ pc' = [pc EXCEPT ![r] = "idle"]
    /\ UNCHANGED <<now, ip>>

\* ValidateChannelID rejects the id: 400, nothing recorded.
BadChannel(r) ==
    /\ pc[r] = "verify"
    /\ pc' = [pc EXCEPT ![r] = "idle"]
    /\ UNCHANGED <<now, entries, ip, fails, histVars>>

Next ==
    \/ Tick
    \/ \E r \in Reqs :
        \/ \E a \in IPs : Allowed(r, a)
        \/ RecordFailure(r) \/ RecordSuccess(r) \/ BadChannel(r)

Spec == Init /\ [][Next]_vars

-----------------------------------------------------------------------------
(* Properties.                                                             *)

\* Types of the variables; an entry without failures carries no ban.
TypeOK ==
    /\ now \in 1..MaxTime
    /\ \A a \in IPs : /\ entries[a].count \in Nat
                      /\ entries[a].firstFail \in 0..now
                      /\ entries[a].bannedUntil \in 0..now + Cooldown
                      /\ entries[a].count = 0 => entries[a] = NoEntry
    /\ pc \in [Reqs -> {"idle", "verify"}]
    /\ ip \in [Reqs -> IPs]
    /\ \A a \in IPs : \A f \in fails[a] : f.at \in 1..now
    /\ promised \in [IPs -> Nat] /\ overlap \in [IPs -> BOOLEAN]

\* What the limiter does guarantee: a Window of time meets two windows of the
\* limiter at most, without the first failure of the older one, and each ends
\* with Threshold failures plus one for each other request that passed Allowed
\* before the cooldown began; one of those is what ends the older one early.
FailureRateBounded ==
    /\ TypeOK
    /\ \A a \in IPs : Cardinality(fails[a]) <= 2 * (Threshold + Cardinality(Reqs)) - 4

\* An address enters cooldown only for Threshold failures of its own within
\* Window and since its last success.
CooldownDeserved ==
    [][\A a \in IPs :
        entries[a].bannedUntil = 0 /\ entries'[a].bannedUntil # 0
            => Cardinality(fails'[a]) >= Threshold]_vars

\* "... further requests are denied for Cooldown": none is allowed before the
\* cooldown that the address has earned is over, unless a login succeeded, or
\* requests overlapped: one that was past Allowed when the cooldown was earned
\* may fail after the window is over, and that failure lifts the cooldown.
CooldownServed ==
    [][\A r \in Reqs :
        pc[r] = "idle" /\ pc'[r] = "verify" =>
            now >= promised[ip'[r]] \/ overlap[ip'[r]]]_vars
=============================================================================

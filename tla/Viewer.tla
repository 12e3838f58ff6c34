------------------------------- MODULE Viewer -------------------------------
(***************************************************************************)
(* The life of the extension on a page: mount and unmount of               *)
(* extension/src/content/index.ts, which follow the page's address, and    *)
(* the subscriber connection that each mounted mixer owns                  *)
(* (extension/src/relay/client.ts).  One event loop runs everything, but   *)
(* mount awaits twice, so calls of mount overlap with navigation and with  *)
(* each other.                                                             *)
(*                                                                         *)
(* External: the platform's player (its <video> element may be tapped by   *)
(* one audio graph, once), the storage, the browser's WebSocket.           *)
(***************************************************************************)
EXTENDS Integers, Sequences

CONSTANTS
    Pages,        \* addresses the tab may show: [host, path], where the host
                  \*   has lost a leading "www." and path is the sequence of
                  \*   the path's segments, each [text, lower]
    ChannelNames, \* the texts that match CHANNEL_NAME_RE
    MaxMounts     \* bound on the calls of mount

ASSUME ViewerAssumption == MaxMounts \in Nat \ {0}

Twitch == [platform |-> "twitch",
    reserved |-> {"directory", "settings", "videos", "subscriptions", "drops",
                  "wallet", "search", "p", "downloads", "store", "broadcast",
                  "turbo", "friends", "inventory"}]
Kick == [platform |-> "kick",
    reserved |-> {"browse", "categories", "search", "dashboard", "settings",
                  "subscriptions", "following", "messages", "vods"}]
Sites == [h \in {"twitch.tv", "kick.com"} |->
             IF h = "twitch.tv" THEN Twitch ELSE Kick]

\* The channel a page is about, as <<platform, name>>, or <<>> for null.
detectChannel(p) ==
    IF /\ p.host \in DOMAIN Sites
       /\ p.path # <<>>
       /\ p.path[1].lower \in ChannelNames \ Sites[p.host].reserved
    THEN <<Sites[p.host].platform, p.path[1].lower>>
    ELSE <<>>

\* The relay's test of the channel id of a subscriber (external to the page).
ValidateChannelID(c) ==
    Len(c) = 2 /\ c[1] \in {"twitch", "kick"} /\ c[2] \in ChannelNames

VARIABLES
    href,      \* location.href
    lastHref,  \* lastHref
    tapped,    \* the page's <video> already feeds an audio graph
    calls,     \* number of calls of mount so far
    mount,     \* call -> "none", "player", "prefs", "up", "gone", "failed"
    active,    \* the call whose State is active, 0 for null
    channel,   \* call -> the channel it was called for
    closed,    \* call -> closed, of its relay client
    ws,        \* call -> "null", "connecting", "open", "closing"
    timer,     \* call -> pending setTimeout(open)
    raced      \* history: the address changed during a mount

Mounts == 1..MaxMounts
pageVars == <<href, lastHref, tapped, calls>>
clientVars == <<closed, ws, timer>>
vars == <<pageVars, mount, channel, active, clientVars, raced>>

\* Names ending in M are plausible mistakes in the definition that follows;
\* no action uses them.

\* The content script has just run: mount was called for the first address
\* (a call that returns before its first await is not counted).
Init ==
    /\ href \in Pages /\ lastHref = href
    /\ tapped = FALSE
    /\ calls = IF detectChannel(href) # <<>> THEN 1 ELSE 0
    /\ mount = [m \in Mounts |-> IF m <= calls THEN "player" ELSE "none"]
    /\ channel = [m \in Mounts |-> IF m <= calls THEN detectChannel(href) ELSE <<>>]
    /\ active = 0
    /\ closed = [m \in Mounts |-> FALSE]
    /\ ws = [m \in Mounts |-> "null"]
    /\ timer = [m \in Mounts |-> 0]
    /\ raced = FALSE

-----------------------------------------------------------------------------
(* The page.                                                               *)

\* The single-page application moves to another address of its site.
Navigate(p) ==
    /\ p # href /\ p.host = href.host
    /\ href' = p
    /\ UNCHANGED <<lastHref, tapped, calls, mount, channel, active, clientVars, raced>>

\* The platform replaces its <video> element.
Rerender ==
    /\ tapped
    /\ tapped' = FALSE
    /\ UNCHANGED <<href, lastHref, calls, mount, channel, active, clientVars, raced>>

\* The MutationObserver sees a new address: unmount, then mount up to its
\* first await.  destroy closes the relay client, whose socket begins to close.
DestroyedM == {}
Destroyed == {active} \cap Mounts
Pending == {m \in Mounts : mount[m] \in {"player", "prefs"}}
Observe ==
    /\ href # lastHref
    /\ lastHref' = href
    /\ calls' = IF detectChannel(href) # <<>> THEN calls + 1 ELSE calls
    /\ calls' <= MaxMounts
    /\ mount' = [m \in Mounts |->
                    IF m \in Destroyed THEN "gone"
                    ELSE IF m \in calls + 1 .. calls' THEN "player"
                    ELSE mount[m]]
    /\ channel' = [m \in Mounts |-> IF m \in calls + 1 .. calls'
                                    THEN detectChannel(href) ELSE channel[m]]
    /\ active' = 0
    /\ closed' = [m \in Mounts |-> closed[m] \/ m \in Destroyed]
    /\ ws' = [m \in Mounts |-> IF m \in Destroyed /\ ws[m] # "null"
                               THEN "closing" ELSE ws[m]]
    /\ raced' = (raced \/ Pending # {})
    /\ UNCHANGED <<href, tapped, timer>>

-----------------------------------------------------------------------------
(* mount, from one await to the next.                                      *)

\* waitForPlayer found a player: buildGraph taps its <video>, and throws if
\* that element is tapped already.
PlayerFound(m) ==
    /\ mount[m] = "player"
    /\ mount' = [mount EXCEPT ![m] = IF tapped THEN "failed" ELSE "prefs"]
    /\ tapped' = TRUE
    /\ UNCHANGED <<href, lastHref, calls, channel, active, clientVars, raced>>

\* waitForPlayer gave up.
PlayerTimeout(m) ==
    /\ mount[m] = "player"
    /\ mount' = [mount EXCEPT ![m] = "failed"]
    /\ UNCHANGED <<pageVars, channel, active, clientVars, raced>>

\* The preferences are loaded: the panel appears, connect opens a socket, and
\* active is set, whatever it was.
PrefsLoaded(m) ==
    /\ mount[m] = "prefs"
    /\ mount' = [mount EXCEPT ![m] = "up"]
    /\ active' = m
    /\ ws' = [ws EXCEPT ![m] = "connecting"]
    /\ UNCHANGED <<pageVars, channel, closed, timer, raced>>

-----------------------------------------------------------------------------
(* The relay client of call m.                                             *)

OnOpen(m) ==
    /\ ws[m] = "connecting"
    /\ ws' = [ws EXCEPT ![m] = "open"]
    /\ UNCHANGED <<pageVars, mount, channel, active, closed, timer, raced>>

\* onclose, and scheduleReconnect unless the client was closed.  (How long the
\* timer waits is left out, and with it attempt.)
AgainM(m) == FALSE
Again(m) == ~closed[m]
OnClose(m) ==
    /\ ws[m] # "null"
    /\ ws' = [ws EXCEPT ![m] = "null"]
    /\ timer' = [timer EXCEPT ![m] = IF Again(m) THEN @ + 1 ELSE @]
    /\ UNCHANGED <<pageVars, mount, channel, active, closed, raced>>

\* The timer fires: open returns at once if the client was closed meanwhile.
ReopensM(m) == TRUE
Reopens(m) == ~closed[m]
Timer(m) ==
    /\ timer[m] > 0
    /\ timer' = [timer EXCEPT ![m] = @ - 1]
    /\ ws' = [ws EXCEPT ![m] = IF Reopens(m) THEN "connecting" ELSE @]
    /\ UNCHANGED <<pageVars, mount, channel, active, closed, raced>>

Next ==
    \/ \E p \in Pages : Navigate(p)
    \/ Rerender \/ Observe
    \/ \E m \in Mounts :
        \/ PlayerFound(m) \/ PlayerTimeout(m) \/ PrefsLoaded(m)
        \/ OnOpen(m) \/ OnClose(m) \/ Timer(m)

Spec == Init /\ [][Next]_vars

\* Timers fire, a handshake or a closing ends, and a relay that is tried again
\* and again is reached in the end.
Fairness == \A m \in Mounts :
    /\ WF_vars(Timer(m))
    /\ WF_vars(ws[m] \in {"connecting", "closing"} /\ (OnOpen(m) \/ OnClose(m)))
    /\ SF_vars(OnOpen(m))

LiveSpec == Spec /\ Fairness

-----------------------------------------------------------------------------
(* Properties.                                                             *)

\* Types.
TypeOK ==
    /\ href \in Pages /\ lastHref \in Pages
    /\ tapped \in BOOLEAN /\ raced \in BOOLEAN
    /\ calls \in 0..MaxMounts
    /\ mount \in [Mounts -> {"none", "player", "prefs", "up", "gone", "failed"}]
    /\ \A m \in Mounts : channel[m] \in {detectChannel(p) : p \in Pages} \cup {<<>>}
    /\ active \in 0..MaxMounts
    /\ closed \in [Mounts -> BOOLEAN]
    /\ ws \in [Mounts -> {"null", "connecting", "open", "closing"}]
    /\ timer \in [Mounts -> 0..1]

\* Reconnection is single-flight, and a destroyed mixer is silent for good: a
\* client never has two sockets or timers at work, and after close nothing that
\* was under way (a handshake, an open socket, a pending timer) opens a socket.
SingleFlight ==
    /\ TypeOK
    /\ \A m \in Mounts : /\ ws[m] # "null" => timer[m] = 0
                         /\ mount[m] = "gone" => ws[m] \in {"null", "closing"}

\* Without a race between navigation and mount, unmount leaves nothing behind:
\* the mixer on the page is the active one, it plays the channel of the page
\* once the observer has seen the address, and on a page without a channel "the
\* extension stays inactive".  The relay takes the channel it asks for.
OnlyRacesLeak ==
    ~raced => \A m \in Mounts : mount[m] = "up" =>
        /\ active = m
        /\ href = lastHref => channel[m] = detectChannel(href)
        /\ ValidateChannelID(channel[m])

\* A mounted mixer whose connection is lost or refused gets it back.
Reconnects == \A m \in Mounts :
    mount[m] = "up" ~> ws[m] = "open" \/ mount[m] = "gone"

\* A destroyed mixer ends with no socket and no timer.
Quiesces == \A m \in Mounts :
    mount[m] = "gone" ~> [](ws[m] = "null" /\ timer[m] = 0)
=============================================================================

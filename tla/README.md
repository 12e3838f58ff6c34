# Streammix: a TLA+ model

Streammix lets a viewer of a live stream mix its audio tracks. A *publisher*
captures tracks on the streamer's machine and sends them to a *relay*; a browser
*extension* subscribes to the relay and plays the tracks beside the page's own
video. These modules model the parts of that chain that carry state, check them
with TLC on small instances, and prove every safety property of the passing runs
with TLAPS for every value of the constants.

## The system

    capture threads ──Enqueue──▶ WsClient ──/publish──▶ relay handler
      (main.cpp)                (ws_client.cpp)          │ Registry.GetOrCreate
                                                         ▼ Channel.Broadcast
    playback lane ◀─ mixer ◀─ RelayClient ◀─/subscribe─ subscriber.send
    (decoder, scheduler)      (content/index.ts)        (server.go writer loop)

| part | state | operations | hard behaviour | what makes it correct |
|---|---|---|---|---|
| hub, `relay/internal/channel.go`, `server.go` | publisher flag, subscriber map, bounded queue per subscriber, broadcast scratch slice | claim/release, subscribe/unsubscribe, broadcast, deliver (drop-oldest) | goroutines share the map under a mutex, but `closed` and `send` are touched outside it; `close` races with a send; writes block up to 5 s | one publisher; order kept, nothing repeated, losses counted; newest packet kept; a slow viewer never blocks the publisher; leaving viewers are removed |
| registry, `registry.go`, reaper loop in `main.go` | map from id to hub | `GetOrCreate`, `Reap`, `Snapshot` | `Reap` checks under one lock and deletes under another | caps; a channel in use stays reachable; idle channels go |
| login limiter, `ratelimit.go` | per-address count, window start, ban | `Allowed`, `RecordFailure`, `RecordSuccess` | requests of one address overlap; time boundaries | cooldown is earned, bounded, and served |
| publisher connection, `ws_client.cpp`, `main.cpp` | outbound queue, connection flags, backoff | `Enqueue`, lws callbacks, `TryConnect`, watchdog, `Stop` | four kinds of threads; wake-ups; a queue that is cleared and refilled around a reconnect | no stale audio, announcement first, no lost wake-up, reconnects, stops |
| viewer mount and relay client, `content/index.ts`, `relay/client.ts`, `platform/` | active mixer, sockets, reconnect timers | `detectChannel`, `mount`, `unmount`, observer, `open`, `scheduleReconnect`, `close` | `mount` awaits twice while the page may navigate | one socket per client; the mixer is the page's; nothing left behind |
| mixer, `content/index.ts`, `audio/graph.ts`, `ui/Mixer.svelte`, `store/prefs.ts` | track list, sliders, mutes, settings, audio nodes and wires, lanes, stored overrides | track lists, slider, mute, solo, residual, offset, reset, save | five maps and a graph kept in step by ten callbacks; a snapshot of the preferences | what is heard is what is shown, and what is saved is too; a re-announcement keeps the mix |
| playback lane, `audio/decoder.ts`, `audio/scheduler.ts` | decoder state, sequence base, play cursor, live sources | `decode`, output and error callbacks, `enqueue`, `close` | bursts, stalls, restarts, a suspended clock | no overlap, no avoidable gap, bounded lag, silence after close |
| wire codecs, `shared/`, and dispatch, `relay/client.ts` | none | header encode/decode in Go, TypeScript, C++; payload encode/decode in Go, TypeScript; `handleMessage` | three implementations, written by hand, must agree; malformed input is dropped in silence | round trip across languages, same verdict on every message, nothing accepted that an encoder would not write |
| publisher command line, `cli.cpp`, and announcement, `main.cpp` | configured tracks | `ParseArgs`, `ParseTrackArg`, `BuildTrackListPayload`, `EncodeFrameOrLog` | JSON put together by hand from free text; a frame that fails to encode | what the command line accepts, the relay carries and the viewer shows |
| session, `main.cpp`, `channel.go`, `content/index.ts`, `tools/` | tracks of the publisher's process, queues, each subscriber's index of ids | announce, send, broadcast, join, leave, rejoin, restart | ids mean what the last list said, and lists are sent once per connection, to those who are there | audio is played as the track it was captured from; everybody learns the tracks |
| tokens, configuration, metrics, capture and encoder, popup, background page, OBS plugin | — | — | — | not modelled, see below |

`PROJECT.json` lists the components, and under `hazards` every place where a
test would hardly reach what can go wrong, with the properties that watch it.

## The modules

A definition carries the source's name where it can; `map` in `PROJECT.json`
gives its lines. A definition whose name ends in `M` (or `M2`) is a plausible
mistake in the definition that follows it. No action uses it; it exists so that
each property can be seen to fail when the code is wrong in that way.

**Channel** is one hub with its handlers. `pubPc[p]` walks `handlePublish`:
claim, accept, read, the snapshot of `Broadcast` under the lock, then one step
per subscriber visited and one per `select` of `deliver` (`TrySend`,
`DropOldest`, `Resend`), because the writer loop and the unsubscribe run between
them. `subPc[s]` walks `handleSubscribe`: subscribe, accept, the writer loop
(`Recv`, `WriteOk`/`WriteFail`, `CtxDone`), the unsubscribe. The unsubscribe
section is two steps (`UnsubFlag`, `UnsubClose`) although it holds the mutex,
since `deliver` reads `closed` and `send` without it. `mu` is a variable for the
same reason: it keeps `Subscribe`, `Snapshot` and the rest out between the two.
A send on a closed channel panics and is recovered in `deliver`; the model ends
that `deliver` there. A refused request changes nothing and is a stuttering step.

**Fanout** is what a hub promises, without queues and locks: one live publisher,
packets numbered in order of broadcast, and for each viewer an increasing
subsequence of what is published after it joins, none repeated. Channel
implements it under the mapping `Fan` (viewer status from `subPc`, `seen` from
the last packet written, `got` from the number written).

**Registry** has the table, the hubs as objects of their own, handlers that hold
a `*Channel` between `GetOrCreate` and entering it, and the reaper with its
`Stats` call and its `delete` as separate steps. Inside a hub it keeps only
whether there is a publisher and who subscribes.

**AuthLimiter** has a discrete clock, one entry per address, and requests that
pass `Allowed` and record their result later. `fails` (the failures of an address
in the last window, told apart by their time and a number), `promised` and
`overlap` are history.

**WsClient** has the service thread (one lws callback, then the loop body), the
watchdog, capture threads whose `Enqueue` is a push and a later wake-up, and the
main thread's shutdown. libwebsockets is external: `lws_service` returns for a
cancel, the end of a handshake, a writable socket that was asked for, or a close.

**Viewer** has the page's address, every call of `mount` with the await it is
in, and the relay client of each (socket, timer, closed). An address is a host
and a path; `detectChannel` makes a channel of it with the reserved words of each
site. Navigation stays on one site, as the content script lives in one document.
How long a reconnect waits is left out, and with it `attempt`.

**TrackList** has what Mixer and Session both say about track lists: slugs, wire
ids, and the index from one to the other.

**Mixer** has the maps of `mount`, the audio graph with its nodes and wires, and
each callback as one step of the event loop; `Panel` says which controls of
`Mixer.svelte` exist and what they call. `Copies` is Web Audio (external): the
copies of a node's signal that reach the loudspeaker, each with its gain and
delay. It follows the wires five times, which is the longest path of the graph;
`Onward` is what one node makes of what its successors pass on. `Spread` is the
object spread `{ ...f, ...e }`. Slugs of a list may collide, since the publisher's command line allows it.

**Session** joins the ends: one publisher process at a time (`main.cpp` or the
mock publisher), the hub as a queue per subscriber that drops its oldest message,
and subscribers (pages with the extension, or mock subscribers, whose index is
the list they printed last). What WsClient, Channel and Viewer model step by step
is one step here. The publisher's own queue may overflow before the announcement is
sent (`QueueOverflow`): then HELLO or the list is dropped, and without its list the
connection is `unlisted`. Lists of `Refused` are those that `decodeTrackList`
rejects, for one of the reasons Wire has; a subscriber ignores them and keeps its index.
A page keeps its index over a reconnect and loses it with a mount. `missed` is
history: an announcement that would have changed the index passed the subscriber by
or was refused; audio carries the slug it was captured from and whether it was sent
behind the announcement of its connection.

**Playback** is one lane: WebCodecs (external) decodes in order, later, and
closes the decoder on an error; the audio clock stands still while suspended. The
publisher's process numbers the packets of each track from 1 (`sent`); a packet
reaches the lane or is lost on the way, and `Restart` begins the numbers anew while
the lane stays, so the decoder may meet higher, lower or equal numbers. `Tracks` that
share a slug share the lane.

**Frame**, **Payload** and **Wire**. Frame has the header as bytes, with one
encoder and one decoder per language; field widths are the code's, and how many
values a byte has is a constant, ten in the run instead of 256, so that TLC's
integers hold a timestamp. `PutUint64` and its kind, which stand for the libraries of
Go and TypeScript (external), write a number by halves; `WriteBE` shifts and masks
each byte, as the C++ does, `Place` being the weight of a byte. Payload has
the JSON schemas as predicates on an abstract object (member names to values, a
value being a type and a number or a text of tokens), once as TypeScript reads
it and once as Go does; all text limits are one constant. Wire carries a message
from a sender to the viewer: the publisher from its command line on, or another
program whose frame has up to two places changed, bytes of the header or members
of the payload.

**ChannelProofs**, **RegistryProofs**, **AuthLimiterProofs**, **WsClientProofs**,
**MixerProofs**, **SessionProofs** and **WireProofs** hold the theorems, each about
the module it is named after; **PageProofs** has those about Viewer and Playback, whose
specification is `LaneSpec`. The **MC** modules and the `.cfg` files are the instances.

## What the runs check

Passing runs:

| run | instance | what it shows |
|---|---|---|
| `channel` | 2 publishers, 3 subscribe requests for 2 places, queues of 2, 3 packets, symmetry | `OnePublisher`, the caps (`Bounded`), and delivery: `InOrder`, `NewestKept` (the "drop the new packet" branch of `deliver` is never needed), `NoSilentLoss` (every packet is written, held, queued or counted as dropped) |
| `channel_live` | 1 publisher, 2 viewers, queues of 1, 2 packets, no symmetry | `ImplementsFanout` and, under fairness, `BroadcastCompletes`, `GoneIsRemoved` |
| `registry` | 3 ids for 2 entries, 2 publishers, 1 viewer | `CapsHold`, `IdleIsReaped`, and `OnlyLateEntrantsOrphaned`: a handler loses its entry only if it entered after `Stats` had found the hub idle |
| `limiter` | 2 addresses, 3 requests, threshold 2, window 2, cooldown 3, 10 ticks, symmetry | `FailureRateBounded`, `CooldownDeserved` (by failures of the address's own), and `CooldownServed`: only a request that overlapped the one that earned the cooldown can shorten it |
| `ws_client` | 1 track, queue of 3, 2 backoff steps | `NoStaleAudio`, `NoLostWakeup`, `SessionAnnounced` (only an overflow loses the announcement), `Reconnects`, `StopReturns` |
| `viewer` | on Twitch a channel under two addresses and a reserved word, on Kick two channels and the front page; 3 mounts | `SingleFlight`, `Reconnects`, `Quiesces`, and `OnlyRacesLeak`: without a race the mixer plays the channel of the page, and the relay takes its id |
| `mixer` | 3 track lists (empty, two tracks, colliding slugs), 2 gain levels, 2 offsets, a global preference | `HeardIsShown` (from the wires), `Plumbed`, `SavedIsShown`, `ReannounceKeepsMix`, and `OverrideWins`: saved settings come back after a remount |
| `playback` | 2 tracks in one lane, frames of 2 ticks, 3 sequence numbers, 4 packets, 8 ticks | `Gapless`, `LeadIsBacklog`, `ClosedIsSilent` |
| `wire` | 22 track arguments, at most 2 tracks, texts of 3, payloads of 25 bytes; 12 foreign frames with 2 edits | `RoundTrip`, `DecodersAgree` (frames and payloads), and `AnnouncementShown` for a publisher with plain labels |
| `session` | 2 command lines, one of which viewers refuse, and the mock's: id 1 means another track in each; a page and a mock subscriber; queues of 2 | `RoutedRight`, `CaughtUp`, and under fairness `Relisted`: the next announcement ends what a missed one began |

Each also checks its module's `TypeOK`, in `channel` as an invariant of its own,
elsewhere as the first conjunct of another one.

The bounds. Two publishers are the least that can compete for the slot, three
subscribers for two places the least that reach the cap while two are served.
With a queue of two, three packets overflow it while the writer holds none, and
overflow it after a receive. Two reap passes meet every state of a handler,
since handlers return to idle. Ten ticks of the limiter hold a window, a
cooldown, and another of each; three requests are an overlap and one more. In `ws_client` the queue overflows with the
announcement in it, and connections repeat without bound (the epoch is a
parity: stale audio is at most one connection old when the queue is cleared).
Three mounts hold a leaked mixer, its successor and one more. Mixer has no bound
but its lists and gains. Playback's four packets hold a burst, a gap and a
restart with packets after it; three sequence numbers per track are enough to be
equal, to rise, to leave a gap and to fall. In `wire` two edits are enough to change a
length and its field together, or two rows of a list; every limit is met from
both sides, and a third `--track` passes the limit on tracks. As in the code, a
list with texts within their limits fits a payload, and a header with a payload
fits the relay's read limit. In `session` a queue of two holds an announcement
with audio before or behind it, or two announcements, and overflows in each of these
states; for longer queues there is the proof. Processes and connections repeat without
bound. Subscribers do not interact, so one of each
kind is enough.

Deadlock checking is off in `limiter` (the clock stops at its bound, and an
address in cooldown then has no step) and in `ws_client` (after the
shutdown the program has ended), and in `wire` (a publisher exits on a bad
argument, another sender sends one message). Elsewhere it is on.

Runs that end in a violation. Each checks what a line of the repository says,
and TLC shows a behaviour of the code that breaks it:

- `registry_split`, `OnePublisherPerId`. `relay/README.md:38`, "One publisher per
  channel. Second claim returns 409." A publisher that enters a hub between
  `Reap`'s `Stats` and its `delete` is left in an orphan; the next publisher of
  the id gets a new hub. The same window makes a viewer deaf.
- `session_late`, `ListShown`. `docs/VIEWER_SETUP.md:103` explains an empty
  channel list by a streamer who "isn't running the publisher" or uses another
  relay. A page that joins a running session gets audio and no list: the relay
  keeps no message for those who come later, and the publisher announces once per
  connection. The property excepts a queue that overflows.

### Known divergences without a run

Met while modelling; the actions contain them.

- `ratelimit.go:14`, "further requests are denied for Cooldown". A failure
  recorded by a request that was in flight when the cooldown began, after its
  window has ended, resets the entry, ban included (`AfterFailure`).
  `CooldownServed` excepts that case (`overlap`).
- `main.cpp:119`, "these two always lead". The queue is cleared in one critical
  section and HELLO pushed in a later one, so a capture thread's audio can lead
  (`Cleared`, `SendHello`). `RoutedRight` excepts such audio (`led`), and that of a
  connection whose list the publisher's own queue dropped.
- `graph.ts:28`, "the track fully disappears" when muted. By `HeardIsShown` the
  video passes with the residual and the inverted copy at full level, so with the
  offset aligned a muted track is heard at residual − 1, which is −0.8 by
  default. For the same reason the residual slider is not "after cancellation".
- A page that was away while another process began to publish keeps `idToSlug`
  of the old one; until the next list it plays audio in other tracks' lanes
  (`RoutedRight`, `missed`).
- `docs/VIEWER_SETUP.md:69` says the channel list "comes back empty" when the
  streamer is not publishing; the panel keeps the last list.
- The popup stores a relay address (`docs/VIEWER_SETUP.md:14`) that no code
  reads: `content/index.ts:38` is always used.
- Moving between two addresses of one channel remounts on the same `<video>`,
  which `buildGraph` cannot tap twice (`PlayerFound`): the mixer is gone until
  the platform replaces the player.

- `ratelimit.go:13` says "sliding window"; `Expired` and `AfterFailure` are a
  fixed window that starts at the first failure, so failures on both sides of a
  reset can exceed the threshold within a window. `FailureRateBounded` states
  the bound that does hold.
- A full outbound queue drops HELLO as its oldest packet (`Pushed`), although
  `ws_client.h:26` wants the session announced on every connect.
- `docs/VIEWER_SETUP.md:50` says a second solo click reverts; `OnSoloToggle`
  mutes the others whatever their state. It changes the mute buttons and not the
  settings, so Save does not store what solo muted.
- After a save, a track that leaves and returns gets the override map loaded at
  mount, not the saved one (`content/index.ts:208`), although `store/prefs.ts:5`
  says "override that wins where present". `OverrideWins` excepts that case.
- `docs/STREAMER_SETUP.md:63` offers a "free-form label". A label with a quote or
  a backslash, one that is not UTF-8, or one over 64 characters makes the viewer
  reject the whole list (`Plain`), and one that takes the list past 4096 bytes
  makes the publisher send an empty message, for which the relay closes the
  connection after each reconnect.
- `docs/AUDIO_PROTOCOL.md:232`: new category slugs are "backward compatible — older
  extensions display them as custom". `messages.ts:86` rejects the whole list for a
  category it does not know (`decodeTrackList` in Payload), so an older extension shows
  no track. In Session such a list is in `Refused`: the page keeps the tracks it
  had, and `RoutedRight` and `CaughtUp` except it until a list is taken.
- `header.ts:22` says the encoder never makes a frame the decoder would reject;
  it does not check the type, which TypeScript lets any number be. The foreign
  frames of Wire have known types.
- Go and TypeScript differ on payloads with members missing, null, unknown,
  fractional or not ASCII, on an empty `album_art_url`, and on a stray closing
  bracket behind the object (`Complete` names them).
- `OnSaveStreamer` replaces the stored map by the tracks announced now, so the
  override of an absent track is lost (`docs/VIEWER_SETUP.md:57`).
- `saveGlobalCategory` has no caller, so the global defaults of
  `docs/VIEWER_SETUP.md:56` are never written.
- A navigation while `mount` awaits leaves a mixer on a page without a channel
  (`platform/detect.ts:8`); `OnlyRacesLeak` says that nothing else does.
- `decoder.ts:60` expects the next packet to re-prime the decoder after an error;
  WebCodecs has closed it (`DecodeError`), and the lane stays silent.
- `decoder.ts:5` wants timestamps "since the first frame", and `decoder.ts:80` moves the
  base when the "publisher reconnected". `Decode` stamps the first packet after a restart
  before the base moves, so relative to the process before; and a restart whose first
  packet to arrive has a number not below the last one is not noticed. No property
  is about timestamps: nothing plays by them, the scheduler has its own cursor.
- `scheduler.ts:5` speaks of a one-frame buffer; a burst is queued whole.
  `LeadIsBacklog` states the bound that does hold.
- A negative `subscriber_send_buffer` passes `Config.Defaults` and makes
  `Subscribe` panic. The limiter's map has no reaper.

## Fairness

- *Channel.* Weak fairness on the publisher's broadcast steps, its release, the
  subscriber handler and the watcher goroutine: Go schedules runnable goroutines,
  and `conn.Write` ends within its five-second timeout. Strong fairness on
  `CtxDone`: `select` picks among ready cases at random, so a cancelled context
  is not passed over for ever. Nothing makes a publisher send or a viewer leave.
- *Registry.* Weak fairness on the reaper, which a ticker drives.
- *WsClient.* Weak fairness on threads, timers and the end of a handshake.
  Strong fairness on a started attempt getting a socket and on a handshake
  succeeding: that is the environment's part of "reconnects", and without it no
  client can. Strong fairness on `OnCancelled`, since lws serves a pending cancel
  although sockets are busy.
- *Viewer.* Weak fairness on timers and on the end of a handshake or a closing;
  strong fairness on a handshake succeeding, as above.
- *Session.* Weak fairness on the announcement's two sends, which the connect
  callback makes without waiting (an overflow of the publisher's queue forestalls
  them), and on the handling of queued messages. Nothing
  makes anybody connect, stay or send audio.

## What is proved

Every safety property of the passing runs, invariants and action properties, is a
theorem (named after the property, with `Holds` behind it); so is the refinement of
Fanout. A theorem holds for every value of the
constants that its module's assumption allows. Few of the properties are
inductive; for each module the invariant that is, and what it adds:

**Channel** (`Typing`, `OnePublisher`, `Bounded`, `InOrder`, `NewestKept`,
`NoSilentLoss`, `ImplementsFanout`). The argument is layered, each layer an
invariant proved from the ones before:

1. *Slot* (`SlotInv`): `hasPub` holds exactly while some handler is in the slot,
   and at most one is. `OnePublisher` follows.
2. *Map* (`MapInv`): who is in `subs` and who holds `mu`, by the handler's place.
3. *Broadcast* (`BcastInv`): what is left in `scratch`, and `cur`, belong to the
   publisher in the slot, so "still owed the current packet" changes only by its
   steps.
4. *Order* (`OrderInv`): a queue is increasing, above what was written or is held
   by `Write`, and at most `published`; for a subscriber that is still owed the
   current packet everything is strictly below it. The last part is what makes
   `Push` safe: without layers 1 and 3 a second broadcast could push the same
   number. `InOrder` follows.
5. *Room* (`RoomInv`) and *caps* (`CapInv`): a queue has at most `SendBuf`
   packets, after `DropOldest` there is room, and `Subscribe` counts under `mu`.
   `Bounded` follows.
6. *Top* (`TopInv`): for a viewer that is served and owed nothing, the last packet
   on the way to it is the one published last. It needs the room after
   `DropOldest`: that is why the branch that drops the new packet is never taken.
   `NewestKept` follows.
7. *Account* (`LossInv`): written, held, queued, dropped and owed add up to what
   was published since the viewer joined; and a request that has not joined owns
   nothing, without which the sum would not start at zero. `NoSilentLoss` follows.

The refinement takes layers 1 to 4 and the caps: each step of the hub is a step of Fanout or
leaves its variables alone; `WriteOk` is the delivery, and it increases `seen`
because of the order.

**Registry** (`CapsHold`, `OnlyLateEntrantsOrphaned`). `TableInv` and `HubInv` say
that the flag and the set of a hub agree with where the handlers are, in hubs that
have left the table too; `OrphanInv` that between `Stats` and the delete everybody
in the doomed hub has come late. That a new hub is not one somebody still holds a
pointer to is a counting argument over the references.

**AuthLimiter** (`FailureRateBounded`, `CooldownDeserved`, `CooldownServed`).
`LimitInv` relates an entry to the failures it stands for and to the requests that
are past `Allowed`: since its window began an address has failed `count` times, of
the failures before it only so many can still be within `Window`, and beyond the
threshold each failure uses up one request that was in flight when the cooldown
began. `ServedInv` adds that a cooldown earned without overlap leaves no request in
flight, so nothing can reset it.

**WsClient** (`NoStaleAudio`, `NoLostWakeup`, `SessionAnnounced`). `Fresh`: on a live
connection every queued packet is of its epoch. `WakeInv` adds that a live
connection has an open socket, without which a cancel would be swallowed. `AnnInv`
has the three stages of the announcement (before HELLO, between, after) and HELLO
before TRACK_LIST within the queue.

**Viewer** (`SingleFlight`, `OnlyRacesLeak`). `FlightInv`: a mount that is not done
has no client, a destroyed one a closed client. `AloneInv`: until a navigation
overlaps a mount, at most one call of `mount` is under way or up, and it is for
the address seen last. That the relay accepts each channel `detectChannel` finds
is a lemma for every address (`DetectedIsValid`).

**Mixer** (`Plumbed`, `HeardIsShown`, `SavedIsShown`, `ReannounceKeepsMix`,
`OverrideWins`). `MixInv` says more than any of them: sliders, mutes and settings
have the announced slugs as their domain, and the whole graph, gains, delay and
wires, is a function of what the panel shows. `HeardIsShown` then takes no step of
the system, only the graph: `Settled1` to `Settled5` say which nodes have their
final copies after one to five rounds along the wires.

**Playback** (`ClosedIsSilent`, `Gapless`, `LeadIsBacklog`). `ScheduleInv`: the
cursor stands at the end of the last source, and any source starts at most one
frame per place after an earlier one or after now. The statement about pairs is
needed because sources end: with the head gone, the next one must bear the bound.

**Session** (`RoutedRight`, `CaughtUp`). `SessionInv` says of each subscriber what
it will know when it comes to a place of its queue: every message is routed right
by the last list before it, or, if there is none and none was missed, by the index
it has now (`Consistent`); and having read all it will know the tracks of the
publisher that is up (`Current`). Both must hold of subscribers that are away,
since they keep their index and may come back. In a queue a list that will
be refused is a list as any other; when its turn comes, it leaves its subscriber behind
as a list that was lost does.
`LastPosition`, that a queue with a list has a last one, is from the well-founded order
of the naturals.

**Wire** (`RoundTrip`, `DecodersAgree`, `AnnouncementShown`), with Frame and Payload.
`WireInv` says of the message under way that it has a whole header with bytes in it
or is cut inside the header, and that without edits it is empty or the bytes of the
frame it was made from (`MessageInv`); of the configuration that every slug and
category is one the schema accepts (`PublisherInv`); and of a publisher with plain
labels that what is under way fits, and is its list, or a packet behind a list that
is shown (`PlainInv`). Most of the work is lemmas about the operators:

1. *Numbers.* `Bits16` to `Bits64`: taking a number apart into bytes by halves and
   putting it together are inverse, in both orders; `Write16` to `Write64` and `ReadBE`:
   shifting and masking writes, and reads, the same bytes. For any number of values
   of a byte, from uniqueness of quotient and remainder.
2. *Headers.* `ApartTogether`, `TogetherApart`: 21 bytes are the five parts at their
   offsets, and the parts the bytes. `Encoders` (what all three refuse, and the bytes
   they make), `SameDecoders`, `ReadBack` and `WriteAgain` follow, and with them
   `RoundTrip` and the first half of `DecodersAgree`.
3. *Payloads.* One lemma per kind (`HelloAgrees` to `TrackListsAgree`) that the two
   languages accept the same complete payloads; it needs that other senders start
   from a frame with all required members, which is part of the invariant.
4. *Slugs and sizes.* `SlugText`, `ScannedSlug` (what the publisher's scan accepts,
   the schema's pattern accepts) and `ListSizes` (a list of tracks within their limits
   fits a payload) are about scans over texts and lists, written as recursive
   functions. That such a function exists (`Recursion`), and the induction over it
   (`Induction`), are proved from the well-founded order of the naturals with sets in
   the place of predicates. `PlainList` joins them: the viewer decodes what
   `BuildTrackListPayload` writes into the rows of the command line.

The assumptions, each evaluated by TLC on the instances:

- `ChannelAssumption`, `SessionAssumption`: `SendBuf >= 1`, which `Config.Defaults`
  makes of every non-negative setting. Session's lists have no track id twice, as
  in the command line and in what `decodeTrackList` accepts; Mixer's neither. Any of
  Session's command lines may be refused.
- `RegistryAssumption`: finitely many handlers at a time, and memory enough for a
  hub per entry and per handler.
- `LimiterAssumption`: a threshold of at least 2 and a cooldown longer than the
  window; the code's constants are 5 failures, 1 minute and 5 minutes. Finitely many
  requests are in flight at a time.
- `FrameAssumption`: a byte has at least two values, and the limit on a payload fits the
  two-byte length field (4096 in the code). `WireAssumption`: type bytes are distinct, as
  in `MessageType`; as many tracks as the command line takes have slots; a list with texts
  within their limits fits a payload, a payload the limit on JSON (both are 4096), and a
  frame the relay's read limit; frames of other senders have typed fields and the members
  their encoder always writes. Texts are any sequences of the token classes.
- `WsAssumption`, `ViewerAssumption`, `PlaybackAssumption`, `MixerAssumption`: queue,
  counters and frame length are not zero; settings are levels of the sliders.

Only model-checked is liveness, which needs fairness and `ENABLED`:
`BroadcastCompletes`, `GoneIsRemoved`, `IdleIsReaped`, `Reconnects` (twice), `StopReturns`, `Quiesces`, `Relisted`.

No module declares a `RECURSIVE` operator.

## Not modelled

- Tokens: cryptography and encoding; AuthLimiter takes both outcomes.
- Configuration and metrics: defaults are assumptions, metrics only read.
- Capture and encoder: WASAPI and libopus; their thread is in WsClient.
- The Go payload encoders and the sluggifiers of Go and TypeScript: no program
  calls them.
- Popup and background page: the one stores an address nobody reads, the other
  logs its installation.
- OBS plugin: a scaffold without a connection.
- Saving global preferences: no caller; they are a constant of Mixer.

## Plan

1. Capture framing: frame accumulation and sequence numbers of an encoder.
2. Texts in bytes: the limits of Go count bytes, those of TypeScript characters, and
   the model's token outside ASCII has two bytes; with one to four of them the bound
   of `ListSizes` would be stated per class.

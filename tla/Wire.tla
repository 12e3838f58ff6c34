-------------------------------- MODULE Wire --------------------------------
(***************************************************************************)
(* A message on its way from a sender through the relay to a viewer.  The  *)
(* sender is the publisher program, from its command line (cli.cpp) to the *)
(* frames of main.cpp, or another program that speaks the protocol, well   *)
(* or badly: a frame of a Go or TypeScript encoder with up to MaxEdits     *)
(* places changed.  The relay looks at the length and the magic            *)
(* (server.go), the viewer decodes and dispatches (relay/client.ts).       *)
(* Messages travel one at a time; queues are the subject of WsClient and   *)
(* Channel.                                                                *)
(***************************************************************************)
EXTENDS Payload

CONSTANTS
    TrackArgs,     \* values of --track: [category, label, process]
    MaxTracks,     \* 8, the command line's limit
    MaxFrameBytes, \* the relay's read limit
    TypeOf,        \* kind of message -> type byte
    NowMs,         \* the publisher's clock
    Frames,        \* frames another sender may encode
    EditBytes,     \* values an edit gives to a header byte
    EditValues,    \* values an edit gives to a JSON member
    MaxEdits

VARIABLES
    stage,    \* publisher: "args", "exit", "hello", "list", "audio";
              \* another sender: "other", "done"
    utf8,     \* the publisher's arguments are UTF-8 (the process code page)
    cfg,      \* Config.tracks
    at,       \* where the message is: "idle", "sender", "relay", "viewer"
    msg,      \* the message
    sent,     \* the frame it was made from
    edits,    \* places changed by a foreign sender
    expelled, \* the relay has closed the publisher's connection
    shown,    \* tracks of the last onTrackList
    event     \* callback the viewer ran last

pubVars == <<stage, utf8, cfg>>
wireVars == <<at, msg, sent, edits>>
vars == <<pubVars, wireVars, expelled, shown, event>>

MessageType == Kinds \ {"none"}
CONTROL_TRACK == 0
Empty == Message(<<>>, Binary("none", 0))
\* A control frame.
Control(kind, seq, payload) ==
    [type |-> TypeOf[kind], track |-> CONTROL_TRACK, flags |-> 0, seq |-> seq,
     timestamp |-> NowMs, payload |-> payload]

ASSUME WireAssumption ==
    /\ MaxTracks \in 1..MaxTrackSlot
    /\ DOMAIN TypeOf = MessageType
    /\ {TypeOf[k] : k \in MessageType} = KnownTypes
    /\ \A j, k \in MessageType : TypeOf[j] = TypeOf[k] => j = k
    /\ NowMs \in 0..U64 - 1
    /\ MaxFrameBytes \in Nat /\ MaxFrameBytes >= HeaderBytes + MaxPayloadBytes
    \* A list whose texts keep their limits fits a payload.
    /\ MaxText \in Nat \ {0}
    /\ 1 + MaxTracks * (1 + 3 * MaxText) <= MaxPayloadBytes
    /\ MaxJsonBytes \in Nat /\ MaxPayloadBytes <= MaxJsonBytes
    /\ TrackArgs \subseteq
           [category : Seq(Token), label : Seq(Token), process : BOOLEAN]
    /\ Frames \subseteq FrameType(PayloadType)
    /\ \A f \in Frames : \A n \in Required(f.payload.kind) :
           f.payload.f[n] # Absent
    /\ EditBytes \subseteq Byte /\ EditValues \subseteq ValueType
    /\ MaxEdits \in Nat

-----------------------------------------------------------------------------
(* The publisher's command line.                                           *)

\* A custom track's slug: lower-case letters, one dash for each other run.
Slug(label) ==
    LET Push(acc, c) ==
            IF c \in Lower THEN Append(acc, c)
            ELSE IF c = "A" THEN Append(acc, "a")
            ELSE IF acc = <<>> \/ acc[Len(acc)] = "-" THEN acc
            ELSE Append(acc, "-")
        scan[i \in 0..Len(label)] ==
            IF i = 0 THEN <<>> ELSE Push(scan[i - 1], label[i])
        s == scan[Len(label)]
    IN SubSeq(s, 1, Max({0} \cup {i \in DOMAIN s : s[i] # "-"}))

\* (The mistake: a label that leaves no valid slug is accepted.)
ParsesTrackM(a) ==
    /\ a.process
    /\ isCategory(a.category)
    /\ a.category = <<Custom>> => a.label # <<>>

\* ParseTrackArg: what it accepts, and the track it makes of it.
ParsesTrack(a) ==
    /\ a.process
    /\ isCategory(a.category)
    /\ a.category = <<Custom>> => a.label # <<>> /\ IsValidSlug(Slug(a.label))
TrackSpec(a, id) ==
    LET custom == a.category = <<Custom>> IN
    [id |-> id, category |-> a.category,
     slug |-> IF custom THEN Slug(a.label) ELSE a.category,
     label |-> IF custom THEN a.label ELSE <<"A">>]

TrackArg(a) ==
    /\ stage = "args" /\ Len(cfg) <= MaxTracks
    /\ IF ParsesTrack(a)
       THEN cfg' = Append(cfg, TrackSpec(a, Len(cfg) + 1)) /\ UNCHANGED stage
       ELSE stage' = "exit" /\ UNCHANGED cfg
    /\ UNCHANGED <<utf8, wireVars, expelled, shown, event>>

\* The end of ParseArgs; ok stands for the flags other than --track.
ArgsEnd(ok) ==
    /\ stage = "args"
    /\ stage' = IF ok /\ Len(cfg) \in 1..MaxTracks THEN "hello" ELSE "exit"
    /\ UNCHANGED <<utf8, cfg, wireVars, expelled, shown, event>>

-----------------------------------------------------------------------------
(* The publisher's frames.                                                 *)

\* The JSON is put together by hand: no label is escaped or measured.  What
\* a viewer parses of a label with a quote or a backslash is no JSON or
\* another label, and bytes that are not UTF-8 are no JSON.
Escapes(t) == \E i \in DOMAIN t.label : t.label[i] = "q"
Foreign(t) == ~utf8 /\ \E i \in DOMAIN t.label : t.label[i] = "u"
ListSize(c) ==
    LET total[i \in 0..Len(c)] ==
            IF i = 0 THEN 1
            ELSE total[i - 1] + 1 + Len(c[i].slug) + Bytes(c[i].label)
    IN total[Len(c)]
RowOf(t, label) ==
    Row(Num(t.id), Str(t.slug), Str(t.category), Str(label))
BuildTrackListPayload ==
    LET list(labels) ==
            [encodeTrackList([i \in DOMAIN cfg |-> RowOf(cfg[i], labels[i])])
                EXCEPT !.size = ListSize(cfg)]
        asGiven == [i \in DOMAIN cfg |-> cfg[i].label]
        garbled == [i \in DOMAIN cfg |->
                       IF Escapes(cfg[i]) THEN <<"?">> ELSE cfg[i].label]
        broken == [list(asGiven) EXCEPT !.json = "other"]
    IN  IF \E i \in DOMAIN cfg : Foreign(cfg[i]) THEN {broken}
        ELSE IF \E i \in DOMAIN cfg : Escapes(cfg[i])
        THEN {broken, list(garbled)}
        ELSE {list(asGiven)}

BuildHelloPayload == encodeHello(<<"a">>, 2)

\* A frame that cannot be encoded becomes an empty message.
EncodeFrameOrLog(f) ==
    LET r == EncodeFrameCpp(f) IN IF r.err = "" THEN r.val ELSE Empty

Transmit(f, m) ==
    /\ at' = "relay" /\ sent' = f /\ msg' = m /\ edits' = 0
    /\ UNCHANGED <<utf8, cfg, expelled, shown, event>>

SendHello ==
    /\ stage = "hello" /\ at = "idle"
    /\ stage' = "list"
    /\ LET f == Control("hello", 0, BuildHelloPayload) IN
       Transmit(f, EncodeFrameOrLog(f))

\* The announcement is enqueued even when it is empty.
SendTrackList ==
    /\ stage = "list" /\ at = "idle"
    /\ stage' = "audio"
    /\ \E p \in BuildTrackListPayload :
        LET f == Control("trackList", 1, p) IN Transmit(f, EncodeFrameOrLog(f))

\* An Opus packet of a track; one that cannot be encoded is skipped.
SendAudio(i, size) ==
    /\ stage = "audio" /\ at = "idle"
    /\ LET f == [Control("audio", 1, Binary("audio", size)) EXCEPT
                    !.track = cfg[i].id]
       IN  /\ EncodeFrameOrLog(f) # Empty
           /\ Transmit(f, EncodeFrameOrLog(f))
    /\ UNCHANGED stage

-----------------------------------------------------------------------------
(* Other senders: one message each.                                        *)

OtherSend ==
    /\ stage = "other" /\ at = "idle"
    /\ \E f \in Frames : \E r \in {EncodeFrameGo(f), EncodeFrameTs(f)} :
        /\ r.err = ""
        /\ at' = "sender" /\ sent' = f /\ msg' = r.val
    /\ stage' = "done" /\ edits' = 0
    /\ UNCHANGED <<utf8, cfg, expelled, shown, event>>

Edit(m) ==
    /\ at = "sender" /\ edits < MaxEdits
    /\ edits' = edits + 1 /\ msg' = m
    /\ UNCHANGED <<pubVars, at, sent, expelled, shown, event>>

EditHeader ==
    \/ \E i \in DOMAIN msg.head, b \in EditBytes :
           Edit([msg EXCEPT !.head[i] = b])
    \/ \E n \in {3, HeaderBytes - 1} \cap DOMAIN msg.head :
           Edit(Message(SubSeq(msg.head, 1, n), Binary("none", 0)))
EditPayload ==
    LET p == msg.payload IN
    /\ p.kind # "none"
    /\ \/ \E d \in {e \in {-1, 1} : p.size + e >= 0} :
              Edit([msg EXCEPT !.payload.size = p.size + d,
                               !.payload.json = "other"])
       \/ /\ p.json = "object"
          /\ \/ Edit([msg EXCEPT !.payload.extra = TRUE])
             \/ Edit([msg EXCEPT !.payload.json = "closer"])
             \/ Edit([msg EXCEPT !.payload.rows = NoRows])
             \/ \E n \in {n \in Names : p.f[n] # Absent}, v \in EditValues :
                    Edit([msg EXCEPT !.payload.f[n] = v])
             \/ \E i \in DOMAIN p.rows.seq, v \in EditValues,
                   n \in {"id", "slug", "category", "label"} :
                    Edit([msg EXCEPT !.payload.rows.seq[i][n] = v])

Post ==
    /\ at = "sender" /\ at' = "relay"
    /\ UNCHANGED <<pubVars, msg, sent, edits, expelled, shown, event>>

-----------------------------------------------------------------------------
(* The relay and the viewer.                                               *)

\* The read limit, then the header sniff.
Passes(m) ==
    Length(m) \in 4..MaxFrameBytes /\ SubSeq(m.head, 1, 4) = Magic

\* A message that fails closes the connection; the publisher comes back and
\* announces again.
Relay ==
    /\ at = "relay"
    /\ IF Passes(msg)
       THEN at' = "viewer" /\ UNCHANGED <<stage, expelled>>
       ELSE /\ at' = "idle" /\ expelled' = TRUE
            /\ stage' = IF stage = "done" THEN stage ELSE "hello"
    /\ UNCHANGED <<utf8, cfg, msg, sent, edits, shown, event>>

\* handleMessage: what it cannot decode it drops, HELLO, STATS and SUB_TRACKS
\* it ignores.
Callback(f) ==
    LET p == f.payload IN
    CASE f.type = TypeOf["trackList"] /\ decodeTrackList(p) -> "onTrackList"
      [] f.type = TypeOf["audio"] -> "onAudio"
      [] f.type = TypeOf["fingerprint"] /\ decodeFingerprint(p) -> "onFingerprint"
      [] f.type = TypeOf["trackMeta"] /\ decodeTrackMeta(p) -> "onTrackMeta"
      [] f.type = TypeOf["error"] /\ decodeError(p) -> "onError"
      [] OTHER -> "none"

HandleMessage ==
    LET r == DecodeFrameTs(msg) IN
    /\ at = "viewer" /\ at' = "idle"
    /\ event' = IF r.err = "" THEN Callback(r.val) ELSE "none"
    /\ shown' = IF event' = "onTrackList" THEN r.val.payload.rows.seq ELSE shown
    /\ UNCHANGED <<pubVars, msg, sent, edits, expelled>>

-----------------------------------------------------------------------------

Init ==
    /\ stage \in {"args", "other"} /\ utf8 \in BOOLEAN
    /\ cfg = <<>>
    /\ at = "idle" /\ msg = Empty /\ edits = 0
    /\ sent = Control("hello", 0, Binary("none", 0))
    /\ expelled = FALSE /\ shown = <<>> /\ event = "none"

Next ==
    \/ \E a \in TrackArgs : TrackArg(a)
    \/ \E ok \in BOOLEAN : ArgsEnd(ok)
    \/ SendHello \/ SendTrackList
    \/ \E i \in DOMAIN cfg, size \in {1, MaxPayloadBytes + 1} : SendAudio(i, size)
    \/ OtherSend \/ EditHeader \/ EditPayload \/ Post
    \/ Relay \/ HandleMessage

Spec == Init /\ [][Next]_vars

-----------------------------------------------------------------------------
(* Properties.                                                             *)

\* Types.
TypeOK ==
    /\ stage \in {"args", "exit", "hello", "list", "audio", "other",
                 "done"}
    /\ Len(cfg) <= MaxTracks + 1
    /\ \A i \in DOMAIN cfg : cfg[i].id = i
    /\ at \in {"idle", "sender", "relay", "viewer"}
    /\ \A i \in DOMAIN msg.head : msg.head[i] \in Byte
    /\ Len(msg.head) <= HeaderBytes
    /\ sent.track \in 0..MaxTrackSlot /\ edits \in 0..MaxEdits
    /\ utf8 \in BOOLEAN /\ expelled \in BOOLEAN

\* The codecs invert each other, whichever language is at either end: a frame
\* an encoder accepts is read back as it was, and every encoder makes the same
\* bytes of what a viewer has read, so that nothing accepted is ignored.
RoundTrip ==
    /\ edits = 0 /\ msg # Empty =>
        \A r \in {DecodeFrameGo(msg), DecodeFrameTs(msg), DecodeFrameCpp(msg)} :
            r = Ok(sent)
    /\ DecodeFrameTs(msg).err = "" =>
        LET f == DecodeFrameTs(msg).val IN
        \A r \in {EncodeFrameGo(f), EncodeFrameTs(f), EncodeFrameCpp(f)} :
            r = Ok(msg)

Members(p) == {p.f[n] : n \in Names} \ {Absent}
Columns(p) == UNION {{p.rows.seq[i][n] : n \in {"id", "slug", "category", "label"}}
                        : i \in {i \in DOMAIN p.rows.seq : p.rows.seq[i].obj}}
\* Texts in which the two languages are meant to agree: all members present
\* and of a type both know, ASCII only, nothing beside the object.
Complete(p) ==
    /\ p.json # "closer" /\ ~p.extra
    /\ p.kind \in {"trackList", "subTracks"} => p.rows.has
    /\ p.kind = sent.payload.kind
    /\ \A n \in Names : (p.f[n] = Absent) = (sent.payload.f[n] = Absent)
    /\ \A v \in Members(p) \cup Columns(p) :
           /\ v.t \in {"str", "num"}
           /\ v.t = "str" => v.s # <<>> /\ Bytes(v.s) = Len(v.s)

\* The three frame decoders accept the same messages, read the same frames in
\* them, and refuse the others with the same error, whatever the sender wrote;
\* and Go and TypeScript accept the same complete payloads of each kind.
DecodersAgree ==
    LET p == msg.payload IN
    /\ DecodeFrameTs(msg) = DecodeFrameGo(msg)
    /\ DecodeFrameCpp(msg) = DecodeFrameGo(msg)
    /\ Complete(p) =>
        /\ p.kind = "hello" => (decodeHello(p) <=> DecodeHello(p))
        /\ p.kind = "trackList" => (decodeTrackList(p) <=> DecodeTrackList(p))
        /\ p.kind = "fingerprint" =>
               (decodeFingerprint(p) <=> DecodeFingerprint(p))
        /\ p.kind = "trackMeta" => (decodeTrackMeta(p) <=> DecodeTrackMeta(p))
        /\ p.kind = "stats" => (decodeStats(p) <=> DecodeStats(p))
        /\ p.kind = "subTracks" => (decodeSubTracks(p) <=> DecodeSubTracks(p))
        /\ p.kind = "error" => (decodeError(p) <=> DecodeError(p))

\* A label the schema has room for and the hand-written JSON can carry.
Plain(t) == Len(t.label) <= MaxText /\ ~Escapes(t) /\ ~Foreign(t)

\* A publisher whose labels are plain is understood: the relay never closes its
\* connection, and once its TRACK_LIST has gone through, the viewer shows the
\* tracks of the command line, in order.
AnnouncementShown ==
    /\ TypeOK
    /\ stage # "done" /\ (\A i \in DOMAIN cfg : Plain(cfg[i])) =>
        /\ ~expelled
        /\ stage = "audio" /\ at = "idle" =>
               shown = [i \in DOMAIN cfg |-> RowOf(cfg[i], cfg[i].label)]
=============================================================================

------------------------------ MODULE Payload -------------------------------
(***************************************************************************)
(* The payloads behind the header: shared/ts/src/messages.ts with          *)
(* categories.ts and errors.ts, and their Go mirror shared/go/messages.go. *)
(* Go fills a struct and checks it, TypeScript checks a parsed object, so  *)
(* they differ on members that are missing, null, unknown or fractional.   *)
(*                                                                         *)
(* A JSON text is abstracted to [kind, json, extra, size, f, rows]: f maps *)
(* member names to values, rows is the array under "tracks".  A text value *)
(* is a sequence of tokens, a token being a class of characters or a whole *)
(* word.  Every text limit (32 to 1024 in the code) is MaxText.            *)
(***************************************************************************)
EXTENDS Frame, FiniteSetsExt

CONSTANTS
    MaxJsonBytes,  \* bound on a JSON text, 4096
    MaxText        \* bound on a text member

Presets == {"mic", "music"}    \* two of the eight preset categories
Custom == "custom"
ErrorCodes == {"RATE_LIMIT"}   \* one of the six codes

\* Tokens: "a" lower case or digit, "A" upper case, "-", "." other ASCII,
\* "q" what JSON must escape, "u" a letter outside ASCII (two bytes).
Lower == {"a", Custom} \cup Presets
Token == Lower \cup {"A", "-", ".", "q", "u", "?", "opus", "https://"} \cup ErrorCodes
Bytes(s) == Len(s) + Cardinality({i \in DOMAIN s : s[i] = "u"})

\* Values of JSON members: a type, and the number or text of one.
Value(t, n, s) == [n |-> n, s |-> s, t |-> t]
Str(s) == Value("str", 0, s)
Num(n) == Value("num", n, <<>>)
Frac == Value("frac", 0, <<>>)
Null == Value("null", 0, <<>>)
Absent == Value("absent", 0, <<>>)
ValueType ==
    {v \in [n : Int, s : Seq(Token), t : {"str", "num", "frac", "null", "absent"}] :
        (v.t # "num" => v.n = 0) /\ (v.t # "str" => v.s = <<>>)}

Row(id, slug, category, label) ==
    [obj |-> TRUE, id |-> id, slug |-> slug, category |-> category,
     label |-> label]
RowType == [obj : BOOLEAN, id : ValueType, slug : ValueType,
            category : ValueType, label : ValueType]

Names == {"version", "client", "codec", "sample_rate", "channels", "frame_ms",
          "title", "artist", "album_art_url", "code", "message",
          "uptime_s", "packets_sent", "subscribers", "tracks_active"}
NoMembers == [n \in {} |-> Absent]
NoRows == [has |-> FALSE, seq |-> <<>>]

\* json: "object"; "closer", an object with a stray bracket behind it; or
\* "other", which is no object at all.
Object(kind, f, rows, size) ==
    [kind |-> kind, json |-> "object", extra |-> FALSE, size |-> size,
     f |-> [n \in Names |-> IF n \in DOMAIN f THEN f[n] ELSE Absent],
     rows |-> rows]
Binary(kind, size) ==
    [Object(kind, NoMembers, NoRows, size) EXCEPT !.json = "other"]

Kinds == {"hello", "trackList", "audio", "fingerprint", "trackMeta", "stats",
          "subTracks", "error", "none"}
PayloadType ==
    [kind : Kinds, json : {"object", "closer", "other"}, extra : BOOLEAN, size : Nat,
     f : [Names -> ValueType], rows : [has : BOOLEAN, seq : Seq(RowType)]]
\* Members that every encoder writes.
Required(kind) ==
    CASE kind = "hello" -> {"version", "client", "codec", "sample_rate",
                            "channels", "frame_ms"}
      [] kind = "stats" -> {"uptime_s", "packets_sent", "subscribers",
                            "tracks_active"}
      [] kind = "error" -> {"code", "message"}
      [] OTHER -> {}

\* Names ending in M are plausible mistakes in the definition that follows;
\* no action uses them.

-----------------------------------------------------------------------------
(* Categories and slugs.                                                   *)

isPresetCategory(s) == Len(s) = 1 /\ s[1] \in Presets
isCategory(s) == s = <<Custom>> \/ isPresetCategory(s)

\* Lower-case kebab: no dash at either end, none behind another.
isValidSlug(s) ==
    /\ Len(s) \in 1..MaxText
    /\ \A i \in DOMAIN s : s[i] \in Lower \cup {"-"}
    /\ s[1] # "-" /\ s[Len(s)] # "-"
    /\ \A i \in 1..Len(s) - 1 : ~(s[i] = "-" /\ s[i + 1] = "-")

\* The publisher's own: a scan that remembers the last dash.
IsValidSlug(s) ==
    LET scan[i \in 0..Len(s)] ==
            IF i = 0 THEN [ok |-> TRUE, dash |-> FALSE]
            ELSE [ok |-> /\ scan[i - 1].ok
                         /\ IF s[i] = "-" THEN ~scan[i - 1].dash ELSE s[i] \in Lower,
                  dash |-> s[i] = "-"]
    IN  Len(s) \in 1..MaxText /\ s[1] # "-" /\ s[Len(s)] # "-" /\ scan[Len(s)].ok

-----------------------------------------------------------------------------
(* The encoders.                                                           *)

encodeHello(client, channels) ==
    Object("hello", [version |-> Num(1), client |-> Str(client),
                     codec |-> Str(<<"opus">>), sample_rate |-> Num(48000),
                     channels |-> Num(channels), frame_ms |-> Num(20)],
           NoRows, 1)
encodeTrackList(rows) ==
    Object("trackList", NoMembers, [has |-> TRUE, seq |-> rows], 1)
encodeFingerprint == Binary("fingerprint", 10)
encodeTrackMeta(title, url) ==
    Object("trackMeta", [title |-> title, album_art_url |-> url], NoRows, 1)
encodeStats(n) ==
    Object("stats", [uptime_s |-> Num(n), packets_sent |-> Num(n),
                     subscribers |-> Num(n), tracks_active |-> Num(n)],
           NoRows, 1)
encodeSubTracks(ids) ==
    LET bare(id) == [Row(Num(id), Absent, Absent, Absent) EXCEPT !.obj = FALSE]
    IN  Object("subTracks", NoMembers,
               [has |-> TRUE, seq |-> [i \in DOMAIN ids |-> bare(ids[i])]], 1)
encodeError(code, message) ==
    Object("error", [code |-> Str(code), message |-> Str(message)], NoRows, 1)

-----------------------------------------------------------------------------
(* TypeScript.                                                             *)

decodeJson(p) == p.size <= MaxJsonBytes /\ p.json = "object"
strField(v) == v.t = "str" /\ Len(v.s) <= MaxText
numField(v) == v.t = "frac" \/ (v.t = "num" /\ v.n >= 0)
isNum(v, N) == v.t = "num" /\ v.n \in N

decodeHello(p) ==
    /\ decodeJson(p)
    /\ isNum(p.f["version"], {1})
    /\ strField(p.f["client"])
    /\ p.f["codec"] = Str(<<"opus">>)
    /\ isNum(p.f["sample_rate"], {48000})
    /\ isNum(p.f["channels"], {1, 2})
    /\ isNum(p.f["frame_ms"], {20})

\* Array, not too long, ids in range and none twice.
idList(p) ==
    /\ p.rows.has
    /\ Len(p.rows.seq) <= MaxTrackSlot
    /\ \A i \in DOMAIN p.rows.seq : isNum(p.rows.seq[i].id, 1..MaxTrackSlot)
    /\ \A i, j \in DOMAIN p.rows.seq :
           p.rows.seq[i].id = p.rows.seq[j].id => i = j

decodeTrackList(p) ==
    /\ decodeJson(p)
    /\ idList(p)
    /\ \A i \in DOMAIN p.rows.seq :
        LET r == p.rows.seq[i] IN
        /\ r.obj
        /\ strField(r.slug) /\ isValidSlug(r.slug.s)
        /\ strField(r.category) /\ isCategory(r.category.s)
        /\ strField(r.label)

decodeFingerprint(p) == p.size = 10

decodeTrackMeta(p) ==
    /\ decodeJson(p)
    /\ \A n \in {"title", "artist"} : p.f[n] = Absent \/ strField(p.f[n])
    /\ LET u == p.f["album_art_url"] IN
       u = Absent \/ (strField(u) /\ u.s # <<>> /\ u.s[1] = "https://")

decodeStats(p) ==
    /\ decodeJson(p)
    /\ \A n \in {"uptime_s", "packets_sent", "subscribers", "tracks_active"} :
           numField(p.f[n])

decodeSubTracks(p) ==
    decodeJson(p) /\ idList(p) /\ \A i \in DOMAIN p.rows.seq : ~p.rows.seq[i].obj

decodeError(p) ==
    /\ decodeJson(p)
    /\ strField(p.f["code"])
    /\ Len(p.f["code"].s) = 1 /\ p.f["code"].s[1] \in ErrorCodes
    /\ strField(p.f["message"])

-----------------------------------------------------------------------------
(* Go: a member that is missing or null keeps the struct's zero value, one *)
(* of the wrong type, or unknown, is an error.  Decoder.More does not see  *)
(* a closing bracket as trailing data.                                     *)

decJSON(p) ==
    p.size <= MaxJsonBytes /\ p.json \in {"object", "closer"} /\ ~p.extra
text(v) == IF v.t = "str" THEN v.s ELSE <<>>
number(v) == IF v.t = "num" THEN v.n ELSE 0
isText(v) == v.t \in {"str", "null", "absent"}
isInt(v) == v.t \in {"num", "null", "absent"}
checkStr(v) == isText(v) /\ Bytes(text(v)) <= MaxText

DecodeHello(p) ==
    /\ decJSON(p)
    /\ number(p.f["version"]) = 1
    /\ checkStr(p.f["client"])
    /\ text(p.f["codec"]) = <<"opus">>
    /\ number(p.f["sample_rate"]) = 48000
    /\ number(p.f["channels"]) \in {1, 2}
    /\ number(p.f["frame_ms"]) = 20

IdList(p) ==
    /\ Len(p.rows.seq) <= MaxTrackSlot
    /\ \A i \in DOMAIN p.rows.seq : number(p.rows.seq[i].id) \in 1..MaxTrackSlot
    /\ \A i, j \in DOMAIN p.rows.seq :
           number(p.rows.seq[i].id) = number(p.rows.seq[j].id) => i = j

DecodeTrackList(p) ==
    /\ decJSON(p)
    /\ IdList(p)
    /\ \A i \in DOMAIN p.rows.seq :
        LET r == p.rows.seq[i] IN
        /\ r.obj
        /\ checkStr(r.slug) /\ isValidSlug(text(r.slug))
        /\ isText(r.category) /\ isCategory(text(r.category))
        /\ checkStr(r.label)

DecodeFingerprint(p) == p.size = 10

DecodeTrackMeta(p) ==
    /\ decJSON(p)
    /\ \A n \in {"title", "artist", "album_art_url"} : checkStr(p.f[n])
    /\ LET u == text(p.f["album_art_url"]) IN
       u = <<>> \/ u[1] = "https://"

DecodeStats(p) ==
    /\ decJSON(p)
    /\ \A n \in {"uptime_s", "packets_sent", "subscribers", "tracks_active"} :
           isInt(p.f[n]) /\ number(p.f[n]) >= 0

DecodeSubTracks(p) ==
    decJSON(p) /\ IdList(p) /\ \A i \in DOMAIN p.rows.seq : ~p.rows.seq[i].obj

DecodeError(p) ==
    /\ decJSON(p)
    /\ LET c == text(p.f["code"]) IN Len(c) = 1 /\ c[1] \in ErrorCodes
    /\ checkStr(p.f["message"])
=============================================================================

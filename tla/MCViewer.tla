------------------------------ MODULE MCViewer ------------------------------
(* Small instances of Viewer for TLC.                                      *)
EXTENDS Viewer

Seg(s) == [text |-> s, lower |-> s]
Foo == [text |-> "Foo", lower |-> "foo"]
Page(h, path) == [host |-> h, path |-> path]

\* On Twitch a channel under two addresses and a reserved word; on Kick two
\* channels, one of them named by that word, and the front page.
MCPages == {
    Page("twitch.tv", <<Seg("foo")>>), Page("twitch.tv", <<Foo, Seg("videos")>>),
    Page("twitch.tv", <<Seg("directory")>>),
    Page("kick.com", <<Seg("directory")>>), Page("kick.com", <<Seg("foo")>>),
    Page("kick.com", <<>>)}
MCNames == {"foo", "directory"}
=============================================================================

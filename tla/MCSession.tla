----------------------------- MODULE MCSession ------------------------------
(* Small instances of Session for TLC.                                     *)
EXTENDS Session

Track(i, s) == [id |-> i, slug |-> s]

\* Id 1 means a different track in each; viewers refuse the second list.
MCRefused == {<<Track(1, "game")>>}
MCLists == {<<Track(1, "mic"), Track(2, "music")>>} \cup MCRefused
MCMock == <<Track(1, "music")>>
=============================================================================

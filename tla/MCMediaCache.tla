---------------------------- MODULE MCMediaCache ----------------------------
(* Instances of MediaCache for TLC.  A request is written                   *)
(* <<name, kind, key, user>>; it is made at most once, at any time.         *)
EXTENDS MediaCache

KindOf   == [q \in Requests |-> q[2]]
TargetOf == [q \in Requests |-> q[3]]
ClientOf == [q \in Requests |-> q[4]]

\* A video is played and made a favorite by two users, one of whom unmakes it,
\* while a photo is opened.
FavoriteRequests == { <<1, "play", "v", "u1">>, <<2, "view", "p", "u1">>,
                      <<3, "add", "v", "u1">>, <<4, "add", "v", "u2">>,
                      <<5, "remove", "v", "u1">> }

\* A video is played while a photo is made a favorite: two keys, one queue slot.
PlayRequests == { <<1, "play", "v", "u1">>, <<2, "add", "p", "u1">> }

\* One photo, opened by two users.
PhotoRequests == { <<1, "view", "p", "u1">>, <<2, "view", "p", "u2">> }
=============================================================================

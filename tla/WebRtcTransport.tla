--------------------------- MODULE WebRtcTransport ---------------------------
(***************************************************************************)
(* src/src/transport/webrtc/webrtc-transport.ts: a peer connection with a  *)
(* data channel; open() awaits the signalling while the events of the peer *)
(* and of the channel already move the state.                              *)
(***************************************************************************)
EXTENDS Naturals

CONSTANT MaxOpens   \* calls of open() that get as far as a peer (bound)

\* What open() awaits, in order; addIceCandidate stands for all candidates.
Steps == <<"createOffer", "setLocalDescription", "iceGathering", "exchangeOffer",
           "setRemoteDescription", "addIceCandidate", "channelOpened">>

VARIABLES
    state,    \* #state.kind
    peer,     \* connectionState of #peer, "none" for undefined
    channel,  \* readyState of #channel, "none" for undefined
    opened,   \* the promise channelOpened: "pending" iff #pendingChannelOpenReject
    step,     \* the place in Steps open() awaits, 0 for none
    byUser,   \* #closedByUser; the epoch has changed iff it is TRUE
    ended,    \* #readableClosed
    call,     \* the promise of the last open()
    opens     \* calls of open() so far

vars == <<state, peer, channel, opened, step, byUser, ended, call, opens>>

TypeOK ==
    /\ state \in {"closed", "opening", "open", "reconnecting", "error"}
    /\ peer \in {"none", "new", "connecting", "connected", "disconnected", "failed"}
    /\ channel \in {"none", "connecting", "open", "closed"}
    /\ opened \in {"none", "pending", "resolved", "rejected"}
    /\ step \in 0..7 /\ byUser \in BOOLEAN /\ ended \in BOOLEAN
    /\ call \in {"none", "pending", "resolved", "rejected"} /\ opens \in 0..MaxOpens

Init ==
    /\ state = "closed" /\ peer = "none" /\ channel = "none" /\ opened = "none" /\ step = 0
    /\ byUser = FALSE /\ ended = FALSE /\ call = "none" /\ opens = 0

\* #teardownPeer: an open() that waits for the channel is told.
RejectChannelOpen == opened' = IF opened = "pending" THEN "rejected" ELSE opened
\* Mutant: the peer connection stays.
DropChannel == channel' = "none" /\ peer' = peer
DropPeer == peer' = "none" /\ channel' = "none"
Teardown == RejectChannelOpen /\ DropPeer

-----------------------------------------------------------------------------
\* open() up to its first await.
Open ==
    /\ state = "closed" /\ ~ended /\ call # "pending"
    /\ opens < MaxOpens /\ opens' = opens + 1
    /\ peer' = "new" /\ channel' = "connecting" /\ opened' = "pending"
    /\ step' = 1 /\ byUser' = FALSE /\ state' = "opening" /\ call' = "pending"
    /\ UNCHANGED ended

\* The catch of open().
Fail ==
    /\ Teardown /\ state' = "closed" /\ step' = 0 /\ call' = "rejected"
    /\ UNCHANGED <<byUser, ended, opens>>

\* The awaited call answers. The channel is awaited last, and may have opened or
\* failed before.
Answer ==
    /\ step > 0
    /\ \/ byUser /\ (step = 7 => opened # "pending") /\ Fail
       \/ step < 7 /\ ~byUser /\ step' = step + 1
          /\ UNCHANGED <<state, peer, channel, opened, byUser, ended, call, opens>>
       \/ step = 7 /\ ~byUser /\ opened = "resolved" /\ step' = 0 /\ call' = "resolved"
          /\ UNCHANGED <<state, peer, channel, opened, byUser, ended, opens>>
       \/ step = 7 /\ opened = "rejected" /\ Fail

\* The awaited call fails; the gathering of candidates ends in any case.
Refuse == step \in 1..6 \ {3} /\ Fail

\* close(); signaling.close() changes nothing here.
Close ==
    /\ byUser' = TRUE /\ ended' = TRUE /\ Teardown /\ state' = "closed"
    /\ UNCHANGED <<step, call, opens>>

-----------------------------------------------------------------------------
\* The channel opens once the descriptions are exchanged.
ChannelOpen ==
    /\ channel = "connecting" /\ peer = "connected" /\ channel' = "open"
    /\ IF opened = "pending" THEN opened' = "resolved" /\ state' = "open"
                             ELSE UNCHANGED <<opened, state>>
    /\ UNCHANGED <<peer, step, byUser, ended, call, opens>>

\* An error is followed by the close of the channel.
ChannelError ==
    /\ channel \in {"connecting", "open"}
    /\ state' = IF byUser THEN state ELSE "error"
    /\ RejectChannelOpen /\ UNCHANGED <<peer, channel, step, byUser, ended, call, opens>>

ChannelClose ==
    /\ channel \in {"connecting", "open"} /\ channel' = "closed"
    /\ RejectChannelOpen
    /\ state' = IF byUser THEN "closed"
                ELSE IF opened = "pending" THEN state ELSE "reconnecting"
    /\ UNCHANGED <<peer, step, byUser, ended, call, opens>>

\* Mutant: open is shown before the channel is.
ShowAlways == "open"
\* #onPeerConnectionStateChange. The peer connects after the descriptions are
\* exchanged; a failed connection stays failed.
ShowIfChannelOpen == IF channel = "open" THEN "open" ELSE state
PeerChange(next) ==
    /\ step \in {0, 6, 7}
    /\ \/ peer \in {"new", "disconnected"} /\ next = "connecting"
       \/ peer \in {"connecting", "disconnected"} /\ next = "connected"
       \/ peer = "connected" /\ next = "disconnected"
       \/ peer \in {"connecting", "disconnected"} /\ next = "failed"
    /\ peer' = next
    /\ state' = CASE next = "connected" -> ShowIfChannelOpen
                  [] next \in {"connecting", "disconnected"} ->
                         IF state = "open" THEN "reconnecting" ELSE state
                  [] next = "failed" -> "error"
    /\ UNCHANGED <<channel, opened, step, byUser, ended, call, opens>>

Next ==
    \/ Open \/ Answer \/ Refuse \/ Close \/ ChannelOpen \/ ChannelError \/ ChannelClose
    \/ \E next \in {"connecting", "connected", "disconnected", "failed"} : PeerChange(next)
Spec == Init /\ [][Next]_vars

-----------------------------------------------------------------------------
Held == peer # "none"

\* A link that says it is open has a channel that takes its bytes, whatever the
\* peer went through: #send drops them without a word otherwise.
SendIsSafe == state = "open" => channel = "open" /\ peer = "connected"

\* An inductive invariant: a link that is not closed has its peer and its channel, and
\* what the owner closed is let go.
Inv ==
    /\ TypeOK /\ SendIsSafe
    /\ (state = "closed") = (peer = "none") /\ (peer = "none") = (channel = "none")
    /\ byUser => ended /\ peer = "none"
    /\ opened = "pending" => channel = "connecting"
    /\ (call = "pending") = (step > 0)
    /\ step > 0 /\ ~byUser => peer # "none"
=============================================================================

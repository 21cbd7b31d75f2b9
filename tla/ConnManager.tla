----------------------------- MODULE ConnManager -----------------------------
(***************************************************************************)
(* The node's connection manager (node/connmgr/connmanager.go) and the     *)
(* part of the server that uses it (node/server.go: peerHandler and        *)
(* peerLifecycleHandler): connection requests that are dialled, retried    *)
(* and replaced by goroutines and timers, the peers that run on the        *)
(* connections, and the operator's connect, disconnect and remove.         *)
(*                                                                         *)
(* A message to connHandler is handled at the moment it is received: its   *)
(* sender does nothing between.  A request that nothing refers to any more *)
(* may be used again: ids are only ever compared for equality.             *)
(***************************************************************************)
EXTENDS Integers, FiniteSets, FiniteSetsExt

CONSTANTS
  Target,      \* Config.TargetOutbound
  AddPeers,    \* number of permanent peers in the configuration
  MaxInbound,  \* Config.MaxInbound
  MaxPeers,    \* the server's cfg.MaxPeers
  MaxCalls,    \* bound: connect, disconnect and remove commands
  MaxFaults    \* bound: addresses not found, failed dials, refusals, drops

ASSUME ConnAssumption ==
  /\ Target \in Nat \ {0} /\ AddPeers \in Nat
  /\ MaxInbound \in Nat /\ MaxPeers \in Nat
  /\ MaxCalls \in Nat /\ MaxFaults \in Nat

Req == 1..(AddPeers + Target + MaxCalls)
Peer == 1..(AddPeers + Target + MaxCalls + MaxInbound + 1)

\* What a goroutine, or a timer that will start one, is about to do with a
\* request: dial it, find an address for it, replace it, or make a peer of it.
Op == {"address", "connect", "dial", "replace", "onconnection"}

VARIABLES
  cm,      \* the connection manager: see CM
  peers,   \* server peers, with the request each one runs on, 0 for inbound
  listed,  \* peerState: inboundPeers, outboundPeers and persistentPeers
  groups,  \* peerState.outboundGroups, summed over the groups
  sync,    \* the peers the sync manager has been told of
  removed, \* history: requests whose peer the operator has removed
  calls, faults

vars == <<cm, peers, listed, groups, sync, removed, calls, faults>>

State == {"unused", "pending", "failing", "canceled", "established", "disconnected"}
CM == [kind : [Req -> {"auto", "perm", "once"}], state : [Req -> State],
       pending : SUBSET Req, conns : SUBSET Req,
       going : [Op \X Req -> 0..2],   \* goroutines and timers at work
       new : Nat]                     \* goroutines entering NewConnReq
PeerRec == [req : Req \cup {0}, up : BOOLEAN,
            stage : {"free", "handshake", "adding", "handled"}]

NoPeer == [req |-> 0, up |-> FALSE, stage |-> "free"]

Init ==
  /\ cm = [kind |-> [r \in Req |-> IF r <= AddPeers THEN "perm" ELSE "auto"],
           state |-> [r \in Req |-> "unused"],
           pending |-> {}, conns |-> {},
           going |-> [x \in Op \X Req |->
                        IF x[1] = "connect" /\ x[2] <= AddPeers THEN 1 ELSE 0],
           new |-> Target]
  /\ peers = [p \in Peer |-> NoPeer]
  /\ listed = {} /\ groups = 0 /\ sync = {} /\ removed = {}
  /\ calls = 0 /\ faults = 0

-----------------------------------------------------------------------------
(* connHandler                                                               *)

Perm(m, r) == m.kind[r] = "perm"
Go(m, op, r) == [m EXCEPT !.going[<<op, r>>] = @ + 1]
Ran(m, op, r) == [m EXCEPT !.going[<<op, r>>] = @ - 1]
New(m) == [m EXCEPT !.new = @ + 1]

\* A permanent request is dialled again by a timer; another one is replaced.
HandleFailedConn(m, r) == Go(m, IF Perm(m, r) THEN "connect" ELSE "replace", r)

RegisterPending(m, r) ==
  [m EXCEPT !.state[r] = "pending", !.pending = @ \cup {r}]

HandleConnected(m, r) ==
  IF r \notin m.pending THEN m
  ELSE Go([m EXCEPT !.state[r] = "established", !.conns = @ \cup {r},
                    !.pending = @ \ {r}], "onconnection", r)

HandleFailed(m, r) ==
  IF r \notin m.pending THEN m
  ELSE HandleFailedConn([m EXCEPT !.state[r] = "failing"], r)

\* A mutant of HandleDisconnected: the retried request is not pending.
RetryUnregistered(m, r, retry) ==
  LET gone == [m EXCEPT !.conns = @ \ {r}] IN
  CASE r \in m.conns /\ ~retry -> [gone EXCEPT !.state[r] = "disconnected"]
    [] r \in m.conns /\ retry ->
         IF Cardinality(gone.conns) < Target \/ Perm(m, r)
         THEN HandleFailedConn([gone EXCEPT !.state[r] = "pending"], r) ELSE gone
    [] r \notin m.conns /\ r \in m.pending ->
         [m EXCEPT !.state[r] = "canceled", !.pending = @ \ {r}]
    [] OTHER -> m
HandleDisconnected(m, r, retry) ==
  LET gone == [m EXCEPT !.conns = @ \ {r}] IN
  CASE r \in m.conns /\ ~retry -> [gone EXCEPT !.state[r] = "disconnected"]
    [] r \in m.conns /\ retry ->
         IF Cardinality(gone.conns) < Target \/ Perm(m, r)
         THEN HandleFailedConn(RegisterPending(gone, r), r) ELSE gone
    [] r \notin m.conns /\ r \in m.pending ->
         [m EXCEPT !.state[r] = "canceled", !.pending = @ \ {r}]
    [] OTHER -> m

Disconnect(m, r) == HandleDisconnected(m, r, TRUE)
Remove(m, r) == HandleDisconnected(m, r, FALSE)

-----------------------------------------------------------------------------
(* The goroutines of connection requests                                     *)

Fault == faults < MaxFaults /\ faults' = faults + 1
NoFault == UNCHANGED faults
serverVars == <<peers, listed, groups, sync, removed, calls>>

Referenced(r) ==
  \/ r \in cm.pending \cup cm.conns
  \/ \E op \in Op : cm.going[<<op, r>>] > 0
  \/ \E p \in Peer : peers[p].stage # "free" /\ peers[p].req = r
Unused == {r \in Req : ~Referenced(r)}

NewConnReq ==
  /\ cm.new > 0 /\ Unused # {}
  /\ LET r == Min(Unused) IN
     /\ cm' = Go(RegisterPending([cm EXCEPT !.new = @ - 1, !.kind[r] = "auto"], r),
                 "address", r)
     /\ removed' = removed \ {r}
  /\ UNCHANGED <<peers, listed, groups, sync, calls, faults>>

\* What Connect does first: a request that was cancelled meanwhile is left.
StartDial(m, r) ==
  CASE m.state[r] = "canceled" -> m
    [] m.state[r] = "unused" -> Go(RegisterPending(m, r), "dial", r)
    [] OTHER -> Go(m, "dial", r)

GetNewAddress(r) ==
  /\ cm.going[<<"address", r>>] > 0
  /\ LET m == Ran(cm, "address", r) IN
     \/ cm' = StartDial(m, r) /\ NoFault
     \/ cm' = HandleFailed(m, r) /\ Fault
  /\ UNCHANGED serverVars

Connect(r) ==
  /\ cm.going[<<"connect", r>>] > 0
  /\ cm' = StartDial(Ran(cm, "connect", r), r)
  /\ NoFault /\ UNCHANGED serverVars

Dial(r) ==
  /\ cm.going[<<"dial", r>>] > 0
  /\ LET m == Ran(cm, "dial", r) IN
     \/ cm' = HandleConnected(m, r) /\ NoFault
     \/ cm' = HandleFailed(m, r) /\ Fault
  /\ UNCHANGED serverVars

\* The goroutine that handleFailedConn starts, or its timer.
Replace(r) ==
  /\ cm.going[<<"replace", r>>] > 0
  /\ cm' = New(Remove(Ran(cm, "replace", r), r))
  /\ NoFault /\ UNCHANGED serverVars

-----------------------------------------------------------------------------
(* Peers                                                                     *)

FreePeers == {p \in Peer : peers[p].stage = "free"}
Inbound(p) == peers[p].req = 0
Persistent(p) == peers[p].req # 0 /\ Perm(cm, peers[p].req)
Slots == {p \in Peer : peers[p].up /\ Inbound(p)}
Shut(S) == [p \in Peer |-> IF p \in S THEN [peers[p] EXCEPT !.up = FALSE] ELSE peers[p]]

\* A mutant of Ended: the replacement is only made for a listed peer.
EndedListed(m, r, p) ==
  IF Perm(m, r) THEN Disconnect(m, r)
  ELSE IF p \in listed THEN New(Remove(m, r)) ELSE Remove(m, r)
\* What the server tells the connection manager of a connection that ended.
Ended(m, r, p) == IF Perm(m, r) THEN Disconnect(m, r) ELSE New(Remove(m, r))

OutboundPeerConnected(r) ==
  /\ cm.going[<<"onconnection", r>>] > 0 /\ FreePeers # {}
  /\ LET m == Ran(cm, "onconnection", r)
         p == Min(FreePeers) IN
     \/ cm' = Ended(m, r, p) /\ Fault /\ UNCHANGED peers
     \/ /\ cm' = m /\ NoFault
        /\ peers' = [peers EXCEPT ![p] = [req |-> r, up |-> TRUE, stage |-> "handshake"]]
  /\ UNCHANGED <<listed, groups, sync, removed, calls>>

\* limitInbound and inboundPeerConnected.
Accept ==
  /\ Cardinality(Slots) < MaxInbound /\ FreePeers # {}
  /\ peers' = [peers EXCEPT ![Min(FreePeers)] =
                 [req |-> 0, up |-> TRUE, stage |-> "handshake"]]
  /\ UNCHANGED <<cm, listed, groups, sync, removed, calls, faults>>

\* The handshake is over and peerLifecycleHandler sends peerAdd.
VerAck(p) ==
  /\ peers[p].stage = "handshake" /\ peers[p].up
  /\ peers' = [peers EXCEPT ![p].stage = "adding"]
  /\ UNCHANGED <<cm, listed, groups, sync, removed, calls, faults>>

\* The remote end, a timeout or a protocol error ends the connection.
Drop(p) ==
  /\ peers[p].up /\ Fault
  /\ peers' = Shut({p})
  /\ UNCHANGED <<cm, listed, groups, sync, removed, calls>>

Handled(ps, p) == [ps EXCEPT ![p].stage = "handled"]
\* handleAddPeerMsg: the peer is listed, or refused because it is gone, there
\* are too many, or it is banned or of an unwanted user agent.
AddPeer(p) ==
  /\ peers[p].stage = "adding"
  /\ LET full == Cardinality(listed) >= MaxPeers IN
     \/ /\ peers[p].up /\ ~full /\ NoFault
        /\ peers' = Handled(peers, p)
        /\ listed' = listed \cup {p} /\ sync' = sync \cup {p}
        /\ groups' = IF Inbound(p) THEN groups ELSE groups + 1
     \/ /\ peers[p].up /\ full /\ NoFault
        /\ peers' = Handled(Shut({p}), p)
        /\ UNCHANGED <<listed, sync, groups>>
     \/ /\ peers[p].up /\ ~full /\ Fault
        /\ peers' = Handled(Shut({p}), p)
        /\ UNCHANGED <<listed, sync, groups>>
     \/ /\ ~peers[p].up /\ NoFault
        /\ peers' = Handled(peers, p)
        /\ UNCHANGED <<listed, sync, groups>>
  /\ UNCHANGED <<cm, removed, calls>>

\* A mutant of DonePeer: the sync manager only hears of listed peers.
DonePeerListed(p) ==
  /\ peers[p].stage \in {"handshake", "handled"} /\ ~peers[p].up
  /\ peers' = [peers EXCEPT ![p] = NoPeer]
  /\ cm' = IF Inbound(p) THEN cm ELSE Ended(cm, peers[p].req, p)
  /\ groups' = IF p \in listed /\ ~Inbound(p) THEN groups - 1 ELSE groups
  /\ listed' = listed \ {p}
  /\ sync' = IF p \in listed THEN sync \ {p} ELSE sync
  /\ UNCHANGED <<removed, calls, faults>>
\* peerDone, sent after peerAdd when that was sent, and handleDonePeerMsg.
DonePeer(p) ==
  /\ peers[p].stage \in {"handshake", "handled"} /\ ~peers[p].up
  /\ peers' = [peers EXCEPT ![p] = NoPeer]
  /\ cm' = IF Inbound(p) THEN cm ELSE Ended(cm, peers[p].req, p)
  /\ groups' = IF p \in listed /\ ~Inbound(p) THEN groups - 1 ELSE groups
  /\ listed' = listed \ {p}
  /\ sync' = IF peers[p].stage = "handled" THEN sync \ {p} ELSE sync
  /\ UNCHANGED <<removed, calls, faults>>

-----------------------------------------------------------------------------
(* The operator                                                              *)

Call == calls < MaxCalls /\ calls' = calls + 1

\* connectNodeMsg: addnode add, addnode onetry and node connect.
ConnectNode(kind) ==
  /\ Call /\ Cardinality(listed) < MaxPeers /\ Unused # {}
  /\ LET r == Min(Unused) IN
     /\ cm' = Go([cm EXCEPT !.kind[r] = kind, !.state[r] = "unused"], "connect", r)
     /\ removed' = removed \ {r}
  /\ UNCHANGED <<peers, listed, groups, sync, faults>>

\* A mutant of DisconnectPeers: the peers stay on their list.
DisconnectUnlisted(S) ==
  /\ peers' = Shut(S) /\ listed' = listed
  /\ groups' = groups - Cardinality({p \in S : ~Inbound(p)})
\* disconnectPeer, for every peer that matches.
DisconnectPeers(S) ==
  /\ peers' = Shut(S) /\ listed' = listed \ S
  /\ groups' = groups - Cardinality({p \in S : ~Inbound(p)})

DisconnectNode(S) ==
  /\ Call
  /\ S \subseteq {p \in listed : ~Persistent(p)}
  /\ Cardinality(S) = 1 \/ (S # {} /\ \A p \in S : ~Inbound(p))
  /\ DisconnectPeers(S)
  /\ UNCHANGED <<cm, sync, removed, faults>>

RemoveNode(p) ==
  /\ Call
  /\ p \in listed /\ Persistent(p)
  /\ DisconnectPeers({p})
  /\ removed' = removed \cup {peers[p].req}
  /\ UNCHANGED <<cm, sync, faults>>

-----------------------------------------------------------------------------

RequestStep(r) ==
  GetNewAddress(r) \/ Connect(r) \/ Dial(r) \/ Replace(r) \/ OutboundPeerConnected(r)
PeerStep(p) == VerAck(p) \/ AddPeer(p) \/ DonePeer(p)

Next ==
  \/ NewConnReq \/ Accept
  \/ \E r \in Req : RequestStep(r)
  \/ \E p \in Peer : PeerStep(p) \/ Drop(p) \/ RemoveNode(p)
  \/ \E kind \in {"perm", "once"} : ConnectNode(kind)
  \/ \E S \in SUBSET listed : DisconnectNode(S)

\* Goroutines run, timers fire, a dial and a handshake end one way or the
\* other, and the server's loop reads its channels.
Fairness ==
  /\ WF_vars(NewConnReq)
  /\ \A r \in Req : WF_vars(RequestStep(r))
  /\ \A p \in Peer : WF_vars(PeerStep(p))

Spec == Init /\ [][Next]_vars /\ Fairness

-----------------------------------------------------------------------------
(* Properties                                                                *)

\* The state has its shape, and no counter of connhandler's goroutines or of
\* outboundGroups goes below zero or above what can be at work.
ConnTypeOK ==
  /\ cm \in CM /\ peers \in [Peer -> PeerRec]
  /\ listed \subseteq Peer /\ sync \subseteq Peer /\ removed \subseteq Req
  /\ groups \in Nat /\ calls \in 0..MaxCalls /\ faults \in 0..MaxFaults

Owners(r) ==
  cm.going[<<"address", r>>] + cm.going[<<"connect", r>>] + cm.going[<<"dial", r>>]
    + cm.going[<<"replace", r>>] + cm.going[<<"onconnection", r>>]
    + Cardinality({p \in Peer : peers[p].stage # "free" /\ peers[p].req = r})

\* Every request that connHandler holds (pending or conns) has exactly one
\* owner that will move it on: a goroutine, a timer or a running peer.  None
\* is leaked, none is dialled twice, and a request that was cancelled or
\* removed is not dialled any more.
OneOwner ==
  ConnTypeOK /\ \A r \in Req :
    /\ r \in cm.pending \cup cm.conns => Owners(r) = 1
    /\ r \in cm.conns <=>
         \/ cm.going[<<"onconnection", r>>] > 0
         \/ \E p \in Peer : peers[p].stage # "free" /\ peers[p].req = r
    /\ cm.pending \cap cm.conns = {}
    /\ Owners(r) > 0 /\ cm.going[<<"connect", r>>] = 0 => r \in cm.pending \cup cm.conns

Live == {r \in Req : Referenced(r) /\ ~Perm(cm, r)}
\* TargetOutbound: through every failure, refusal, drop and command the
\* automatic requests at work are never more than TargetOutbound and the
\* one-shot connects asked for, and never fewer than TargetOutbound: no
\* slot is lost when a connection ends, and none is doubled.
SlotsKept == cm.new + Cardinality(Live) \in Target..(Target + calls)

\* outboundGroups counts the listed outbound peers, although both
\* disconnectPeer and handleDonePeerMsg take the same peer away.
GroupsExact == groups = Cardinality({p \in listed : ~Inbound(p)})

\* The sync manager never keeps a peer that is gone: what NewPeer announced
\* is taken back by DonePeer, for a peer that disconnectPeer took off its
\* list as well, and every listed peer has been announced.
SyncPeersLive ==
  /\ listed \subseteq sync
  /\ \A p \in sync : peers[p].stage = "handled"

\* Once connections stop failing, the automatic outbound connections reach
\* TargetOutbound and stay there.
PoolFills ==
  <>[](Cardinality({r \in cm.conns : ~Perm(cm, r)}) >= Target)

\* rpcserverhelp.go:35, "'remove' to remove a persistent peer": a removed
\* peer's request is not connected again.
RemovedStaysGone ==
  [][\A r \in removed \cap removed' : r \in cm'.conns => r \in cm.conns]_vars
=============================================================================

------------------------------- MODULE NetSync -------------------------------
(***************************************************************************)
(* The node's sync manager (node/netsync/manager.go and priority.go): the  *)
(* choice of a sync peer, headers-first download up to the checkpoints,    *)
(* the inventory protocol after them, stalls, and peers that come and go   *)
(* while answers to earlier requests are still in flight.                  *)
(*                                                                         *)
(* Every peer is honest and follows the one chain, so a block is known by  *)
(* its height.  blockHandler is one goroutine: a handler is one step.  The *)
(* answers of a peer arrive in order; a block may overtake the other       *)
(* messages of its peer (findBestBlockMsg), and the messages of different  *)
(* peers arrive in any order.                                              *)
(***************************************************************************)
EXTENDS Integers, Sequences, SequencesExt, FiniteSets, FiniteSetsExt

CONSTANTS
  Peer, NoPeer,
  Inbound,     \* the peers that dialled us
  Limited,     \* the peers that only serve their last PruneDepth blocks
  PruneDepth,  \* wire.NodeNetworkLimitedBlockThreshold
  Top,         \* bound: height of the chain
  Tip0,        \* the height the peers start with
  Checkpoints, \* heights of the checkpoints
  Fresh,       \* lowest height whose block is less than a day old
  HeaderBatch, \* wire.MaxBlockHeadersPerMsg
  InvBatch,    \* wire.MaxBlocksPerMsg
  GetDataMax,  \* wire.MaxInvPerMsg
  MinInFlight, \* minInFlightBlocks
  StrikeLimit, \* lowQualityStrikeLimit
  MaxSubmits,  \* bound: blocks submitted by RPC
  MaxFaults    \* bound: lost connections and stalls with an answer in flight

None == -1
Height == 0..Top

ASSUME NetSyncAssumption ==
  /\ NoPeer \notin Peer /\ Inbound \subseteq Peer /\ Limited \subseteq Peer
  /\ Top \in Nat /\ Checkpoints \subseteq 1..Top /\ Tip0 \in Height /\ Fresh \in Nat
  /\ {PruneDepth, HeaderBatch, InvBatch, GetDataMax, MinInFlight,
      StrikeLimit} \subseteq Nat \ {0}
  /\ MaxSubmits \in Nat /\ MaxFaults \in Nat

VARIABLES
  s,        \* the sync manager, the chain and the peers: see SyncState
  submits, faults

vars == <<s, submits, faults>>

\* What a peer has sent.
Message ==
  [t : {"headers"}, from : Height, to : Height, cert : BOOLEAN]
    \cup [t : {"inv"}, from : Height, to : Height]
    \cup [t : {"block"}, h : Height]
    \cup [t : {"notfound"}, hs : SUBSET Height]

\* A height or none, the begin and stop of a request, the life of a connection.
Mark == Height \cup {None}
Asked == Mark \X Mark
Link == {"off", "on", "closing"}

\* The sync manager's fields, the chain and, from tip on, the peers.
SyncState ==
  [best : Height, orphans : SUBSET Height,
   peers : SUBSET Peer, candidate : SUBSET Peer, failed : SUBSET (Peer \ Inbound),
   blamed : SUBSET Peer, req : [Peer -> SUBSET Height], requested : SUBSET Height,
   strikes : [Peer -> 0..StrikeLimit], sync : Peer \cup {NoPeer}, hf : BOOLEAN,
   start : Mark, next : Checkpoints \cup {None}, list : Seq(Height),
   tip : [Peer -> Height], last : [Peer -> Height],
   announced : [Peer -> Mark], link : [Peer -> Link],
   inbox : [Peer -> Seq(Message)],
   getheaders : [Peer -> Asked], getblocks : [Peer -> Asked],
   continue : [Peer -> Mark]]

\* The i-th lowest element of S.
Nth(S, i) == CHOOSE h \in S : Cardinality({k \in S : k < h}) = i - 1

-----------------------------------------------------------------------------
(* The chain                                                                 *)

HaveBlock(m, h) == h <= m.best \/ h \in m.orphans
IsCurrent(m) == m.best >= Fresh /\ \A c \in Checkpoints : m.best >= c

\* The block extends the best chain, with the orphans that then connect, or
\* is kept as an orphan; a known one is refused.
ProcessBlock(m, h) ==
  IF HaveBlock(m, h) THEN m
  ELSE IF h = m.best + 1
  THEN LET top == CHOOSE k \in h..Top :
                    /\ (h + 1)..k \subseteq m.orphans
                    /\ k + 1 \notin m.orphans
       IN [m EXCEPT !.best = top, !.orphans = @ \ (h..top)]
  ELSE [m EXCEPT !.orphans = @ \cup {h}]

\* The root's hash: the lowest orphan below h without a gap.
OrphanRoot(m, h) ==
  CHOOSE r \in 0..h : r..h \subseteq m.orphans /\ r - 1 \notin m.orphans

-----------------------------------------------------------------------------
(* The peers' side of the requests                                           *)

Send(m, p, msgs) == [m EXCEPT !.inbox[p] = @ \o msgs]

\* locateInventory: what peer p has after begin, up to stop if it knows it.
Located(m, p, begin, stop, max) ==
  LET end == IF stop \in (begin + 1)..m.tip[p] THEN stop ELSE m.tip[p]
  IN Min({begin + max, end})

\* An empty answer has no effect.
OnGetHeaders(m, p, begin, stop, cert) ==
  LET to == Located(m, p, begin, stop, HeaderBatch) IN
  IF to <= begin THEN m
  ELSE Send(m, p, << [t |-> "headers", from |-> begin + 1, to |-> to, cert |-> cert] >>)

\* The answer to each getblocks is an inv; when one is full its last block is
\* remembered.
OnGetBlocks(m, p, begin, stops) ==
  LET To(stop) == Located(m, p, begin, stop, InvBatch)
      answered == {stop \in stops : To(stop) > begin}
      full     == \E stop \in answered : To(stop) = begin + InvBatch
  IN Send([m EXCEPT !.continue[p] = IF full THEN begin + InvBatch ELSE @], p,
          [i \in 1..Cardinality(answered) |->
             [t |-> "inv", from |-> begin + 1, to |-> To(Nth(answered, i))]])

\* A back-to-back duplicate is not sent, whether or not it asks for
\* certificates.
PushGetHeaders(m, p, begin, stop, cert) ==
  IF m.getheaders[p] = <<begin, stop>> THEN m
  ELSE OnGetHeaders([m EXCEPT !.getheaders[p] = <<begin, stop>>], p, begin, stop, cert)

\* One getblocks for each of the stops, ascending.
PushGetBlocks(m, p, begin, stops) ==
  LET sent == {stop \in stops : stop = Min(stops) => m.getblocks[p] # <<begin, stop>>}
  IN OnGetBlocks([m EXCEPT !.getblocks[p] = <<begin, Max(stops)>>], p, begin, sent)

Serves(m, p, h) == p \notin Limited \/ h > m.tip[p] - PruneDepth

\* The answer to a getdata for the blocks hs: the blocks in order, the peer's
\* tip after the one that ended a full inv, and what the peer does not have.
GetData(m, p, hs) ==
  LET Blocks(S) == [i \in 1..Cardinality(S) |-> [t |-> "block", h |-> Nth(S, i)]]
      served    == {h \in hs : Serves(m, p, h)}
      upto      == {h \in served : m.continue[p] \in served => h <= m.continue[p]}
      tip       == IF m.continue[p] \in served
                   THEN << [t |-> "inv", from |-> m.tip[p], to |-> m.tip[p]] >> ELSE <<>>
      missing   == IF hs = served THEN <<>> ELSE << [t |-> "notfound", hs |-> hs \ served] >>
  IN Send([m EXCEPT !.continue[p] = IF @ \in served THEN None ELSE @], p,
          Blocks(upto) \o tip \o Blocks(served \ upto) \o missing)

-----------------------------------------------------------------------------
(* Choosing a sync peer                                                      *)

FindNextHeaderCheckpoint(h) ==
  LET later == {c \in Checkpoints : c > h} IN IF later = {} THEN None ELSE Min(later)

ResetHeaderState(m) ==
  [m EXCEPT !.hf = FALSE, !.start = None,
            !.list = IF m.next # None THEN <<m.best>> ELSE <<>>]

IsSyncCandidate(m, p) ==
  p \in Limited => m.best + 1 > m.last[p] - PruneDepth

\* Outbound peers; inbound ones only when there is no other and we are behind.
PickSyncCandidate(m) ==
  LET fit == {p \in m.peers : p \in m.candidate /\ p \notin m.failed} IN
  IF fit \ Inbound = {} /\ ~IsCurrent(m) THEN fit ELSE fit \ Inbound

NothingNew(m, p) ==
  IF m.announced[p] # None THEN HaveBlock(m, m.announced[p]) ELSE m.last[p] <= m.best

SyncWith(m, p) ==
  LET n == [m EXCEPT !.requested = {}, !.sync = p] IN
  IF m.next # None /\ m.best < m.next
  THEN [PushGetHeaders(n, p, m.best, m.next, TRUE) EXCEPT !.hf = TRUE]
  ELSE PushGetBlocks(n, p, m.best, {None})

\* The states startSync can reach: one for each candidate that rand picks.
StartSync(m) ==
  IF m.sync # NoPeer \/ PickSyncCandidate(m) = {} THEN {m}
  ELSE {IF NothingNew(m, p) THEN m ELSE SyncWith(m, p) : p \in PickSyncCandidate(m)}

Disconnect(m, p) == [m EXCEPT !.link[p] = IF @ = "on" THEN "closing" ELSE @]

\* The history variable blamed holds the peers disconnected as misbehaving.
Blame(m, p) == [Disconnect(m, p) EXCEPT !.blamed = @ \cup {p}]

\* A mutant of UpdateSyncPeer: the header state is kept for the next peer.
UpdateWithoutReset(m) == StartSync([m EXCEPT !.sync = NoPeer])
UpdateSyncPeer(m) ==
  StartSync([(IF m.hf THEN ResetHeaderState(m) ELSE m) EXCEPT !.sync = NoPeer])

\* A mutant of ClearRequestedState: the marks of a lost peer stay.
KeepRequestedState(m, p) == m
ClearRequestedState(m, p) == [m EXCEPT !.requested = @ \ m.req[p]]

HandleNewPeer(m, p) ==
  LET n == [m EXCEPT !.peers = @ \cup {p}, !.req[p] = {},
                     !.candidate = IF IsSyncCandidate(m, p) THEN @ \cup {p} ELSE @ \ {p},
                     !.strikes[p] = IF p \in Inbound THEN StrikeLimit ELSE 0]
  IN IF p \in n.candidate THEN StartSync(n) ELSE {n}

\* A mutant of HandleDonePeer: the sync peer is not replaced.
DonePeerKept(m, p) ==
  {[ClearRequestedState(m, p) EXCEPT !.peers = @ \ {p}, !.req[p] = {}]}
HandleDonePeer(m, p) ==
  LET n == [ClearRequestedState(m, p) EXCEPT !.peers = @ \ {p}, !.req[p] = {}]
  IN IF p = m.sync THEN UpdateSyncPeer(n) ELSE {n}

\* The stall timer found no progress of the sync peer for three minutes.
HandleStalled(m) ==
  LET n == [ClearRequestedState(m, m.sync) EXCEPT
              !.failed = IF m.sync \in Inbound THEN @ ELSE @ \cup {m.sync}]
  IN IF m.sync \notin m.peers THEN {m}
     ELSE UpdateSyncPeer(IF m.last[m.sync] > m.best THEN Disconnect(n, m.sync) ELSE n)

Current(m) == IsCurrent(m) /\ (m.sync = NoPeer \/ m.best >= m.last[m.sync])

-----------------------------------------------------------------------------
(* Messages                                                                  *)

\* Request what is not known from startHeader on, as far as one getdata goes;
\* an element that has left the list has no next.
FetchHeaderBlocks(m) ==
  IF m.start = None THEN m
  ELSE LET rest == IF m.start \in ToSet(m.list)
                   THEN {h \in ToSet(m.list) : h >= m.start} ELSE {m.start}
           miss == {h \in rest : ~HaveBlock(m, h)}
           want == {h \in miss : Cardinality({k \in miss : k <= h}) <= GetDataMax}
           left == {h \in rest : Cardinality(want) = GetDataMax /\ h > Max(want)}
           n    == [m EXCEPT !.start = IF left = {} THEN None ELSE Min(left),
                             !.requested = @ \cup want,
                             !.req[m.sync] = @ \cup want]
       IN GetData(n, m.sync, want)

\* The peers that announced the block of height h are known to have it.
HandleUpdatePeerHeights(m, p, h) ==
  LET told == {q \in m.peers \ {p} : m.announced[q] = h} IN
  [m EXCEPT !.last = [q \in Peer |-> IF q \in told THEN Max({@[q], h}) ELSE @[q]],
            !.announced = [q \in Peer |-> IF q \in told THEN None ELSE @[q]]]

\* After a block was accepted (h is our height) or kept as an orphan (h is its
\* height).
UpdateHeights(m, p, h, orphan) ==
  LET n == [m EXCEPT !.last[p] = Max({@, h})]
  IN IF orphan \/ Current(n) THEN HandleUpdatePeerHeights(n, p, h) ELSE n

\* The checkpoint block arrived: ask for the next round of headers, or switch
\* to normal mode.
AfterCheckpoint(m, p) ==
  LET next == FindNextHeaderCheckpoint(m.next)
      n    == [m EXCEPT !.next = next]
  IN IF next # None THEN PushGetHeaders(n, p, m.next, next, TRUE)
     ELSE PushGetBlocks([n EXCEPT !.hf = FALSE, !.list = <<>>], p, m.next, {None})

StrikeNonTip(n) == Min({n + 1, StrikeLimit})

HandleBlock(m, p, h) ==
  IF h \notin m.req[p] THEN Blame(m, p)
  ELSE
  LET first  == m.hf /\ m.list # <<>> /\ Head(m.list) = h
      isCkpt == first /\ h = m.next
      asked  == [m EXCEPT !.req[p] = @ \ {h}, !.requested = @ \ {h},
                          !.list = IF first /\ ~isCkpt THEN Tail(@) ELSE @]
      done   == ProcessBlock(asked, h)
      orphan == h \in done.orphans
      struck == [done EXCEPT !.strikes[p] =
                   IF orphan THEN StrikeNonTip(@) ELSE 0]
      told   == UpdateHeights(struck, p, IF orphan THEN h ELSE done.best, orphan)
      after  == IF orphan
                THEN PushGetBlocks(told, p, done.best, {OrphanRoot(done, h)}) ELSE told
  IN IF HaveBlock(asked, h) THEN asked
     ELSE IF ~m.hf THEN after
     ELSE IF isCkpt THEN AfterCheckpoint(after, p)
     ELSE IF Cardinality(after.req[p]) < MinInFlight THEN FetchHeaderBlocks(after)
     ELSE after

\* Outside headers-first mode: the answer to the probe of a low-quality peer.
HandleProbed(m, p, from, to) ==
  LET want == {h \in from..to : h \notin m.requested /\ ~HaveBlock(m, h)} IN
  IF ~HaveBlock(m, from - 1) \/ want = {} THEN m
  ELSE GetData([m EXCEPT !.requested = @ \cup want, !.req[p] = @ \cup want], p, want)

\* A mutant of Connects: any header follows.
ConnectsAlways(list, from) == TRUE
\* The header proves that it follows the last one of the list.
Connects(list, from) == list # <<>> /\ Last(list) = from - 1

HandleHeaders(m, p, from, to, cert) ==
  IF ~m.hf THEN IF cert THEN Blame(m, p) ELSE HandleProbed(m, p, from, to)
  ELSE IF p # m.sync THEN m
  ELSE IF ~Connects(m.list, from) \/ ~cert THEN Blame(m, p)
  ELSE LET reached == m.next \in from..to
           upto == IF reached THEN m.next ELSE to
           n    == [m EXCEPT !.list = @ \o [i \in 1..(upto - from + 1) |-> from + i - 1],
                             !.start = IF @ = None THEN from ELSE @]
       IN IF reached THEN FetchHeaderBlocks([n EXCEPT !.list = Tail(@)])
          ELSE PushGetHeaders(n, p, to, m.next, TRUE)

HandleNotFound(m, p, hs) ==
  [m EXCEPT !.req[p] = @ \ hs, !.requested = @ \ (hs \cap m.req[p])]

\* The first part of handleInvMsg: what the peer is known to have.
NoteAnnounced(m, p, to) ==
  LET n == IF p # m.sync \/ Current(m) THEN [m EXCEPT !.announced[p] = to] ELSE m
  IN IF Current(m) /\ to <= m.best THEN [n EXCEPT !.last[p] = Max({@, to})] ELSE n

\* A low-quality peer is probed for headers; from another one the unknown
\* blocks are requested, and more is asked for after an orphan that is already
\* known, or after a last block that is not our tip.
HandleInv(m, p, from, to) ==
  LET ignored == m.sync # NoPeer /\ p # m.sync /\ ~Current(m)
      noted   == NoteAnnounced(m, p, to)
      gated   == (Current(m) \/ m.sync = NoPeer) /\ m.strikes[p] >= StrikeLimit
      probed  == IF gated /\ ~HaveBlock(m, to)
                 THEN PushGetHeaders(noted, p, m.best, to, FALSE) ELSE noted
      orphans == (from..to) \cap m.orphans
      more    == IF orphans # {}
                 THEN PushGetBlocks(probed, p, m.best, {OrphanRoot(m, h) : h \in orphans})
                 ELSE IF to < m.best THEN PushGetBlocks(probed, p, to, {None}) ELSE probed
      want    == {h \in from..to : ~HaveBlock(m, h) /\ h \notin m.requested}
  IN IF ignored THEN [m EXCEPT !.announced[p] = to]
     ELSE IF m.hf \/ gated THEN probed
     ELSE IF want = {} THEN more
     ELSE GetData([more EXCEPT !.requested = @ \cup want, !.req[p] = @ \cup want],
                  p, want)

Handle(m, p, msg) ==
  CASE msg.t = "headers"  -> HandleHeaders(m, p, msg.from, msg.to, msg.cert)
    [] msg.t = "inv"      -> HandleInv(m, p, msg.from, msg.to)
    [] msg.t = "block"    -> HandleBlock(m, p, msg.h)
    [] msg.t = "notfound" -> HandleNotFound(m, p, msg.hs)

-----------------------------------------------------------------------------
(* Steps                                                                     *)

Init ==
  /\ s = [best |-> 0, orphans |-> {},
          peers |-> {}, candidate |-> {}, failed |-> {}, blamed |-> {},
          req |-> [p \in Peer |-> {}], requested |-> {},
          strikes |-> [p \in Peer |-> 0],
          sync |-> NoPeer, hf |-> FALSE, start |-> None,
          next |-> FindNextHeaderCheckpoint(0),
          list |-> IF Checkpoints = {} THEN <<>> ELSE <<0>>,
          tip |-> [p \in Peer |-> Tip0],
          last |-> [p \in Peer |-> 0], announced |-> [p \in Peer |-> None],
          link |-> [p \in Peer |-> "off"], inbox |-> [p \in Peer |-> <<>>],
          getheaders |-> [p \in Peer |-> <<None, None>>],
          getblocks |-> [p \in Peer |-> <<None, None>>],
          continue |-> [p \in Peer |-> None]]
  /\ submits = 0 /\ faults = 0

\* A peer completes its handshake, with the height of its version message,
\* and blockHandler is told.
NewPeer(p) ==
  /\ s.link[p] = "off"
  /\ s' \in HandleNewPeer([s EXCEPT !.link[p] = "on", !.last[p] = s.tip[p],
                                    !.announced[p] = None, !.inbox[p] = <<>>,
                                    !.getheaders[p] = <<None, None>>,
                                    !.getblocks[p] = <<None, None>>,
                                    !.continue[p] = None], p)
  /\ UNCHANGED <<submits, faults>>

\* blockHandler takes a message of peer p: the first one, or a block that
\* connects and has only other messages before it.
ReceiveAt(p, i) ==
  /\ i \in DOMAIN s.inbox[p]
  /\ i > 1 => /\ s.inbox[p][i].t = "block" /\ s.inbox[p][i].h - 1 <= s.best
              /\ \A j \in 1..(i - 1) : s.inbox[p][j].t # "block"
  /\ s' = Handle([s EXCEPT !.inbox[p] = RemoveAt(@, i)], p, s.inbox[p][i])
  /\ UNCHANGED <<submits, faults>>
Receive(p) == ReceiveAt(p, 1)
Overtake(p) == \E i \in 2..Len(s.inbox[p]) : ReceiveAt(p, i)

\* The connection is lost.  What has been read from it is still handled.
Drop(p) ==
  /\ s.link[p] = "on" /\ faults < MaxFaults
  /\ s' = Disconnect(s, p)
  /\ faults' = faults + 1 /\ UNCHANGED submits

DonePeer(p) ==
  /\ s.link[p] = "closing"
  /\ s' \in HandleDonePeer([s EXCEPT !.link[p] = "off", !.inbox[p] = <<>>], p)
  /\ UNCHANGED <<submits, faults>>

\* handleStallSample without a sync peer, while we are behind.
Retry ==
  /\ s.sync = NoPeer /\ ~IsCurrent(s)
  /\ s' \in StartSync(s)
  /\ UNCHANGED <<submits, faults>>

\* handleStallSample after three minutes without progress: the sync peer has
\* answered everything, or (a fault) an answer is late.
Stall ==
  /\ s.sync # NoPeer
  /\ \/ s.inbox[s.sync] = <<>> /\ UNCHANGED faults
     \/ s.inbox[s.sync] # <<>> /\ faults < MaxFaults /\ faults' = faults + 1
  /\ s' \in HandleStalled(s)
  /\ UNCHANGED submits

\* syncPeerCooldown is over for an address.
CoolDown(p) ==
  /\ p \in s.failed
  /\ s' = [s EXCEPT !.failed = @ \ {p}]
  /\ UNCHANGED <<submits, faults>>

\* The network finds a block; the peer announces it when it has it.
Announce(p) ==
  /\ s.tip[p] < Top
  /\ LET n == [s EXCEPT !.tip[p] = @ + 1] IN
     s' = IF s.link[p] # "on" THEN n
          ELSE Send(n, p, << [t |-> "inv", from |-> n.tip[p], to |-> n.tip[p]] >>)
  /\ UNCHANGED <<submits, faults>>

\* processBlockMsg: submitblock hands over the block after our tip.
Submit ==
  /\ submits < MaxSubmits /\ \E p \in Peer : s.best < s.tip[p]
  /\ s' = ProcessBlock(s, s.best + 1)
  /\ submits' = submits + 1 /\ UNCHANGED faults

Next ==
  \/ \E p \in Peer : \/ NewPeer(p) \/ Receive(p) \/ Overtake(p) \/ Drop(p)
                     \/ DonePeer(p) \/ CoolDown(p) \/ Announce(p)
  \/ Retry \/ Stall \/ Submit

\* blockHandler runs, its timers fire and lost peers are dialled again; rand
\* picks every candidate again and again.  The first conjunct is the weak
\* fairness of Receive, which is enabled while a message waits.
Fairness ==
  /\ \A p \in Peer : []<>(s.inbox[p] = <<>>) \/ []<><<Receive(p)>>_vars
  /\ WF_vars(Retry) /\ WF_vars(Stall)
  /\ \A p \in Peer : /\ WF_vars(DonePeer(p)) /\ WF_vars(CoolDown(p))
                     /\ SF_vars(Retry /\ s'.sync = p)
  /\ \A p \in Peer \ Inbound : WF_vars(NewPeer(p))

Spec == Init /\ [][Next]_vars
FairSpec == Spec /\ Fairness

-----------------------------------------------------------------------------
(* Properties                                                                *)

\* The type of the state.
SyncTypeOK == s \in SyncState /\ submits \in 0..MaxSubmits /\ faults \in 0..MaxFaults

\* In headers-first mode there is a next checkpoint and a sync peer with its
\* state: handleBlockMsg, handleHeadersMsg and fetchHeaderBlocks dereference
\* all three without a check.
NilSafe == s.hf => s.next # None /\ s.sync \in s.peers

\* A block that is marked as requested is still expected from a peer: a mark
\* that outlives its request would keep the block from ever being fetched.
RequestsOwned == SyncTypeOK /\ \A h \in s.requested : \E p \in s.peers : h \in s.req[p]

\* The header list runs without a gap: its first entry is the only one that
\* handleBlockMsg compares with an arriving block.
ListLinked == \A i \in 1..(Len(s.list) - 1) : s.list[i + 1] = s.list[i] + 1

\* The list is never empty in headers-first mode: "the anchor seeded by
\* resetHeaderState makes an empty list unreachable here".
AnchorKept == s.hf => s.list # <<>>

\* No peer is disconnected as misbehaving: all are honest and answer exactly
\* what they were asked.
HonestPeersKept == s.blamed = {}

\* The node becomes current, whatever stalls and connections are lost on the
\* way, unless startSync skips a peer because the block it announced last is
\* one of our orphans.
SyncCompletes == <>(IsCurrent(s) \/ \E p \in Peer : s.announced[p] \in s.orphans)
=============================================================================

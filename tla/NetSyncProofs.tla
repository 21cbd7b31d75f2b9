---------------------------- MODULE NetSyncProofs ----------------------------
(***************************************************************************)
(* The sync manager, for every set of peers, checkpoints, batch sizes and  *)
(* faults: what the handlers dereference is there, no mark of a requested  *)
(* block outlives its request, and the header list has no gap.             *)
(***************************************************************************)
EXTENDS NetSync, FiniteSetTheorems, WellFoundedInduction, TLAPS

\* The fields that the invariant is about, the messages aside.
Same(n, m) ==
  /\ n.peers = m.peers /\ n.req = m.req /\ n.requested = m.requested
  /\ n.sync = m.sync /\ n.hf = m.hf /\ n.next = m.next /\ n.list = m.list
  /\ n.link = m.link

\* From m to n at most peer p sent messages.
Sends(n, m, p) ==
  /\ n \in SyncState /\ Same(n, m)
  /\ \A q \in Peer : q # p => n.inbox[q] = m.inbox[q]

Owned(m) == \A h \in m.requested : \E p \in m.peers : h \in m.req[p]
Linked(list) == \A i \in 1..(Len(list) - 1) : list[i + 1] = list[i] + 1

\* The sync manager knows the peers whose connection it was told of, and
\* messages come from them only.
LinkOK(m) ==
  /\ m.peers = {p \in Peer : m.link[p] # "off"}
  /\ \A p \in Peer : m.link[p] = "off" => m.inbox[p] = <<>>

\* The invariant without the sync peer, and with it.
Kept(m) == m \in SyncState /\ Owned(m) /\ Linked(m.list) /\ LinkOK(m)
Synced(m) == m.hf => m.next # None /\ m.sync \in m.peers
Sound(m) == Kept(m) /\ Synced(m)

SyncInv == Sound(s) /\ submits \in 0..MaxSubmits /\ faults \in 0..MaxFaults

-----------------------------------------------------------------------------
(* Sets of heights                                                           *)

LEMMA LeastOf ==
  ASSUME NEW S, S \subseteq Nat, S # {}
  PROVE  \E n \in S : \A m \in S : n <= m
<1> DEFINE R == OpToRel(<, Nat)
<1>1. PICK x \in S : \A y \in S : <<y, x>> \notin R
  BY NatLessThanWellFounded, WFMin, Zenon
<1>2. \A y \in S : y \in Nat /\ x \in Nat /\ ~(y < x)
  BY <1>1 DEF OpToRel
<1> QED BY <1>2

LEMMA MarkInt ==
  Top \in Nat /\ \A h \in Mark : h \in Int /\ -1 <= h /\ h <= Top
<1>1. Top \in Nat
  BY NetSyncAssumption
<1> QED BY <1>1 DEF Mark, Height, None

LEMMA MinOf ==
  ASSUME NEW S, S \subseteq Mark, S # {}
  PROVE  Min(S) \in S /\ \A h \in S : Min(S) <= h
<1> DEFINE T == {h + 1 : h \in S}
<1>1. S \subseteq Int /\ T \subseteq Nat /\ T # {}
  <2> SUFFICES ASSUME NEW h \in S PROVE h \in Int /\ h + 1 \in Nat
    OBVIOUS
  <2> QED BY MarkInt
<1>2. PICK n \in T : \A m \in T : n <= m
  BY <1>1, LeastOf
<1>3. \A h \in S : n <= h + 1
  BY <1>2
<1>4. n - 1 \in S /\ \A h \in S : n - 1 <= h
  BY <1>1, <1>2, <1>3
<1> QED BY <1>4 DEF Min

LEMMA MaxOf ==
  ASSUME NEW S, S \subseteq Mark, S # {}
  PROVE  Max(S) \in S /\ \A h \in S : Max(S) >= h
<1> DEFINE T == {Top - h : h \in S}
<1>1. S \subseteq Int /\ T \subseteq Nat /\ T # {}
  <2> SUFFICES ASSUME NEW h \in S PROVE h \in Int /\ Top - h \in Nat
    OBVIOUS
  <2> QED BY MarkInt
<1>2. PICK n \in T : \A m \in T : n <= m
  BY <1>1, LeastOf
<1>3. \A h \in S : n <= Top - h
  BY <1>2
<1>4. Top - n \in S /\ \A h \in S : Top - n >= h
  BY <1>1, <1>2, <1>3, MarkInt
<1> QED BY <1>4 DEF Max

LEMMA MarkFinite ==
  ASSUME NEW S, S \subseteq Mark
  PROVE  IsFiniteSet(S) /\ Cardinality(S) \in Nat
<1>1. IsFiniteSet((-1)..Top) /\ S \in SUBSET ((-1)..Top)
  BY FS_Interval, MarkInt
<1>2. IsFiniteSet(S)
  BY <1>1, FS_Subset
<1> QED BY <1>2, FS_CardinalityType

\* Nth names an element: going up, the number of elements below grows by one at
\* each element.
LEMMA NthIn ==
  ASSUME NEW S, S \subseteq Mark, NEW i \in 1..Cardinality(S)
  PROVE  Nth(S, i) \in S
<1> DEFINE Below(n) == {k \in S : k < n - 1}
           C(n) == Cardinality(Below(n))
           T == {n \in Nat : C(n) >= i}
<1>1. S \subseteq Int /\ (\A k \in S : k >= -1 /\ k <= Top) /\ Top \in Nat /\ i \in Nat /\ i > 0
  BY MarkFinite, MarkInt
<1>2. \A n \in Nat : IsFiniteSet(Below(n)) /\ C(n) \in Nat
  <2> SUFFICES ASSUME NEW n \in Nat PROVE IsFiniteSet(Below(n)) /\ C(n) \in Nat
    OBVIOUS
  <2>1. Below(n) \subseteq Mark
    OBVIOUS
  <2> QED BY <2>1, MarkFinite
<1>3. Below(Top + 2) = S /\ Below(0) = {}
  <2>1. \A k \in S : k < (Top + 2) - 1
    BY <1>1
  <2>2. \A k \in S : ~(k < 0 - 1)
    BY <1>1
  <2>3. Below(Top + 2) = S
    BY <2>1, Zenon
  <2>4. Below(0) = {}
    BY <2>2, Zenon
  <2> QED BY <2>3, <2>4
<1>4. Top + 2 \in T /\ 0 \notin T
  <2>1. C(Top + 2) = Cardinality(S) /\ C(0) = 0
    BY <1>3, FS_EmptySet, Zenon
  <2>2. Cardinality(S) \in Nat /\ Cardinality(S) >= i
    BY MarkFinite
  <2> QED BY <1>1, <2>1, <2>2
<1>5. PICK n \in T : \A k \in T : n <= k
  BY <1>4, LeastOf
<1>6. n \in Nat /\ n > 0 /\ n - 1 \in Nat /\ n - 1 \notin T
  <2>1. n \in Nat /\ n # 0
    BY <1>4, <1>5
  <2>2. n - 1 \in T => n <= n - 1
    BY <1>5, Zenon
  <2> QED BY <2>1, <2>2
<1>7. C(n) >= i /\ C(n - 1) <= i - 1
  BY <1>1, <1>2, <1>5, <1>6
<1> DEFINE x == n - 2
<1>8. Below(n - 1) = {k \in S : k < x}
  <2>1. \A k \in S : k < n - 1 - 1 <=> k < x
    BY <1>1, <1>6
  <2> QED BY <2>1, Zenon
<1>9. \A k \in S : k < n - 1 <=> k < x \/ k = x
  BY <1>1, <1>6
<1>10. x \notin {k \in S : k < x}
  BY <1>6
<1>11. Cardinality({k \in S : k < x}) = C(n - 1) /\ IsFiniteSet({k \in S : k < x})
  <2>1. IsFiniteSet(Below(n - 1))
    BY <1>2, <1>6
  <2> QED BY <1>8, <2>1, Zenon
<1> HIDE DEF x
<1>12. x \in S
  <2> SUFFICES ASSUME x \notin S PROVE FALSE
    OBVIOUS
  <2>1. Below(n) = {k \in S : k < x}
    BY <1>9, Zenon
  <2>2. C(n) = C(n - 1)
    BY <1>11, <2>1, Zenon
  <2> QED BY <1>1, <1>2, <1>6, <1>7, <2>2
<1>13. Below(n) = {k \in S : k < x} \cup {x}
  BY <1>9, <1>12, Zenon
<1>14. C(n) = C(n - 1) + 1
  <2>1. Cardinality({k \in S : k < x} \cup {x}) = C(n - 1) + 1
    BY <1>10, <1>11, FS_AddElement, Zenon
  <2> QED BY <1>13, <2>1, Zenon
<1>15. C(n - 1) = i - 1
  <2>1. C(n - 1) \in Nat
    BY <1>2, <1>6
  <2> HIDE DEF C
  <2> QED BY <1>1, <1>7, <1>14, <2>1
<1>16. Cardinality({k \in S : k < x}) = i - 1
  BY <1>11, <1>15, Zenon
<1> QED BY <1>12, <1>16, Zenon DEF Nth

-----------------------------------------------------------------------------
(* What is sent                                                              *)

LEMMA SendOK ==
  ASSUME NEW m \in SyncState, NEW p \in Peer, NEW msgs \in Seq(Message)
  PROVE  Sends(Send(m, p, msgs), m, p)
<1> DEFINE box == [m.inbox EXCEPT ![p] = @ \o msgs]
           n == [m EXCEPT !.inbox = box]
<1>1. Send(m, p, msgs) = n
  BY DEF Send
<1>2. m.inbox \in [Peer -> Seq(Message)]
  BY DEF SyncState
<1>3. box \in [Peer -> Seq(Message)] /\ \A q \in Peer : q # p => box[q] = m.inbox[q]
  BY <1>2
<1> HIDE DEF box
<1>4. n \in SyncState /\ n.inbox = box /\ Same(n, m)
  BY <1>3 DEF SyncState, Same
<1> QED BY <1>1, <1>3, <1>4 DEF Sends

LEMMA TwoOf ==
  ASSUME NEW a \in Int, NEW b \in Int
  PROVE  /\ Min({a, b}) = IF a <= b THEN a ELSE b
         /\ Max({a, b}) = IF a >= b THEN a ELSE b
BY DEF Min, Max

LEMMA Sizes ==
  /\ HeaderBatch \in Nat /\ HeaderBatch > 0 /\ InvBatch \in Nat /\ InvBatch > 0
  /\ StrikeLimit \in Nat /\ StrikeLimit > 0 /\ NoPeer \notin Peer
BY NetSyncAssumption

\* A non-empty answer lies in the peer's chain.
LEMMA LocatedIn ==
  ASSUME NEW m \in SyncState, NEW p \in Peer, NEW begin \in Height, NEW stop, NEW max \in Nat
  PROVE  /\ Located(m, p, begin, stop, max) \in Int
         /\ Located(m, p, begin, stop, max) <= begin + max
         /\ Located(m, p, begin, stop, max) > begin =>
              begin + 1 \in Height /\ Located(m, p, begin, stop, max) \in Height
<1> DEFINE end == IF stop \in (begin + 1)..m.tip[p] THEN stop ELSE m.tip[p]
<1>1. m.tip[p] \in Height
  BY DEF SyncState
<1>2. end \in Int /\ end <= m.tip[p] /\ begin + max \in Int /\ begin \in Nat /\ Top \in Nat
  BY <1>1, MarkInt DEF Mark, Height
<1> HIDE DEF end
<1>3. Min({begin + max, end}) = IF begin + max <= end THEN begin + max ELSE end
  BY <1>2, TwoOf
<1>4. Located(m, p, begin, stop, max) = Min({begin + max, end})
  BY DEF Located, end
<1> QED BY <1>1, <1>2, <1>3, <1>4 DEF Height

LEMMA SameTrans ==
  ASSUME NEW m, NEW n, NEW o, NEW p, Sends(n, m, p), Sends(o, n, p)
  PROVE  Sends(o, m, p)
BY DEF Sends, Same

LEMMA OnePair ==
  ASSUME NEW a \in Message
  PROVE  <<a>> \in Seq(Message) /\ <<>> \in Seq(Message)
OBVIOUS

LEMMA PushGetHeadersOK ==
  ASSUME NEW m \in SyncState, NEW p \in Peer, NEW begin \in Height, NEW stop \in Mark,
         NEW cert \in BOOLEAN
  PROVE  Sends(PushGetHeaders(m, p, begin, stop, cert), m, p)
<1> DEFINE n == [m EXCEPT !.getheaders[p] = <<begin, stop>>]
<1>1. Sends(m, m, p)
  BY DEF Sends, Same
<1>2. Sends(n, m, p)
  <2>1. m.getheaders \in [Peer -> Asked] /\ <<begin, stop>> \in Asked
    BY DEF SyncState, Mark, Asked
  <2> DEFINE g == [m.getheaders EXCEPT ![p] = <<begin, stop>>]
  <2>2. g \in [Peer -> Asked] /\ n = [m EXCEPT !.getheaders = g]
    BY <2>1
  <2> HIDE DEF g, n
  <2> QED BY <2>2 DEF Sends, Same, SyncState
<1>3. n \in SyncState
  BY <1>2 DEF Sends
<1> HIDE DEF n
<1>4. Sends(OnGetHeaders(n, p, begin, stop, cert), n, p)
  <2> DEFINE to == Located(n, p, begin, stop, HeaderBatch)
             a == [t |-> "headers", from |-> begin + 1, to |-> to, cert |-> cert]
  <2>1. CASE to <= begin
    BY <1>3, <2>1 DEF OnGetHeaders, Sends, Same
  <2>2. CASE ~(to <= begin)
    <3>1. to \in Height /\ begin + 1 \in Height
      BY <1>3, <2>2, LocatedIn, Sizes, MarkInt DEF Mark
    <3>2. a \in Message
      BY <3>1 DEF Message
    <3>3. OnGetHeaders(n, p, begin, stop, cert) = Send(n, p, <<a>>)
      BY <2>2 DEF OnGetHeaders
    <3> HIDE DEF a
    <3> QED BY <1>3, <3>2, <3>3, SendOK, OnePair
  <2> QED BY <2>1, <2>2
<1>5. PushGetHeaders(m, p, begin, stop, cert) = m
        \/ PushGetHeaders(m, p, begin, stop, cert) = OnGetHeaders(n, p, begin, stop, cert)
  BY DEF PushGetHeaders, n
<1>6. Sends(OnGetHeaders(n, p, begin, stop, cert), m, p)
  BY <1>2, <1>4, SameTrans
<1> QED BY <1>1, <1>5, <1>6

LEMMA OnGetBlocksOK ==
  ASSUME NEW m \in SyncState, NEW p \in Peer, NEW begin \in Height,
         NEW stops, stops \subseteq Mark
  PROVE  Sends(OnGetBlocks(m, p, begin, stops), m, p)
<1> DEFINE To(stop) == Located(m, p, begin, stop, InvBatch)
           answered == {stop \in stops : To(stop) > begin}
           full     == \E stop \in answered : To(stop) = begin + InvBatch
           ct == [m.continue EXCEPT ![p] = IF full THEN begin + InvBatch ELSE @]
           n == [m EXCEPT !.continue = ct]
           msgs == [i \in 1..Cardinality(answered) |->
                      [t |-> "inv", from |-> begin + 1, to |-> To(Nth(answered, i))]]
<1>1. OnGetBlocks(m, p, begin, stops) = Send(n, p, msgs)
  BY DEF OnGetBlocks
<1>2. \A stop \in answered : begin + 1 \in Height /\ To(stop) \in Height
  BY LocatedIn, Sizes
<1>3. answered \subseteq Mark
  OBVIOUS
<1> HIDE DEF To
<1>4. ct \in [Peer -> Mark]
  <2>1. full => begin + InvBatch \in Mark
    BY <1>2 DEF Mark
  <2>2. m.continue \in [Peer -> Mark]
    BY DEF SyncState
  <2> HIDE DEF full
  <2> QED BY <2>1, <2>2
<1>5. msgs \in Seq(Message)
  <2>1. Cardinality(answered) \in Nat
    BY <1>3, MarkFinite
  <2>2. \A i \in 1..Cardinality(answered) : Nth(answered, i) \in answered
    BY <1>3, NthIn
  <2> HIDE DEF answered
  <2>3. \A i \in 1..Cardinality(answered) :
          [t |-> "inv", from |-> begin + 1, to |-> To(Nth(answered, i))] \in Message
    BY <1>2, <2>2 DEF Message
  <2> QED BY <2>1, <2>3
<1> HIDE DEF ct, msgs
<1>6. Sends(n, m, p)
  BY <1>4 DEF Sends, Same, SyncState
<1> HIDE DEF n
<1>7. Sends(Send(n, p, msgs), n, p)
  BY <1>5, <1>6, SendOK DEF Sends
<1> QED BY <1>1, <1>6, <1>7, SameTrans

LEMMA PushGetBlocksOK ==
  ASSUME NEW m \in SyncState, NEW p \in Peer, NEW begin \in Height,
         NEW stops, stops \subseteq Mark, stops # {}
  PROVE  Sends(PushGetBlocks(m, p, begin, stops), m, p)
<1> DEFINE sent == {stop \in stops : stop = Min(stops) => m.getblocks[p] # <<begin, stop>>}
           gb == [m.getblocks EXCEPT ![p] = <<begin, Max(stops)>>]
           n == [m EXCEPT !.getblocks = gb]
<1>1. PushGetBlocks(m, p, begin, stops) = OnGetBlocks(n, p, begin, sent)
  BY DEF PushGetBlocks
<1>2. sent \subseteq Mark
  OBVIOUS
<1> HIDE DEF sent
<1>3. gb \in [Peer -> Asked]
  <2>1. m.getblocks \in [Peer -> Asked]
    BY DEF SyncState
  <2>2. <<begin, Max(stops)>> \in Asked
    BY MaxOf DEF Mark, Asked
  <2> QED BY <2>1, <2>2
<1> HIDE DEF gb
<1>4. Sends(n, m, p)
  BY <1>3 DEF Sends, Same, SyncState
<1> HIDE DEF n
<1>5. Sends(OnGetBlocks(n, p, begin, sent), n, p)
  BY <1>2, <1>4, OnGetBlocksOK DEF Sends
<1> QED BY <1>1, <1>4, <1>5, SameTrans

LEMMA GetDataOK ==
  ASSUME NEW m \in SyncState, NEW p \in Peer, NEW hs, hs \subseteq Height
  PROVE  Sends(GetData(m, p, hs), m, p)
<1> DEFINE Blocks(S) == [i \in 1..Cardinality(S) |-> [t |-> "block", h |-> Nth(S, i)]]
           served  == {h \in hs : Serves(m, p, h)}
           upto    == {h \in served : m.continue[p] \in served => h <= m.continue[p]}
           tip     == IF m.continue[p] \in served
                      THEN << [t |-> "inv", from |-> m.tip[p], to |-> m.tip[p]] >> ELSE <<>>
           missing == IF hs = served THEN <<>>
                      ELSE << [t |-> "notfound", hs |-> hs \ served] >>
           ct == [m.continue EXCEPT ![p] = IF @ \in served THEN None ELSE @]
           n == [m EXCEPT !.continue = ct]
           msgs == Blocks(upto) \o tip \o Blocks(served \ upto) \o missing
<1>1. GetData(m, p, hs) = Send(n, p, msgs)
  BY DEF GetData
<1>2. \A S \in SUBSET Height : Blocks(S) \in Seq(Message)
  <2> SUFFICES ASSUME NEW S \in SUBSET Height PROVE Blocks(S) \in Seq(Message)
    OBVIOUS
  <2>1. S \subseteq Mark
    BY DEF Mark
  <2>2. Cardinality(S) \in Nat /\ \A i \in 1..Cardinality(S) : Nth(S, i) \in Height
    BY <2>1, MarkFinite, NthIn
  <2>3. \A i \in 1..Cardinality(S) : [t |-> "block", h |-> Nth(S, i)] \in Message
    BY <2>2 DEF Message
  <2> QED BY <2>2, <2>3
<1>3. served \subseteq hs /\ upto \in SUBSET Height /\ served \ upto \in SUBSET Height
  OBVIOUS
<1>4. m.tip[p] \in Height /\ m.continue \in [Peer -> Mark]
  BY DEF SyncState
<1> HIDE DEF served
<1>5. tip \in Seq(Message)
  <2>1. [t |-> "inv", from |-> m.tip[p], to |-> m.tip[p]] \in Message
    BY <1>4 DEF Message
  <2> QED BY <2>1, OnePair
<1>6. missing \in Seq(Message)
  <2>1. [t |-> "notfound", hs |-> hs \ served] \in Message
    BY DEF Message
  <2> QED BY <2>1, OnePair
<1>7. ct \in [Peer -> Mark]
  BY <1>4 DEF Mark
<1>8. msgs \in Seq(Message)
  <2>1. Blocks(upto) \in Seq(Message) /\ Blocks(served \ upto) \in Seq(Message)
    BY <1>2, <1>3
  <2> HIDE DEF Blocks, upto, tip, missing
  <2> QED BY <1>5, <1>6, <2>1
<1> HIDE DEF ct, msgs
<1>9. Sends(n, m, p)
  BY <1>7 DEF Sends, Same, SyncState
<1> HIDE DEF n
<1>10. Sends(Send(n, p, msgs), n, p)
  BY <1>8, <1>9, SendOK DEF Sends
<1> QED BY <1>1, <1>9, <1>10, SameTrans

\* Messages of a peer that is there do not disturb the invariant.
LEMMA SendsKeep ==
  ASSUME NEW m, NEW n, NEW p \in m.peers, Sends(n, m, p), Kept(m)
  PROVE  Kept(n) /\ (Synced(m) => Synced(n))
<1>1. n \in SyncState /\ Same(n, m)
  BY DEF Sends
<1>2. Owned(n) /\ Linked(n.list)
  BY <1>1 DEF Same, Kept, Owned
<1>3. LinkOK(n)
  BY <1>1 DEF Kept, LinkOK, Same, Sends
<1> QED BY <1>1, <1>2, <1>3 DEF Kept, Same, Synced

-----------------------------------------------------------------------------
(* Choosing a sync peer                                                      *)

LEMMA LinkedShort == \A h : Linked(<<>>) /\ Linked(<<h>>)
BY DEF Linked

LEMMA CheckpointIn ==
  ASSUME NEW c \in Checkpoints \cup {None}
  PROVE  c \in Mark /\ (c # None => c \in Height) /\ FindNextHeaderCheckpoint(c) \in Checkpoints \cup {None}
<1>1. Checkpoints \subseteq Height /\ None \notin Height
  BY NetSyncAssumption DEF Height, None
<1> DEFINE later == {k \in Checkpoints : k > c}
<1>2. later \subseteq Mark
  BY <1>1 DEF Mark
<1>3. later # {} => Min(later) \in later
  BY <1>2, MinOf
<1> QED BY <1>1, <1>3 DEF FindNextHeaderCheckpoint, Mark

LEMMA SyncWithOK ==
  ASSUME NEW m, Sound(m), m.sync = NoPeer, NEW p \in m.peers
  PROVE  Sound(SyncWith(m, p))
<1> DEFINE n == [m EXCEPT !.requested = {}, !.sync = p]
<1>1. m \in SyncState /\ p \in Peer /\ m.peers \subseteq Peer /\ m.best \in Height
        /\ m.next \in Checkpoints \cup {None}
  BY DEF Sound, Kept, SyncState
<1>2. ~m.hf
  BY <1>1, Sizes DEF Sound, Synced
<1>3. n \in SyncState /\ n.requested = {} /\ n.sync = p /\ ~n.hf /\ n.peers = m.peers
        /\ n.list = m.list /\ n.link = m.link /\ n.inbox = m.inbox /\ n.next = m.next
  BY <1>1, <1>2 DEF SyncState
<1>4. Kept(n)
  BY <1>3 DEF Sound, Kept, Owned, LinkOK
<1> HIDE DEF n
<1>5. CASE m.next # None /\ m.best < m.next
  <2> DEFINE g == PushGetHeaders(n, p, m.best, m.next, TRUE)
             r == [g EXCEPT !.hf = TRUE]
  <2>1. SyncWith(m, p) = r
    BY <1>5 DEF SyncWith, n
  <2>2. Sends(g, n, p)
    BY <1>1, <1>3, CheckpointIn, PushGetHeadersOK
  <2>3. Kept(g)
    BY <1>3, <1>4, <2>2, SendsKeep
  <2>4. g.sync = p /\ g.next = m.next /\ g.peers = m.peers /\ g \in SyncState
    BY <1>3, <2>2 DEF Sends, Same
  <2> HIDE DEF g
  <2>5. r \in SyncState /\ r.inbox = g.inbox
    BY <2>4 DEF SyncState
  <2>6. r.peers = g.peers /\ r.req = g.req /\ r.requested = g.requested /\ r.sync = g.sync
          /\ r.next = g.next /\ r.list = g.list /\ r.link = g.link
    BY <2>4 DEF SyncState
  <2>7. Kept(r) /\ Synced(r)
    <3> HIDE DEF r
    <3> QED BY <1>5, <2>3, <2>4, <2>5, <2>6 DEF Kept, Owned, LinkOK, Synced
  <2> QED BY <2>1, <2>7 DEF Sound
<1>6. CASE ~(m.next # None /\ m.best < m.next)
  <2>1. SyncWith(m, p) = PushGetBlocks(n, p, m.best, {None})
    BY <1>6 DEF SyncWith, n
  <2>2. Sends(PushGetBlocks(n, p, m.best, {None}), n, p)
    BY <1>1, <1>3, PushGetBlocksOK DEF Mark
  <2>3. Synced(n)
    BY <1>3 DEF Synced
  <2> QED BY <1>3, <1>4, <2>1, <2>2, <2>3, SendsKeep DEF Sound
<1> QED BY <1>5, <1>6

LEMMA StartSyncOK ==
  ASSUME NEW m, Sound(m)
  PROVE  \A n \in StartSync(m) : Sound(n)
<1>1. CASE m.sync # NoPeer \/ PickSyncCandidate(m) = {}
  BY <1>1 DEF StartSync
<1>2. CASE ~(m.sync # NoPeer \/ PickSyncCandidate(m) = {})
  <2>1. PickSyncCandidate(m) \subseteq m.peers
    BY DEF PickSyncCandidate
  <2>2. \A p \in PickSyncCandidate(m) : Sound(SyncWith(m, p))
    BY <1>2, <2>1, SyncWithOK
  <2> QED BY <1>2, <2>2 DEF StartSync
<1> QED BY <1>1, <1>2

LEMMA UpdateSyncPeerOK ==
  ASSUME NEW m, Kept(m)
  PROVE  \A n \in UpdateSyncPeer(m) : Sound(n)
<1> DEFINE r == IF m.hf THEN ResetHeaderState(m) ELSE m
           n == [r EXCEPT !.sync = NoPeer]
<1>1. m \in SyncState /\ m.best \in Height
  BY DEF Kept, SyncState
<1>2. r \in SyncState /\ ~r.hf /\ r.requested = m.requested /\ r.req = m.req /\ r.peers = m.peers
        /\ r.link = m.link /\ r.inbox = m.inbox
        /\ (r.list = m.list \/ r.list = <<m.best>> \/ r.list = <<>>)
  <2>1. CASE m.hf
    <3> DEFINE l == IF m.next # None THEN <<m.best>> ELSE <<>>
    <3>1. l \in Seq(Height)
      BY <1>1
    <3> DEFINE e == [m EXCEPT !.hf = FALSE, !.start = None, !.list = l]
    <3>2. r = e
      BY <2>1 DEF ResetHeaderState
    <3> HIDE DEF l, r
    <3>3. e \in SyncState
      BY <1>1, <3>1 DEF SyncState, Mark
    <3>4. ~e.hf /\ e.requested = m.requested /\ e.req = m.req /\ e.peers = m.peers
            /\ e.link = m.link /\ e.inbox = m.inbox /\ e.list = l
      BY <1>1 DEF SyncState
    <3> HIDE DEF e
    <3> QED BY <3>2, <3>3, <3>4 DEF l
  <2> QED BY <1>1, <2>1
<1> HIDE DEF r
<1>3. n \in SyncState /\ ~n.hf /\ n.requested = m.requested /\ n.req = m.req /\ n.peers = m.peers
        /\ n.link = m.link /\ n.inbox = m.inbox /\ n.list = r.list
  BY <1>2 DEF SyncState
<1>4. Sound(n)
  <2>1. Linked(n.list)
    BY <1>2, <1>3, LinkedShort DEF Kept
  <2> QED BY <1>3, <2>1 DEF Sound, Kept, Owned, LinkOK, Synced
<1>5. UpdateSyncPeer(m) = StartSync(n)
  BY DEF UpdateSyncPeer, r
<1> QED BY <1>4, <1>5, StartSyncOK

\* The connection of peer p is new: nothing was sent over it.
Joined(m, p) ==
  [m EXCEPT !.link[p] = "on", !.last[p] = m.tip[p], !.announced[p] = None, !.inbox[p] = <<>>,
            !.getheaders[p] = <<None, None>>, !.getblocks[p] = <<None, None>>,
            !.continue[p] = None]

LEMMA JoinedOK ==
  ASSUME NEW m \in SyncState, NEW p \in Peer
  PROVE  /\ Joined(m, p) \in SyncState
         /\ Joined(m, p).link = [m.link EXCEPT ![p] = "on"]
         /\ Joined(m, p).inbox = [m.inbox EXCEPT ![p] = <<>>]
         /\ Joined(m, p).peers = m.peers /\ Joined(m, p).req = m.req
         /\ Joined(m, p).requested = m.requested /\ Joined(m, p).sync = m.sync
         /\ Joined(m, p).hf = m.hf /\ Joined(m, p).next = m.next /\ Joined(m, p).list = m.list
<1> DEFINE link == [m.link EXCEPT ![p] = "on"]
           last == [m.last EXCEPT ![p] = m.tip[p]]
           announced == [m.announced EXCEPT ![p] = None]
           inbox == [m.inbox EXCEPT ![p] = <<>>]
           getheaders == [m.getheaders EXCEPT ![p] = <<None, None>>]
           getblocks == [m.getblocks EXCEPT ![p] = <<None, None>>]
           continue == [m.continue EXCEPT ![p] = None]
           a == [m EXCEPT !.link = link, !.last = last, !.announced = announced]
           b == [a EXCEPT !.inbox = inbox, !.getheaders = getheaders]
           d == [b EXCEPT !.getblocks = getblocks]
           c == [d EXCEPT !.continue = continue]
<1>1. link \in [Peer -> Link] /\ last \in [Peer -> Height]
        /\ announced \in [Peer -> Mark]
  <2>1. m.link \in [Peer -> Link] /\ m.last \in [Peer -> Height]
          /\ m.tip[p] \in Height /\ m.announced \in [Peer -> Mark]
    BY DEF SyncState
  <2> QED BY <2>1 DEF Mark, Link
<1>2. inbox \in [Peer -> Seq(Message)] /\ continue \in [Peer -> Mark]
  <2>1. m.inbox \in [Peer -> Seq(Message)] /\ m.continue \in [Peer -> Mark]
    BY DEF SyncState
  <2> QED BY <2>1 DEF Mark
<1>3. getheaders \in [Peer -> Asked] /\ getblocks \in [Peer -> Asked]
  <2>1. m.getheaders \in [Peer -> Asked] /\ m.getblocks \in [Peer -> Asked]
    BY DEF SyncState
  <2>2. <<None, None>> \in Asked
    BY DEF Asked, Mark
  <2> QED BY <2>1, <2>2
<1>4. Joined(m, p) = [m EXCEPT !.link = link, !.last = last, !.announced = announced,
                               !.inbox = inbox, !.getheaders = getheaders,
                               !.getblocks = getblocks, !.continue = continue]
  BY Zenon DEF Joined
<1> HIDE DEF link, last, announced, inbox, getheaders, getblocks, continue
<1>5. a \in SyncState
  BY <1>1 DEF SyncState
<1>6. a.peers = m.peers /\ a.req = m.req /\ a.requested = m.requested /\ a.sync = m.sync
        /\ a.hf = m.hf /\ a.next = m.next /\ a.list = m.list /\ a.link = link
  BY DEF SyncState
<1>7. Joined(m, p) = c
  BY <1>4, Zenon
<1> HIDE DEF a
<1>8. b \in SyncState
  BY <1>2, <1>3, <1>5 DEF SyncState
<1>9. Same(b, a) /\ b.inbox = inbox
  BY <1>5 DEF SyncState, Same
<1> HIDE DEF b
<1>10. d \in SyncState
  BY <1>3, <1>8 DEF SyncState
<1>11. Same(d, b) /\ d.inbox = b.inbox
  BY <1>8 DEF SyncState, Same
<1> HIDE DEF d
<1>12. c \in SyncState
  BY <1>2, <1>10 DEF SyncState
<1>13. Same(c, d) /\ c.inbox = d.inbox
  BY <1>10 DEF SyncState, Same
<1> HIDE DEF c
<1> QED BY <1>6, <1>7, <1>9, <1>11, <1>12, <1>13 DEF Same, link, inbox

LEMMA NewPeerOK ==
  ASSUME NEW m, Sound(m), NEW p \in Peer, m.link[p] = "off", NEW j, j = Joined(m, p)
  PROVE  \A n \in HandleNewPeer(j, p) : Sound(n)
<1>1. m \in SyncState
  BY DEF Sound, Kept
<1>2. /\ m.link \in [Peer -> Link] /\ m.inbox \in [Peer -> Seq(Message)]
      /\ m.req \in [Peer -> SUBSET Height]
  BY <1>1 DEF SyncState
<1> DEFINE link == [m.link EXCEPT ![p] = "on"]
           inbox == [m.inbox EXCEPT ![p] = <<>>]
<1>3. j \in SyncState
  BY <1>1, JoinedOK
<1>4. /\ j.link = link /\ j.inbox = inbox /\ j.peers = m.peers /\ j.req = m.req
      /\ j.requested = m.requested /\ j.sync = m.sync /\ j.hf = m.hf /\ j.next = m.next
      /\ j.list = m.list
  BY <1>1, JoinedOK
<1>5. \A q \in Peer : /\ link[q] = IF q = p THEN "on" ELSE m.link[q]
                      /\ inbox[q] = IF q = p THEN <<>> ELSE m.inbox[q]
  BY <1>2
<1> HIDE DEF link, inbox
<1> DEFINE cand == IF IsSyncCandidate(j, p) THEN j.candidate \cup {p} ELSE j.candidate \ {p}
           req == [j.req EXCEPT ![p] = {}]
           strikes == [j.strikes EXCEPT ![p] = IF p \in Inbound THEN StrikeLimit ELSE 0]
           k == [j EXCEPT !.peers = j.peers \cup {p}, !.req = req]
           n == [k EXCEPT !.candidate = cand, !.strikes = strikes]
<1>6. req \in [Peer -> SUBSET Height] /\ cand \in SUBSET Peer
  <2>1. j.candidate \in SUBSET Peer
    BY <1>3 DEF SyncState
  <2> QED BY <1>2, <1>4, <2>1
<1>7. strikes \in [Peer -> 0..StrikeLimit]
  <2>1. j.strikes \in [Peer -> 0..StrikeLimit]
    BY <1>3 DEF SyncState
  <2> QED BY <2>1, Sizes
<1>8. \A q \in Peer : q # p => req[q] = m.req[q]
  BY <1>2, <1>4
<1>9. HandleNewPeer(j, p) = IF p \in n.candidate THEN StartSync(n) ELSE {n}
  <2> DEFINE c == [j EXCEPT !.peers = @ \cup {p}, !.req[p] = {},
                      !.candidate = IF IsSyncCandidate(j, p) THEN @ \cup {p} ELSE @ \ {p},
                      !.strikes[p] = IF p \in Inbound THEN StrikeLimit ELSE 0]
  <2>1. n = c
    BY Zenon
  <2>2. HandleNewPeer(j, p) = IF p \in c.candidate THEN StartSync(c) ELSE {c}
    BY DEF HandleNewPeer
  <2> HIDE DEF n, c
  <2> QED BY <2>1, <2>2
<1> HIDE DEF cand, req, strikes
<1>10. n \in SyncState
  <2>1. j.peers \cup {p} \in SUBSET Peer
    BY <1>3 DEF SyncState
  <2>2. k \in SyncState
    BY <1>3, <1>6, <2>1, ZenonT(40) DEF SyncState
  <2> HIDE DEF k
  <2> QED BY <1>6, <1>7, <2>2 DEF SyncState
<1>11. /\ n.link = j.link /\ n.inbox = j.inbox /\ n.peers = j.peers \cup {p} /\ n.req = req
       /\ n.requested = j.requested /\ n.sync = j.sync /\ n.hf = j.hf /\ n.next = j.next
       /\ n.list = j.list
  BY <1>3 DEF SyncState
<1> HIDE DEF n
<1>12. /\ n.link = link /\ n.inbox = inbox /\ n.peers = m.peers \cup {p} /\ n.req = req
       /\ n.requested = m.requested /\ n.sync = m.sync /\ n.hf = m.hf /\ n.next = m.next
       /\ n.list = m.list
  BY <1>4, <1>11
<1>13. p \notin m.peers /\ m.peers \subseteq Peer
  BY DEF Sound, Kept, LinkOK
<1>14. Owned(n)
  BY <1>8, <1>12, <1>13 DEF Sound, Kept, Owned
<1>15. LinkOK(n)
  <2>1. n.peers = {q \in Peer : n.link[q] # "off"}
    BY <1>5, <1>12 DEF Sound, Kept, LinkOK
  <2> QED BY <1>5, <1>12, <2>1 DEF Sound, Kept, LinkOK
<1>16. Sound(n)
  BY <1>10, <1>12, <1>14, <1>15 DEF Sound, Kept, Synced
<1> QED BY <1>9, <1>16, StartSyncOK

LEMMA DonePeerOK ==
  ASSUME NEW m, Sound(m), NEW p \in Peer, m.link[p] = "closing",
         NEW j, j = [m EXCEPT !.link[p] = "off", !.inbox[p] = <<>>]
  PROVE  \A n \in HandleDonePeer(j, p) : Sound(n)
<1>1. m \in SyncState
  BY DEF Sound, Kept
<1>2. /\ m.link \in [Peer -> Link] /\ m.inbox \in [Peer -> Seq(Message)]
      /\ m.req \in [Peer -> SUBSET Height] /\ m.requested \subseteq Height /\ m.peers \subseteq Peer
  BY <1>1 DEF SyncState
<1> DEFINE link == [m.link EXCEPT ![p] = "off"]
           inbox == [m.inbox EXCEPT ![p] = <<>>]
           req == [m.req EXCEPT ![p] = {}]
           n == [j EXCEPT !.requested = m.requested \ m.req[p], !.peers = m.peers \ {p},
                          !.req = req]
<1>3. /\ link \in [Peer -> Link] /\ inbox \in [Peer -> Seq(Message)]
      /\ req \in [Peer -> SUBSET Height]
  BY <1>2 DEF Link
<1>4. \A q \in Peer : /\ link[q] = IF q = p THEN "off" ELSE m.link[q]
                      /\ inbox[q] = IF q = p THEN <<>> ELSE m.inbox[q]
                      /\ q # p => req[q] = m.req[q]
  BY <1>2
<1>5. j = [m EXCEPT !.link = link, !.inbox = inbox]
  OBVIOUS
<1> HIDE DEF link, inbox
<1>6. j \in SyncState
  BY <1>1, <1>3, <1>5 DEF SyncState
<1>7. /\ j.link = link /\ j.inbox = inbox /\ j.peers = m.peers /\ j.req = m.req
      /\ j.requested = m.requested /\ j.sync = m.sync /\ j.hf = m.hf /\ j.next = m.next
      /\ j.list = m.list
  BY <1>1, <1>5 DEF SyncState
<1>8. HandleDonePeer(j, p) = IF p = j.sync THEN UpdateSyncPeer(n) ELSE {n}
  <2> DEFINE c == [ClearRequestedState(j, p) EXCEPT !.peers = @ \ {p}, !.req[p] = {}]
  <2>1. c = n
    BY <1>6, <1>7 DEF ClearRequestedState, SyncState
  <2>2. HandleDonePeer(j, p) = IF p = j.sync THEN UpdateSyncPeer(c) ELSE {c}
    BY Zenon DEF HandleDonePeer
  <2> HIDE DEF c, n
  <2> QED BY <2>1, <2>2
<1> HIDE DEF req
<1>9. n \in SyncState
  <2>1. m.peers \ {p} \in SUBSET Peer /\ m.requested \ m.req[p] \in SUBSET Height
    BY <1>2
  <2> QED BY <1>3, <1>6, <2>1 DEF SyncState
<1>10. /\ n.link = link /\ n.inbox = inbox /\ n.peers = m.peers \ {p} /\ n.req = req
       /\ n.requested = m.requested \ m.req[p] /\ n.sync = m.sync /\ n.hf = m.hf
       /\ n.next = m.next /\ n.list = m.list
  BY <1>6, <1>7 DEF SyncState
<1> HIDE DEF n
<1>11. Owned(n)
  BY <1>2, <1>4, <1>10 DEF Sound, Kept, Owned
<1>12. LinkOK(n)
  <2>1. n.peers = {q \in Peer : n.link[q] # "off"}
    BY <1>4, <1>10 DEF Sound, Kept, LinkOK
  <2> QED BY <1>4, <1>10, <2>1 DEF Sound, Kept, LinkOK
<1>13. Kept(n)
  BY <1>9, <1>10, <1>11, <1>12 DEF Sound, Kept
<1>14. CASE p = j.sync
  BY <1>8, <1>13, <1>14, UpdateSyncPeerOK
<1>15. CASE p # j.sync
  <2>1. Synced(n)
    BY <1>7, <1>10, <1>15 DEF Sound, Synced
  <2> QED BY <1>8, <1>13, <1>15, <2>1 DEF Sound
<1> QED BY <1>14, <1>15

-----------------------------------------------------------------------------
(* Fields that the invariant is not about, and lost connections              *)

Touched(n, m) == n \in SyncState /\ Same(n, m) /\ n.inbox = m.inbox

LEMMA TouchedKeeps ==
  ASSUME NEW m, NEW n, Sound(m), Touched(n, m)
  PROVE  Sound(n)
BY DEF Touched, Same, Sound, Kept, Owned, LinkOK, Synced

LEMMA TouchedTrans ==
  ASSUME NEW m, NEW n, NEW o, Touched(n, m), Touched(o, n)
  PROVE  Touched(o, m)
BY DEF Touched, Same

LEMMA DisconnectOK ==
  ASSUME NEW m, Kept(m), NEW p \in Peer
  PROVE  /\ Kept(Disconnect(m, p)) /\ (Synced(m) => Synced(Disconnect(m, p)))
         /\ Disconnect(m, p).blamed \subseteq Peer
<1> DEFINE link == [m.link EXCEPT ![p] = IF @ = "on" THEN "closing" ELSE @]
           n == [m EXCEPT !.link = link]
<1>1. m \in SyncState /\ m.link \in [Peer -> Link]
  BY DEF Kept, SyncState
<1>2. link \in [Peer -> Link] /\ \A q \in Peer : link[q] = "off" <=> m.link[q] = "off"
  BY <1>1 DEF Link
<1>3. Disconnect(m, p) = n
  BY DEF Disconnect
<1> HIDE DEF link
<1>4. n \in SyncState
  BY <1>1, <1>2 DEF SyncState
<1>5. /\ n.peers = m.peers /\ n.req = m.req /\ n.requested = m.requested /\ n.list = m.list
      /\ n.sync = m.sync /\ n.hf = m.hf /\ n.next = m.next /\ n.link = link
      /\ n.inbox = m.inbox /\ n.blamed = m.blamed
  BY <1>1 DEF SyncState
<1>6. m.blamed \subseteq Peer
  BY <1>1 DEF SyncState
<1> HIDE DEF n
<1>7. LinkOK(n)
  <2>1. n.peers = {q \in Peer : n.link[q] # "off"}
    BY <1>2, <1>5 DEF Kept, LinkOK
  <2> QED BY <1>2, <1>5, <2>1 DEF Kept, LinkOK
<1>8. Kept(n)
  BY <1>4, <1>5, <1>7 DEF Kept, Owned
<1> QED BY <1>3, <1>5, <1>6, <1>8 DEF Synced

LEMMA BlameOK ==
  ASSUME NEW m, Sound(m), NEW p \in Peer
  PROVE  Sound(Blame(m, p))
<1> DEFINE d == Disconnect(m, p)
           n == [d EXCEPT !.blamed = d.blamed \cup {p}]
<1>1. Sound(d) /\ d.blamed \cup {p} \in SUBSET Peer
  BY DisconnectOK DEF Sound
<1>2. Blame(m, p) = n
  BY DEF Blame
<1> HIDE DEF d
<1>3. d \in SyncState
  BY <1>1 DEF Sound, Kept
<1>4. Touched(n, d)
  BY <1>1, <1>3 DEF Touched, Same, SyncState
<1> QED BY <1>1, <1>2, <1>4, TouchedKeeps

\* The blocks that were asked of p are no longer marked.
LEMMA ClearRequestedOK ==
  ASSUME NEW m, Kept(m), NEW p \in Peer, NEW f \in SUBSET (Peer \ Inbound)
  PROVE  Kept([ClearRequestedState(m, p) EXCEPT !.failed = f])
<1> DEFINE r == m.requested \ m.req[p]
           n == [m EXCEPT !.requested = r, !.failed = f]
<1>1. m \in SyncState /\ m.requested \subseteq Height
  BY DEF Kept, SyncState
<1>2. [ClearRequestedState(m, p) EXCEPT !.failed = f] = n
  BY DEF ClearRequestedState
<1>3. r \in SUBSET Height /\ r \subseteq m.requested
  BY <1>1
<1> HIDE DEF r
<1>4. n \in SyncState
  BY <1>1, <1>3 DEF SyncState
<1>5. /\ n.peers = m.peers /\ n.req = m.req /\ n.requested = r /\ n.list = m.list
      /\ n.link = m.link /\ n.inbox = m.inbox
  BY <1>1 DEF SyncState
<1> HIDE DEF n
<1>6. Kept(n)
  BY <1>3, <1>4, <1>5 DEF Kept, Owned, LinkOK
<1> QED BY <1>2, <1>6

LEMMA StalledOK ==
  ASSUME NEW m, Sound(m)
  PROVE  \A n \in HandleStalled(m) : Sound(n)
<1> DEFINE f == IF m.sync \in Inbound THEN m.failed ELSE m.failed \cup {m.sync}
           c == [ClearRequestedState(m, m.sync) EXCEPT !.failed = f]
           d == IF m.last[m.sync] > m.best THEN Disconnect(c, m.sync) ELSE c
<1>1. m \in SyncState /\ m.failed \subseteq Peer \ Inbound /\ m.peers \subseteq Peer
  BY DEF Sound, Kept, SyncState
<1>2. CASE m.sync \notin m.peers
  BY <1>2 DEF HandleStalled
<1>3. CASE m.sync \in m.peers
  <2>1. HandleStalled(m) = UpdateSyncPeer(d)
    <3> DEFINE e == [ClearRequestedState(m, m.sync) EXCEPT
                       !.failed = IF m.sync \in Inbound THEN @ ELSE @ \cup {m.sync}]
    <3>1. HandleStalled(m) =
            UpdateSyncPeer(IF m.last[m.sync] > m.best THEN Disconnect(e, m.sync) ELSE e)
      BY <1>3 DEF HandleStalled
    <3>2. e = c
      BY <1>1 DEF ClearRequestedState, SyncState
    <3> HIDE DEF e, c
    <3> QED BY <3>1, <3>2
  <2>2. f \in SUBSET (Peer \ Inbound) /\ m.sync \in Peer
    BY <1>1, <1>3
  <2>3. Kept(c)
    BY <2>2, ClearRequestedOK DEF Sound
  <2> HIDE DEF c
  <2>4. Kept(d)
    BY <2>2, <2>3, DisconnectOK
  <2> HIDE DEF d
  <2> QED BY <2>1, <2>4, UpdateSyncPeerOK
<1> QED BY <1>2, <1>3

-----------------------------------------------------------------------------
(* Blocks                                                                    *)

LEMMA ProcessBlockOK ==
  ASSUME NEW m \in SyncState, NEW h \in Height
  PROVE  Touched(ProcessBlock(m, h), m)
<1>1. m.best \in Height /\ m.orphans \subseteq Height
  BY DEF SyncState
<1>2. Touched(m, m)
  BY DEF Touched, Same
<1>3. CASE ~HaveBlock(m, h) /\ h = m.best + 1
  <2> DEFINE Is(k) == (h + 1)..k \subseteq m.orphans /\ k + 1 \notin m.orphans
             top == CHOOSE k \in h..Top : Is(k)
             n == [m EXCEPT !.best = top, !.orphans = m.orphans \ (h..top)]
  <2>1. ProcessBlock(m, h) = n
    BY <1>3 DEF ProcessBlock
  <2>2. \E k \in h..Top : Is(k)
    <3> DEFINE K == {k \in Nat : k >= h /\ k + 1 \notin m.orphans}
    <3>1. h \in Nat /\ h <= Top /\ Top \in Nat /\ Top + 1 \notin m.orphans
      BY <1>1, MarkInt DEF Height
    <3>2. Top \in K
      BY <3>1
    <3>3. PICK k \in K : \A l \in K : k <= l
      BY <3>2, LeastOf
    <3>4. k \in h..Top
      BY <3>1, <3>2, <3>3
    <3>5. \A x \in (h + 1)..k : x \in m.orphans
      <4> SUFFICES ASSUME NEW x \in (h + 1)..k, x \notin m.orphans PROVE FALSE
        OBVIOUS
      <4>1. x - 1 \in K
        BY <3>1
      <4>2. k <= x - 1
        BY <3>3, <4>1
      <4> QED BY <3>1, <3>3, <4>2
    <3> QED BY <3>3, <3>4, <3>5
  <2>3. top \in h..Top
    BY <2>2
  <2>4. top \in Height
    BY <2>3, MarkInt DEF Height
  <2> HIDE DEF top
  <2>5. m.orphans \ (h..top) \in SUBSET Height
    BY <1>1
  <2>6. Touched(n, m)
    BY <2>4, <2>5 DEF Touched, Same, SyncState
  <2> QED BY <2>1, <2>6
<1>4. CASE ~HaveBlock(m, h) /\ h # m.best + 1
  <2> DEFINE n == [m EXCEPT !.orphans = m.orphans \cup {h}]
  <2>1. ProcessBlock(m, h) = n
    BY <1>4 DEF ProcessBlock
  <2>2. m.orphans \cup {h} \in SUBSET Height
    BY <1>1
  <2>3. Touched(n, m)
    BY <2>2 DEF Touched, Same, SyncState
  <2> QED BY <2>1, <2>3
<1>5. CASE HaveBlock(m, h)
  BY <1>2, <1>5 DEF ProcessBlock
<1> QED BY <1>3, <1>4, <1>5

LEMMA OrphanRootIn ==
  ASSUME NEW m \in SyncState, NEW h \in m.orphans
  PROVE  OrphanRoot(m, h) \in Height
<1> DEFINE R == {r \in Nat : r <= h /\ r..h \subseteq m.orphans}
<1>1. m.orphans \subseteq Height /\ h \in Nat /\ h <= Top /\ Top \in Nat /\ -1 \notin m.orphans
  BY MarkInt DEF SyncState, Height
<1>2. h \in R
  BY <1>1
<1>3. PICK r \in R : \A l \in R : r <= l
  BY <1>2, LeastOf
<1>4. r - 1 \notin m.orphans
  <2> SUFFICES ASSUME r - 1 \in m.orphans PROVE FALSE
    OBVIOUS
  <2>1. r - 1 \in Nat /\ r \in Nat /\ r <= h
    BY <1>1, <1>3 DEF Height
  <2>2. \A x \in (r - 1)..h : x = r - 1 \/ x \in r..h
    BY <1>1, <2>1
  <2>3. (r - 1)..h \subseteq m.orphans
    BY <1>3, <2>2
  <2>4. r - 1 \in R
    BY <1>1, <2>1, <2>3
  <2>5. r <= r - 1
    BY <1>3, <2>4
  <2> QED BY <2>1, <2>5
<1>5. r \in 0..h /\ r..h \subseteq m.orphans
  BY <1>1, <1>3
<1>6. OrphanRoot(m, h) \in 0..h
  BY <1>4, <1>5 DEF OrphanRoot
<1> QED BY <1>1, <1>6 DEF Height

LEMMA UpdatePeerHeightsOK ==
  ASSUME NEW m \in SyncState, NEW p \in Peer, NEW h \in Height
  PROVE  Touched(HandleUpdatePeerHeights(m, p, h), m)
<1> DEFINE told == {q \in m.peers \ {p} : m.announced[q] = h}
           last == [q \in Peer |-> IF q \in told THEN Max({m.last[q], h}) ELSE m.last[q]]
           announced == [q \in Peer |-> IF q \in told THEN None ELSE m.announced[q]]
           n == [m EXCEPT !.last = last, !.announced = announced]
<1>1. HandleUpdatePeerHeights(m, p, h) = n
  BY DEF HandleUpdatePeerHeights
<1>2. m.last \in [Peer -> Height] /\ m.announced \in [Peer -> Mark]
  BY DEF SyncState
<1>3. \A q \in Peer : Max({m.last[q], h}) \in Height
  <2> SUFFICES ASSUME NEW q \in Peer PROVE Max({m.last[q], h}) \in Height
    OBVIOUS
  <2>1. {m.last[q], h} \subseteq Height
    BY <1>2
  <2> QED BY <2>1, MaxOf DEF Mark
<1> HIDE DEF told
<1>4. last \in [Peer -> Height] /\ announced \in [Peer -> Mark]
  BY <1>2, <1>3 DEF Mark
<1> HIDE DEF last, announced
<1>5. Touched(n, m)
  BY <1>4 DEF Touched, Same, SyncState
<1> QED BY <1>1, <1>5

\* The height that a peer is known to have.
LEMMA LastOK ==
  ASSUME NEW m \in SyncState, NEW p \in Peer, NEW h \in Height
  PROVE  Touched([m EXCEPT !.last[p] = Max({@, h})], m)
<1> DEFINE last == [m.last EXCEPT ![p] = Max({m.last[p], h})]
           n == [m EXCEPT !.last = last]
<1>1. m.last \in [Peer -> Height]
  BY DEF SyncState
<1>2. Max({m.last[p], h}) \in Height
  <2>1. {m.last[p], h} \subseteq Height
    BY <1>1
  <2> QED BY <2>1, MaxOf DEF Mark
<1>3. last \in [Peer -> Height]
  BY <1>1, <1>2
<1> HIDE DEF last
<1>4. Touched(n, m)
  BY <1>3 DEF Touched, Same, SyncState
<1>5. n = [m EXCEPT !.last[p] = Max({@, h})]
  BY Zenon DEF last
<1> QED BY <1>4, <1>5, Zenon

LEMMA UpdateHeightsOK ==
  ASSUME NEW m \in SyncState, NEW p \in Peer, NEW h \in Height, NEW orphan
  PROVE  Touched(UpdateHeights(m, p, h, orphan), m)
<1> DEFINE n == [m EXCEPT !.last[p] = Max({@, h})]
<1>1. Touched(n, m)
  BY LastOK
<1>2. UpdateHeights(m, p, h, orphan) =
        IF orphan \/ Current(n) THEN HandleUpdatePeerHeights(n, p, h) ELSE n
  BY DEF UpdateHeights
<1> HIDE DEF n
<1>3. Touched(HandleUpdatePeerHeights(n, p, h), n)
  BY <1>1, UpdatePeerHeightsOK DEF Touched
<1>4. Touched(HandleUpdatePeerHeights(n, p, h), m)
  BY <1>1, <1>3, TouchedTrans
<1> QED BY <1>1, <1>2, <1>4

LEMMA AfterCheckpointOK ==
  ASSUME NEW m, Sound(m), m.hf, NEW p \in m.peers
  PROVE  Sound(AfterCheckpoint(m, p))
<1> DEFINE next == FindNextHeaderCheckpoint(m.next)
           n == [m EXCEPT !.next = next]
           o == [n EXCEPT !.hf = FALSE, !.list = <<>>]
<1>1. m \in SyncState /\ p \in Peer /\ m.next \in Checkpoints \cup {None} /\ m.next # None
        /\ m.sync \in m.peers
  BY DEF Sound, Kept, Synced, SyncState
<1>2. next \in Checkpoints \cup {None} /\ m.next \in Height /\ (next # None => next \in Mark)
  BY <1>1, CheckpointIn
<1>3. AfterCheckpoint(m, p) =
        IF next # None THEN PushGetHeaders(n, p, m.next, next, TRUE)
        ELSE PushGetBlocks(o, p, m.next, {None})
  BY DEF AfterCheckpoint
<1> HIDE DEF next
<1>4. n \in SyncState
  BY <1>1, <1>2 DEF SyncState
<1>5. /\ n.peers = m.peers /\ n.req = m.req /\ n.requested = m.requested /\ n.list = m.list
      /\ n.sync = m.sync /\ n.hf = m.hf /\ n.next = next /\ n.link = m.link
      /\ n.inbox = m.inbox
  BY <1>1 DEF SyncState
<1> HIDE DEF n
<1>6. CASE next # None
  <2>1. Sound(n)
    BY <1>1, <1>4, <1>5, <1>6 DEF Sound, Kept, Owned, LinkOK, Synced
  <2>2. Sends(PushGetHeaders(n, p, m.next, next, TRUE), n, p)
    BY <1>1, <1>2, <1>4, <1>6, PushGetHeadersOK
  <2>3. p \in n.peers /\ AfterCheckpoint(m, p) = PushGetHeaders(n, p, m.next, next, TRUE)
    BY <1>3, <1>5, <1>6
  <2>4. Sends(AfterCheckpoint(m, p), n, p)
    BY <2>2, <2>3
  <2> QED BY <2>1, <2>3, <2>4, SendsKeep DEF Sound
<1>7. CASE next = None
  <2>1. o \in SyncState
    <3>1. <<>> \in Seq(Height)
      OBVIOUS
    <3> QED BY <1>4, <3>1 DEF SyncState
  <2>2. /\ o.peers = n.peers /\ o.req = n.req /\ o.requested = n.requested /\ o.list = <<>>
        /\ ~o.hf /\ o.link = n.link /\ o.inbox = n.inbox
    BY <1>4 DEF SyncState
  <2> HIDE DEF o
  <2>3. Sound(o)
    BY <1>5, <2>1, <2>2, LinkedShort, ZenonT(40) DEF Sound, Kept, Owned, LinkOK, Synced
  <2>4. Sends(PushGetBlocks(o, p, m.next, {None}), o, p)
    BY <1>1, <1>2, <2>1, PushGetBlocksOK DEF Mark
  <2> QED BY <1>3, <1>5, <1>7, <2>2, <2>3, <2>4, SendsKeep DEF Sound
<1> QED BY <1>6, <1>7

\* Blocks that are marked as requested of a peer that is there.
Asking(m, p, want) == [m EXCEPT !.requested = @ \cup want, !.req[p] = @ \cup want]

LEMMA AskingOK ==
  ASSUME NEW m, Sound(m), NEW p \in m.peers, NEW want, want \subseteq Height
  PROVE  Sound(Asking(m, p, want)) /\ p \in Asking(m, p, want).peers
<1> DEFINE req == [m.req EXCEPT ![p] = @ \cup want]
           r == m.requested \cup want
           n == [m EXCEPT !.requested = r, !.req = req]
<1>1. m \in SyncState /\ p \in Peer /\ m.req \in [Peer -> SUBSET Height]
        /\ m.requested \subseteq Height /\ m.peers \subseteq Peer
  BY DEF Sound, Kept, SyncState
<1>2. Asking(m, p, want) = n
  BY DEF Asking
<1>3. req \in [Peer -> SUBSET Height] /\ r \in SUBSET Height
  BY <1>1
<1>4. want \subseteq req[p] /\ \A q \in Peer : m.req[q] \subseteq req[q]
  BY <1>1
<1> HIDE DEF req
<1>5. n \in SyncState
  BY <1>1, <1>3 DEF SyncState
<1>6. /\ n.peers = m.peers /\ n.req = req /\ n.requested = r /\ n.list = m.list
      /\ n.sync = m.sync /\ n.hf = m.hf /\ n.next = m.next /\ n.link = m.link
      /\ n.inbox = m.inbox
  BY <1>1 DEF SyncState
<1> HIDE DEF n
<1>7. Owned(n)
  BY <1>1, <1>4, <1>6 DEF Sound, Kept, Owned
<1>8. Sound(n)
  BY <1>5, <1>6, <1>7 DEF Sound, Kept, LinkOK, Synced
<1> QED BY <1>2, <1>6, <1>8

LEMMA AskedForOK ==
  ASSUME NEW m, Sound(m), NEW p \in m.peers, NEW want, want \subseteq Height
  PROVE  Sound(GetData(Asking(m, p, want), p, want))
<1> DEFINE n == Asking(m, p, want)
<1>1. Sound(n) /\ p \in n.peers
  BY AskingOK
<1> HIDE DEF n
<1>2. n \in SyncState /\ p \in Peer
  BY <1>1 DEF Sound, Kept, SyncState
<1>3. Sends(GetData(n, p, want), n, p)
  BY <1>2, GetDataOK
<1>4. Sound(GetData(n, p, want))
  BY <1>1, <1>3, SendsKeep DEF Sound
<1> QED BY <1>4 DEF n

LEMMA FetchHeaderBlocksOK ==
  ASSUME NEW m, Sound(m), m.hf
  PROVE  Sound(FetchHeaderBlocks(m))
<1>1. CASE m.start = None
  BY <1>1 DEF FetchHeaderBlocks
<1>2. CASE m.start # None
  <2> DEFINE rest == IF m.start \in ToSet(m.list)
                     THEN {h \in ToSet(m.list) : h >= m.start} ELSE {m.start}
             miss == {h \in rest : ~HaveBlock(m, h)}
             want == {h \in miss : Cardinality({k \in miss : k <= h}) <= GetDataMax}
             left == {h \in rest : Cardinality(want) = GetDataMax /\ h > Max(want)}
             st   == IF left = {} THEN None ELSE Min(left)
             o    == [m EXCEPT !.start = st]
             n    == [m EXCEPT !.start = st, !.requested = @ \cup want,
                               !.req[m.sync] = @ \cup want]
  <2>1. FetchHeaderBlocks(m) = GetData(n, m.sync, want)
    BY <1>2 DEF FetchHeaderBlocks
  <2>2. m \in SyncState /\ m.sync \in m.peers /\ m.list \in Seq(Height) /\ m.start \in Mark
    BY DEF Sound, Kept, Synced, SyncState
  <2>3. rest \subseteq Height
    <3>1. ToSet(m.list) \subseteq Height
      BY <2>2 DEF ToSet
    <3>2. m.start \in Height
      BY <1>2, <2>2 DEF Mark
    <3> QED BY <3>1, <3>2
  <2> HIDE DEF rest
  <2>4. want \subseteq Height /\ left \subseteq Height
    BY <2>3
  <2> HIDE DEF want, left
  <2>5. st \in Mark
    BY <2>4, MinOf DEF Mark
  <2> HIDE DEF st
  <2>6. Touched(o, m)
    BY <2>2, <2>5 DEF Touched, Same, SyncState
  <2>7. n = Asking(o, m.sync, want)
    BY <2>2 DEF Asking, SyncState
  <2>8. Sound(o) /\ m.sync \in o.peers
    BY <2>2, <2>6, TouchedKeeps DEF Touched, Same
  <2> HIDE DEF o, n
  <2>9. Sound(GetData(Asking(o, m.sync, want), m.sync, want))
    BY <2>4, <2>8, AskedForOK
  <2> QED BY <2>1, <2>7, <2>9
<1> QED BY <1>1, <1>2

LEMMA LinkedTail ==
  ASSUME NEW list \in Seq(Height), Linked(list), list # <<>>
  PROVE  Linked(Tail(list)) /\ Tail(list) \in Seq(Height)
<1>1. Tail(list) \in Seq(Height) /\ Len(Tail(list)) = Len(list) - 1 /\ Len(list) \in Nat
  OBVIOUS
<1>2. \A i \in 1..(Len(list) - 1) : Tail(list)[i] = list[i + 1]
  OBVIOUS
<1>3. SUFFICES ASSUME NEW i \in 1..(Len(list) - 2)
               PROVE  Tail(list)[i + 1] = Tail(list)[i] + 1
  BY <1>1 DEF Linked
<1>4. i \in 1..(Len(list) - 1) /\ i + 1 \in 1..(Len(list) - 1)
  BY <1>1
<1>5. Tail(list)[i] = list[i + 1] /\ Tail(list)[i + 1] = list[i + 1 + 1]
  BY <1>2, <1>4
<1>6. list[i + 1 + 1] = list[i + 1] + 1
  BY <1>4 DEF Linked
<1> QED BY <1>5, <1>6

\* The block came from the peer that was asked for it.
Got(m, p, h, list) ==
  [m EXCEPT !.req[p] = @ \ {h}, !.requested = @ \ {h}, !.list = list]

LEMMA GotOK ==
  ASSUME NEW m, Sound(m), NEW p \in m.peers, NEW h, h \in m.req[p],
         NEW list \in Seq(Height), Linked(list)
  PROVE  /\ Sound(Got(m, p, h, list)) /\ Got(m, p, h, list).peers = m.peers
         /\ Got(m, p, h, list).hf = m.hf
<1> DEFINE req == [m.req EXCEPT ![p] = @ \ {h}]
           r == m.requested \ {h}
           n == [m EXCEPT !.req = req, !.requested = r, !.list = list]
<1>1. m \in SyncState /\ p \in Peer /\ m.req \in [Peer -> SUBSET Height]
        /\ m.requested \subseteq Height /\ m.peers \subseteq Peer
  BY DEF Sound, Kept, SyncState
<1>2. Got(m, p, h, list) = n
  BY DEF Got
<1>3. req \in [Peer -> SUBSET Height] /\ r \in SUBSET Height
  BY <1>1
<1>4. \A q \in Peer : m.req[q] \ {h} \subseteq req[q]
  BY <1>1
<1> HIDE DEF req
<1>5. n \in SyncState
  BY <1>1, <1>3 DEF SyncState
<1>6. /\ n.peers = m.peers /\ n.req = req /\ n.requested = r /\ n.list = list
      /\ n.sync = m.sync /\ n.hf = m.hf /\ n.next = m.next /\ n.link = m.link
      /\ n.inbox = m.inbox
  BY <1>1 DEF SyncState
<1> HIDE DEF n
<1>7. Owned(n)
  BY <1>1, <1>4, <1>6 DEF Sound, Kept, Owned
<1>8. Sound(n)
  BY <1>5, <1>6, <1>7 DEF Sound, Kept, LinkOK, Synced
<1> QED BY <1>2, <1>6, <1>8

LEMMA StrikesOK ==
  ASSUME NEW m \in SyncState, NEW p \in Peer, NEW orphan
  PROVE  Touched([m EXCEPT !.strikes[p] = IF orphan THEN StrikeNonTip(@) ELSE 0], m)
<1> DEFINE k == IF orphan THEN StrikeNonTip(m.strikes[p]) ELSE 0
           strikes == [m.strikes EXCEPT ![p] = k]
           n == [m EXCEPT !.strikes = strikes]
<1>1. m.strikes \in [Peer -> 0..StrikeLimit] /\ StrikeLimit \in Nat
  BY Sizes DEF SyncState
<1>2. k \in 0..StrikeLimit
  <2>1. m.strikes[p] \in Nat /\ m.strikes[p] + 1 \in Nat
    BY <1>1
  <2>2. StrikeNonTip(m.strikes[p]) \in 0..StrikeLimit
    BY <1>1, <2>1, TwoOf DEF StrikeNonTip
  <2> QED BY <1>1, <2>2
<1>3. strikes \in [Peer -> 0..StrikeLimit]
  <2> HIDE DEF k
  <2> QED BY <1>1, <1>2
<1>4. n = [m EXCEPT !.strikes[p] = IF orphan THEN StrikeNonTip(@) ELSE 0]
  BY Zenon
<1> HIDE DEF strikes
<1>5. Touched(n, m)
  BY <1>3 DEF Touched, Same, SyncState
<1> QED BY <1>4, <1>5, Zenon

LEMMA HandleBlockOK ==
  ASSUME NEW m, Sound(m), NEW p \in m.peers, NEW h \in Height
  PROVE  Sound(HandleBlock(m, p, h))
<1>1. m \in SyncState /\ p \in Peer /\ m.list \in Seq(Height) /\ Linked(m.list)
  BY DEF Sound, Kept, SyncState
<1>2. CASE h \notin m.req[p]
  <2>1. HandleBlock(m, p, h) = Blame(m, p)
    BY <1>2 DEF HandleBlock
  <2> QED BY <1>1, <2>1, BlameOK
<1>3. CASE h \in m.req[p]
  <2> DEFINE first  == m.hf /\ m.list # <<>> /\ Head(m.list) = h
             isCkpt == first /\ h = m.next
             list   == IF first /\ ~isCkpt THEN Tail(m.list) ELSE m.list
             asked  == Got(m, p, h, list)
             done   == ProcessBlock(asked, h)
             orphan == h \in done.orphans
             struck == [done EXCEPT !.strikes[p] = IF orphan THEN StrikeNonTip(@) ELSE 0]
             told   == UpdateHeights(struck, p, IF orphan THEN h ELSE done.best, orphan)
             after  == IF orphan
                       THEN PushGetBlocks(told, p, done.best, {OrphanRoot(done, h)}) ELSE told
  <2>1. HandleBlock(m, p, h) =
          IF HaveBlock(asked, h) THEN asked
          ELSE IF ~m.hf THEN after
          ELSE IF isCkpt THEN AfterCheckpoint(after, p)
          ELSE IF Cardinality(after.req[p]) < MinInFlight THEN FetchHeaderBlocks(after)
          ELSE after
    BY <1>3 DEF HandleBlock, Got
  <2>2. list \in Seq(Height) /\ Linked(list)
    BY <1>1, LinkedTail
  <2> HIDE DEF list
  <2>3. Sound(asked) /\ asked.peers = m.peers /\ asked.hf = m.hf
    BY <1>3, <2>2, GotOK
  <2> HIDE DEF asked
  <2>4. Touched(done, asked)
    BY <2>3, ProcessBlockOK DEF Sound, Kept
  <2> HIDE DEF done
  <2>5. done \in SyncState /\ done.best \in Height
    BY <2>4 DEF Touched, SyncState
  <2>6. Touched(struck, done)
    BY <1>1, <2>5, StrikesOK
  <2>7. orphan => OrphanRoot(done, h) \in Height
    BY <2>5, OrphanRootIn
  <2> HIDE DEF struck, orphan
  <2>8. Touched(told, struck)
    BY <1>1, <2>5, <2>6, UpdateHeightsOK DEF Touched
  <2> HIDE DEF told
  <2>9. Touched(told, asked)
    BY <2>4, <2>6, <2>8, TouchedTrans
  <2>10. Sound(told) /\ told \in SyncState /\ told.peers = m.peers /\ told.hf = m.hf
    BY <2>3, <2>9, TouchedKeeps DEF Touched, Same
  <2>11. Sound(after) /\ after.peers = m.peers /\ after.hf = m.hf
    <3>1. CASE orphan
      <4>1. Sends(PushGetBlocks(told, p, done.best, {OrphanRoot(done, h)}), told, p)
        BY <1>1, <2>5, <2>7, <2>10, <3>1, PushGetBlocksOK DEF Mark
      <4>2. Sends(after, told, p)
        BY <3>1, <4>1
      <4> HIDE DEF after
      <4> QED BY <2>10, <4>2, SendsKeep DEF Sound, Sends, Same
    <3>2. CASE ~orphan
      BY <2>10, <3>2
    <3> QED BY <3>1, <3>2
  <2> HIDE DEF after, isCkpt
  <2>12. m.hf => Sound(AfterCheckpoint(after, p)) /\ Sound(FetchHeaderBlocks(after))
    BY <2>11, AfterCheckpointOK, FetchHeaderBlocksOK
  <2> QED BY <2>1, <2>3, <2>11, <2>12
<1> QED BY <1>2, <1>3

-----------------------------------------------------------------------------
(* Headers and inventory                                                     *)

LEMMA HandleProbedOK ==
  ASSUME NEW m, Sound(m), NEW p \in m.peers, NEW from \in Height, NEW to \in Height
  PROVE  Sound(HandleProbed(m, p, from, to))
<1> DEFINE want == {h \in from..to : h \notin m.requested /\ ~HaveBlock(m, h)}
<1>1. want \subseteq Height
  BY MarkInt DEF Height
<1>2. Sound(GetData(Asking(m, p, want), p, want))
  BY <1>1, AskedForOK
<1>3. HandleProbed(m, p, from, to) = m
        \/ HandleProbed(m, p, from, to) = GetData(Asking(m, p, want), p, want)
  BY DEF HandleProbed, Asking
<1> HIDE DEF want
<1> QED BY <1>2, <1>3

\* The headers of a message, up to the checkpoint.
HeadersOf(from, upto) == [i \in 1..(upto - from + 1) |-> from + i - 1]

LEMMA HeadersIn ==
  ASSUME NEW from \in Height, NEW upto \in Height
  PROVE  /\ HeadersOf(from, upto) \in Seq(Height)
         /\ \A i \in 1..Len(HeadersOf(from, upto)) : HeadersOf(from, upto)[i] = from + i - 1
<1>1. from \in Nat /\ upto \in Nat /\ upto <= Top /\ Top \in Nat
  BY MarkInt DEF Height
<1> DEFINE k == upto - from + 1
           len == IF k >= 0 THEN k ELSE 0
           more == [i \in 1..len |-> from + i - 1]
<1>2. len \in Nat /\ 1..k = 1..len
  BY <1>1
<1>3. \A i \in 1..len : from + i - 1 \in Height
  BY <1>1 DEF Height
<1>4. HeadersOf(from, upto) = more
  BY <1>2, Zenon DEF HeadersOf
<1> HIDE DEF len
<1>5. more \in Seq(Height) /\ Len(more) = len /\ \A i \in 1..len : more[i] = from + i - 1
  BY <1>2, <1>3
<1> HIDE DEF more
<1> QED BY <1>4, <1>5

\* Headers that follow the last one keep the list without a gap.
LEMMA LinkedMore ==
  ASSUME NEW list \in Seq(Height), Linked(list), NEW from \in Height, Connects(list, from),
         NEW more \in Seq(Height), \A i \in 1..Len(more) : more[i] = from + i - 1
  PROVE  Linked(list \o more) /\ list \o more \in Seq(Height) /\ list \o more # <<>>
<1>1. from \in Nat
  BY MarkInt DEF Height
<1>2. list # <<>> /\ Len(list) \in Nat /\ Len(list) > 0 /\ list[Len(list)] = from - 1
  BY DEF Connects, Last
<1> DEFINE a == Len(list)
           b == Len(more)
<1>3. PICK cat : cat = list \o more
  OBVIOUS
<1>4. cat \in Seq(Height) /\ Len(cat) = a + b /\ b \in Nat
  BY <1>3
<1>5. \A i \in 1..(a + b) : cat[i] = IF i <= a THEN list[i] ELSE more[i - a]
  BY <1>3
<1>6. ASSUME NEW i \in 1..(a + b - 1)
      PROVE  cat[i + 1] = cat[i] + 1
  <2>1. i \in 1..(a + b) /\ i + 1 \in 1..(a + b) /\ i \in Nat /\ i > 0
    BY <1>2, <1>4
  <2>2. cat[i] = (IF i <= a THEN list[i] ELSE more[i - a])
          /\ cat[i + 1] = (IF i + 1 <= a THEN list[i + 1] ELSE more[(i + 1) - a])
    BY <1>5, <2>1
  <2>3. CASE i < a
    <3>1. i \in 1..(a - 1) /\ i <= a /\ i + 1 <= a
      BY <1>2, <2>1, <2>3
    <3>2. list[i + 1] = list[i] + 1
      BY <3>1 DEF Linked
    <3> QED BY <2>2, <3>1, <3>2
  <2>4. CASE i = a
    <3>1. (i + 1) - a = 1 /\ ~(i + 1 <= a) /\ i <= a /\ 1 \in 1..b
      BY <1>2, <1>4, <2>1, <2>4
    <3>2. more[1] = from
      BY <1>1, <3>1
    <3>3. cat[i] = from - 1 /\ cat[i + 1] = from
      BY <1>2, <2>2, <2>4, <3>1, <3>2
    <3> QED BY <1>1, <3>3
  <2>5. CASE i > a
    <3>1. i - a \in 1..b /\ (i + 1) - a \in 1..b /\ ~(i <= a) /\ ~(i + 1 <= a)
      BY <1>2, <1>4, <2>1, <2>5
    <3>2. more[i - a] = from + (i - a) - 1 /\ more[(i + 1) - a] = from + ((i + 1) - a) - 1
      BY <3>1
    <3>3. cat[i] = from + (i - a) - 1 /\ cat[i + 1] = from + ((i + 1) - a) - 1
      BY <2>2, <3>1, <3>2
    <3> QED BY <1>1, <1>2, <2>1, <3>3
  <2> QED BY <1>2, <2>1, <2>3, <2>4, <2>5
<1>7. Linked(cat) /\ cat # <<>>
  BY <1>2, <1>4, <1>6 DEF Linked
<1> QED BY <1>3, <1>4, <1>7

\* A new header list and the place where fetching begins.
Listed(m, list, st) == [m EXCEPT !.list = list, !.start = st]

LEMMA ListOK ==
  ASSUME NEW m, Sound(m), NEW list \in Seq(Height), Linked(list), NEW st \in Mark
  PROVE  /\ Sound(Listed(m, list, st)) /\ Listed(m, list, st).peers = m.peers
         /\ Listed(m, list, st).hf = m.hf
<1> DEFINE n == [m EXCEPT !.list = list, !.start = st]
<1>1. m \in SyncState
  BY DEF Sound, Kept
<1>2. n \in SyncState
  BY <1>1 DEF SyncState
<1>3. /\ n.peers = m.peers /\ n.req = m.req /\ n.requested = m.requested /\ n.list = list
      /\ n.sync = m.sync /\ n.hf = m.hf /\ n.next = m.next /\ n.link = m.link
      /\ n.inbox = m.inbox
  BY <1>1 DEF SyncState
<1>4. Sound(n)
  <2> HIDE DEF n
  <2> QED BY <1>2, <1>3 DEF Sound, Kept, Owned, LinkOK, Synced
<1>5. Listed(m, list, st) = n
  BY DEF Listed
<1> HIDE DEF n
<1> QED BY <1>3, <1>4, <1>5

LEMMA HandleHeadersOK ==
  ASSUME NEW m, Sound(m), NEW p \in m.peers, NEW from \in Height, NEW to \in Height,
         NEW cert \in BOOLEAN
  PROVE  Sound(HandleHeaders(m, p, from, to, cert))
<1>1. m \in SyncState /\ p \in Peer /\ m.list \in Seq(Height) /\ Linked(m.list)
        /\ m.start \in Mark /\ m.next \in Checkpoints \cup {None} /\ m.next \in Mark
  <2>1. m \in SyncState /\ p \in Peer /\ m.list \in Seq(Height) /\ Linked(m.list)
          /\ m.start \in Mark /\ m.next \in Checkpoints \cup {None}
    BY DEF Sound, Kept, SyncState
  <2> QED BY <2>1, CheckpointIn
<1>2. CASE ~m.hf
  BY <1>1, <1>2, BlameOK, HandleProbedOK DEF HandleHeaders
<1>3. CASE m.hf /\ p # m.sync
  BY <1>3 DEF HandleHeaders
<1>4. CASE m.hf /\ p = m.sync /\ (~Connects(m.list, from) \/ ~cert)
  BY <1>1, <1>4, BlameOK DEF HandleHeaders
<1>5. CASE m.hf /\ p = m.sync /\ Connects(m.list, from) /\ cert
  <2> DEFINE reached == m.next \in from..to
             upto == IF reached THEN m.next ELSE to
             list == m.list \o HeadersOf(from, upto)
             st == IF m.start = None THEN from ELSE m.start
             n == Listed(m, list, st)
             c == Listed(m, Tail(list), st)
  <2>1. HandleHeaders(m, p, from, to, cert) =
          IF reached THEN FetchHeaderBlocks([n EXCEPT !.list = Tail(@)])
          ELSE PushGetHeaders(n, p, to, m.next, TRUE)
    BY <1>5, Zenon DEF HandleHeaders, HeadersOf, Listed
  <2>2. upto \in Height
    <3>1. m.next \in from..to => m.next \in Height
      BY <1>1, MarkInt DEF Height, Mark, None
    <3> QED BY <3>1
  <2> HIDE DEF upto
  <2>3. HeadersOf(from, upto) \in Seq(Height)
          /\ \A i \in 1..Len(HeadersOf(from, upto)) : HeadersOf(from, upto)[i] = from + i - 1
    BY <2>2, HeadersIn
  <2>4. list \in Seq(Height) /\ Linked(list) /\ list # <<>>
    BY <1>1, <1>5, <2>3, LinkedMore
  <2>5. Tail(list) \in Seq(Height) /\ Linked(Tail(list))
    <3> HIDE DEF list
    <3> QED BY <2>4, LinkedTail
  <2>6. st \in Mark
    BY <1>1 DEF Mark
  <2> HIDE DEF list, st
  <2>7. [n EXCEPT !.list = Tail(@)] = c
    BY <1>1 DEF Listed, SyncState
  <2>8. Sound(n) /\ n.peers = m.peers
    BY <2>4, <2>6, ListOK
  <2>9. Sound(c) /\ c.hf = m.hf
    BY <2>5, <2>6, ListOK
  <2> HIDE DEF n, c
  <2>10. CASE reached
    <3>1. HandleHeaders(m, p, from, to, cert) = FetchHeaderBlocks(c)
      BY <2>1, <2>7, <2>10
    <3> QED BY <1>5, <2>9, <3>1, FetchHeaderBlocksOK
  <2>11. CASE ~reached
    <3>1. Sends(PushGetHeaders(n, p, to, m.next, TRUE), n, p)
      BY <1>1, <2>8, PushGetHeadersOK DEF Sound, Kept
    <3>2. Sends(HandleHeaders(m, p, from, to, cert), n, p)
      BY <2>1, <2>11, <3>1
    <3> QED BY <2>8, <3>2, SendsKeep DEF Sound
  <2> QED BY <2>10, <2>11
<1> QED BY <1>2, <1>3, <1>4, <1>5

LEMMA HandleNotFoundOK ==
  ASSUME NEW m, Sound(m), NEW p \in m.peers, NEW hs
  PROVE  Sound(HandleNotFound(m, p, hs))
<1> DEFINE req == [m.req EXCEPT ![p] = @ \ hs]
           r == m.requested \ (hs \cap m.req[p])
           n == [m EXCEPT !.req = req, !.requested = r]
<1>1. m \in SyncState /\ p \in Peer /\ m.req \in [Peer -> SUBSET Height]
        /\ m.requested \subseteq Height /\ m.peers \subseteq Peer
  BY DEF Sound, Kept, SyncState
<1>2. HandleNotFound(m, p, hs) = n
  BY <1>1 DEF HandleNotFound, SyncState
<1>3. req \in [Peer -> SUBSET Height] /\ r \in SUBSET Height
  BY <1>1
<1>4. \A q \in Peer : m.req[q] \ (hs \cap m.req[p]) \subseteq req[q]
  BY <1>1
<1> HIDE DEF req
<1>5. n \in SyncState
  BY <1>1, <1>3 DEF SyncState
<1>6. /\ n.peers = m.peers /\ n.req = req /\ n.requested = r /\ n.list = m.list
      /\ n.sync = m.sync /\ n.hf = m.hf /\ n.next = m.next /\ n.link = m.link
      /\ n.inbox = m.inbox
  BY <1>1 DEF SyncState
<1> HIDE DEF n
<1>7. Owned(n)
  BY <1>1, <1>4, <1>6 DEF Sound, Kept, Owned
<1>8. Sound(n)
  BY <1>5, <1>6, <1>7 DEF Sound, Kept, LinkOK, Synced
<1> QED BY <1>2, <1>8

LEMMA AnnouncedOK ==
  ASSUME NEW m \in SyncState, NEW p \in Peer, NEW to \in Height
  PROVE  Touched([m EXCEPT !.announced[p] = to], m)
<1> DEFINE announced == [m.announced EXCEPT ![p] = to]
           n == [m EXCEPT !.announced = announced]
<1>1. m.announced \in [Peer -> Mark] /\ to \in Mark
  BY DEF SyncState, Mark
<1>2. announced \in [Peer -> Mark]
  BY <1>1
<1>3. n = [m EXCEPT !.announced[p] = to]
  BY Zenon
<1> HIDE DEF announced
<1>4. Touched(n, m)
  BY <1>2 DEF Touched, Same, SyncState
<1> QED BY <1>3, <1>4, Zenon

LEMMA NoteAnnouncedOK ==
  ASSUME NEW m \in SyncState, NEW p \in Peer, NEW to \in Height
  PROVE  Touched(NoteAnnounced(m, p, to), m)
<1> DEFINE a == [m EXCEPT !.announced[p] = to]
           n == IF p # m.sync \/ Current(m) THEN a ELSE m
           o == [n EXCEPT !.last[p] = Max({@, to})]
<1>1. Touched(m, m) /\ Touched(a, m)
  BY AnnouncedOK DEF Touched, Same
<1>2. NoteAnnounced(m, p, to) = n \/ NoteAnnounced(m, p, to) = o
  BY DEF NoteAnnounced
<1> HIDE DEF a
<1>3. Touched(n, m)
  BY <1>1
<1> HIDE DEF n
<1>4. Touched(o, n)
  BY <1>3, LastOK DEF Touched
<1> HIDE DEF o
<1> QED BY <1>2, <1>3, <1>4, TouchedTrans

LEMMA TouchedSends ==
  ASSUME NEW m, NEW n, NEW p, Touched(n, m)
  PROVE  Sends(n, m, p)
BY DEF Touched, Sends

LEMMA SendsSound ==
  ASSUME NEW m, NEW n, Sound(m), NEW p \in m.peers, Sends(n, m, p)
  PROVE  Sound(n) /\ p \in n.peers /\ n \in SyncState
BY SendsKeep DEF Sound, Kept, Sends, Same

LEMMA HandleInvOK ==
  ASSUME NEW m, Sound(m), NEW p \in m.peers, NEW from \in Height, NEW to \in Height
  PROVE  Sound(HandleInv(m, p, from, to))
<1> DEFINE ignored == m.sync # NoPeer /\ p # m.sync /\ ~Current(m)
           noted   == NoteAnnounced(m, p, to)
           gated   == (Current(m) \/ m.sync = NoPeer) /\ m.strikes[p] >= StrikeLimit
           probed  == IF gated /\ ~HaveBlock(m, to)
                      THEN PushGetHeaders(noted, p, m.best, to, FALSE) ELSE noted
           orphans == (from..to) \cap m.orphans
           roots   == {OrphanRoot(m, h) : h \in orphans}
           more    == IF orphans # {} THEN PushGetBlocks(probed, p, m.best, roots)
                      ELSE IF to < m.best THEN PushGetBlocks(probed, p, to, {None}) ELSE probed
           want    == {h \in from..to : ~HaveBlock(m, h) /\ h \notin m.requested}
           old     == [m EXCEPT !.announced[p] = to]
<1>1. HandleInv(m, p, from, to) =
        IF ignored THEN old
        ELSE IF m.hf \/ gated THEN probed
        ELSE IF want = {} THEN more
        ELSE GetData(Asking(more, p, want), p, want)
  BY DEF HandleInv, Asking
<1>2. m \in SyncState /\ p \in Peer /\ m.best \in Height
  BY DEF Sound, Kept, SyncState
<1>3. Sound(old)
  <2>1. Touched(old, m)
    BY <1>2, AnnouncedOK
  <2> QED BY <2>1, TouchedKeeps
<1>4. Sends(noted, m, p)
  BY <1>2, NoteAnnouncedOK, TouchedSends
<1> HIDE DEF noted, gated, old, ignored
<1>5. Sends(probed, m, p)
  <2>1. Sends(PushGetHeaders(noted, p, m.best, to, FALSE), noted, p)
    <3>1. noted \in SyncState /\ to \in Mark
      BY <1>4 DEF Sends, Mark
    <3> QED BY <1>2, <3>1, PushGetHeadersOK
  <2> QED BY <1>4, <2>1, SameTrans
<1> HIDE DEF probed
<1>6. Sound(probed) /\ p \in probed.peers /\ probed \in SyncState
  BY <1>5, SendsSound
<1>7. Sends(more, probed, p)
  <2>1. Sends(probed, probed, p)
    BY <1>6 DEF Sends, Same
  <2>2. orphans # {} => Sends(PushGetBlocks(probed, p, m.best, roots), probed, p)
    <3>1. \A h \in orphans : OrphanRoot(m, h) \in Mark
      BY <1>2, OrphanRootIn DEF Mark
    <3>2. roots \subseteq Mark /\ (orphans # {} => roots # {})
      BY <3>1
    <3> HIDE DEF roots, orphans
    <3> QED BY <1>2, <1>6, <3>2, PushGetBlocksOK
  <2>3. Sends(PushGetBlocks(probed, p, to, {None}), probed, p)
    BY <1>2, <1>6, PushGetBlocksOK DEF Mark
  <2> HIDE DEF roots, orphans
  <2> QED BY <2>1, <2>2, <2>3
<1> HIDE DEF more
<1>8. Sound(more) /\ p \in more.peers
  BY <1>6, <1>7, SendsSound
<1>9. want \subseteq Height
  BY MarkInt DEF Height
<1> HIDE DEF want
<1>10. Sound(GetData(Asking(more, p, want), p, want))
  BY <1>8, <1>9, AskedForOK
<1> QED BY <1>1, <1>3, <1>6, <1>8, <1>10

LEMMA HandleOK ==
  ASSUME NEW m, Sound(m), NEW p \in m.peers, NEW msg \in Message
  PROVE  Sound(Handle(m, p, msg))
<1>1. CASE msg \in [t : {"headers"}, from : Height, to : Height, cert : BOOLEAN]
  <2>1. msg.t = "headers" /\ msg.from \in Height /\ msg.to \in Height /\ msg.cert \in BOOLEAN
    BY <1>1
  <2>2. Handle(m, p, msg) = HandleHeaders(m, p, msg.from, msg.to, msg.cert)
    BY <2>1 DEF Handle
  <2> QED BY <2>1, <2>2, HandleHeadersOK
<1>2. CASE msg \in [t : {"inv"}, from : Height, to : Height]
  <2>1. msg.t = "inv" /\ msg.from \in Height /\ msg.to \in Height
    BY <1>2
  <2>2. Handle(m, p, msg) = HandleInv(m, p, msg.from, msg.to)
    BY <2>1 DEF Handle
  <2> QED BY <2>1, <2>2, HandleInvOK
<1>3. CASE msg \in [t : {"block"}, h : Height]
  <2>1. msg.t = "block" /\ msg.h \in Height
    BY <1>3
  <2>2. Handle(m, p, msg) = HandleBlock(m, p, msg.h)
    BY <2>1 DEF Handle
  <2> QED BY <2>1, <2>2, HandleBlockOK
<1>4. CASE msg \in [t : {"notfound"}, hs : SUBSET Height]
  <2>1. msg.t = "notfound"
    BY <1>4
  <2>2. Handle(m, p, msg) = HandleNotFound(m, p, msg.hs)
    BY <2>1 DEF Handle
  <2> QED BY <2>2, HandleNotFoundOK
<1> QED BY <1>1, <1>2, <1>3, <1>4 DEF Message

-----------------------------------------------------------------------------
(* Steps                                                                     *)

LEMMA RemoveAtOK ==
  ASSUME NEW q \in Seq(Message), NEW i \in DOMAIN q
  PROVE  RemoveAt(q, i) \in Seq(Message) /\ q[i] \in Message /\ q # <<>>
<1>1. Len(q) \in Nat /\ i \in 1..Len(q)
  OBVIOUS
<1>2. SubSeq(q, 1, i - 1) \in Seq(Message) /\ SubSeq(q, i + 1, Len(q)) \in Seq(Message)
  BY <1>1
<1>3. RemoveAt(q, i) \in Seq(Message)
  BY <1>2 DEF RemoveAt
<1> QED BY <1>1, <1>3

LEMMA ReceiveOK ==
  ASSUME SyncInv, NEW p \in Peer, NEW i, ReceiveAt(p, i)
  PROVE  Sound(s')
<1>1. PICK m : m = s
  OBVIOUS
<1> DEFINE q == m.inbox[p]
           r == RemoveAt(q, i)
           box == [m.inbox EXCEPT ![p] = r]
           n == [m EXCEPT !.inbox = box]
<1>2. Sound(m) /\ m \in SyncState
  BY <1>1 DEF SyncInv, Sound, Kept
<1>3. m.inbox \in [Peer -> Seq(Message)] /\ q \in Seq(Message) /\ i \in DOMAIN q
  BY <1>1, <1>2 DEF SyncState, ReceiveAt
<1>4. r \in Seq(Message) /\ q[i] \in Message /\ q # <<>>
  BY <1>3, RemoveAtOK
<1>5. s' = Handle(n, p, q[i])
  BY <1>1, Zenon DEF ReceiveAt
<1>6. p \in m.peers
  BY <1>2, <1>4 DEF Sound, Kept, LinkOK
<1> HIDE DEF r
<1>7. box \in [Peer -> Seq(Message)] /\ \A k \in Peer : k # p => box[k] = m.inbox[k]
  BY <1>3, <1>4
<1> HIDE DEF box
<1>8. Sends(n, m, p)
  BY <1>2, <1>7 DEF Sends, Same, SyncState
<1> HIDE DEF n, q
<1>9. Sound(n) /\ p \in n.peers
  BY <1>2, <1>6, <1>8, SendsSound
<1>10. Sound(Handle(n, p, q[i]))
  BY <1>4, <1>9, HandleOK
<1> QED BY <1>5, <1>10

LEMMA AnnounceOK ==
  ASSUME SyncInv, NEW p \in Peer, Announce(p)
  PROVE  Sound(s')
<1>1. PICK m : m = s
  OBVIOUS
<1> DEFINE tip == [m.tip EXCEPT ![p] = m.tip[p] + 1]
           n == [m EXCEPT !.tip = tip]
           a == [t |-> "inv", from |-> tip[p], to |-> tip[p]]
<1>2. Sound(m) /\ m \in SyncState /\ m.tip \in [Peer -> Height] /\ m.tip[p] < Top
  BY <1>1 DEF SyncInv, Sound, Kept, SyncState, Announce
<1>3. tip \in [Peer -> Height] /\ tip[p] \in Height
  <2>1. m.tip[p] + 1 \in Height
    BY <1>2, MarkInt DEF Height
  <2> QED BY <1>2, <2>1
<1>4. s' = IF m.link[p] # "on" THEN n ELSE Send(n, p, <<a>>)
  <2>1. n.tip = tip
    BY <1>2 DEF SyncState
  <2> DEFINE c == [s EXCEPT !.tip[p] = @ + 1]
  <2>2. n = c
    BY <1>1
  <2>3. s' = IF m.link[p] # "on" THEN n
             ELSE Send(n, p, << [t |-> "inv", from |-> n.tip[p], to |-> n.tip[p]] >>)
    <3>1. s' = IF s.link[p] # "on" THEN c
               ELSE Send(c, p, << [t |-> "inv", from |-> c.tip[p], to |-> c.tip[p]] >>)
      BY DEF Announce
    <3> HIDE DEF n, c
    <3> QED BY <1>1, <2>2, <3>1
  <2> HIDE DEF n, c
  <2> QED BY <2>1, <2>3, Zenon
<1>5. a \in Message
  BY <1>3 DEF Message
<1> HIDE DEF tip, a
<1>6. Touched(n, m)
  BY <1>2, <1>3 DEF Touched, Same, SyncState
<1>7. Sound(n) /\ n \in SyncState /\ n.peers = m.peers
  BY <1>2, <1>6, TouchedKeeps DEF Touched, Same
<1> HIDE DEF n
<1>8. m.link[p] = "on" => Sound(Send(n, p, <<a>>))
  <2> SUFFICES ASSUME m.link[p] = "on" PROVE Sound(Send(n, p, <<a>>))
    OBVIOUS
  <2>1. p \in n.peers
    BY <1>2, <1>7 DEF Sound, Kept, LinkOK
  <2>2. Sends(Send(n, p, <<a>>), n, p)
    BY <1>5, <1>7, OnePair, SendOK
  <2> QED BY <1>7, <2>1, <2>2, SendsSound
<1> QED BY <1>4, <1>7, <1>8

LEMMA SyncInit == Init => SyncInv
<1> SUFFICES ASSUME Init PROVE SyncInv
  OBVIOUS
<1>1. FindNextHeaderCheckpoint(0) \in Checkpoints \cup {None}
  <2> DEFINE later == {k \in Checkpoints : k > 0}
  <2>1. later \subseteq Mark
    <3>1. Checkpoints \subseteq Height
      BY NetSyncAssumption DEF Height
    <3> QED BY <3>1 DEF Mark
  <2>2. later # {} => Min(later) \in later
    BY <2>1, MinOf
  <2> QED BY <2>2 DEF FindNextHeaderCheckpoint
<1>2. 0 \in Height /\ None \in Mark /\ Tip0 \in Height /\ 0 \in 0..StrikeLimit /\ "off" \in Link
        /\ <<None, None>> \in Asked
  BY MarkInt, Sizes, NetSyncAssumption DEF Height, Mark, Link, Asked
<1> DEFINE list == IF Checkpoints = {} THEN <<>> ELSE <<0>>
<1>3. list \in Seq(Height) /\ Linked(list)
  BY <1>2, LinkedShort
<1>4. s.list = list
  BY DEF Init
<1> HIDE DEF list
<1>5. s \in SyncState
  <2>1. /\ [p \in Peer |-> 0] \in [Peer -> Height] /\ [p \in Peer |-> 0] \in [Peer -> 0..StrikeLimit]
        /\ [p \in Peer |-> None] \in [Peer -> Mark] /\ [p \in Peer |-> Tip0] \in [Peer -> Height]
        /\ [p \in Peer |-> "off"] \in [Peer -> Link]
        /\ [p \in Peer |-> <<None, None>>] \in [Peer -> Asked]
    BY <1>2
  <2>2. [p \in Peer |-> {}] \in [Peer -> SUBSET Height]
          /\ [p \in Peer |-> <<>>] \in [Peer -> Seq(Message)]
    OBVIOUS
  <2> QED BY <1>1, <1>2, <1>3, <2>1, <2>2 DEF Init, SyncState, list
<1>6. s.requested = {} /\ ~s.hf /\ s.peers = {} /\ s.link = [p \in Peer |-> "off"]
        /\ s.inbox = [p \in Peer |-> <<>>] /\ submits = 0 /\ faults = 0
  BY DEF Init
<1>7. LinkOK(s)
  BY <1>6 DEF LinkOK
<1>8. Sound(s)
  BY <1>3, <1>4, <1>5, <1>6, <1>7 DEF Sound, Kept, Owned, Synced
<1> QED BY <1>6, <1>8, NetSyncAssumption DEF SyncInv

LEMMA SyncNext == SyncInv /\ [Next]_vars => SyncInv'
<1> SUFFICES ASSUME SyncInv, [Next]_vars PROVE SyncInv'
  OBVIOUS
<1>0. Sound(s) /\ s \in SyncState /\ submits \in 0..MaxSubmits /\ faults \in 0..MaxFaults
  BY DEF SyncInv, Sound, Kept
<1>1. submits' \in 0..MaxSubmits /\ faults' \in 0..MaxFaults
  <2>1. submits' \in {submits, submits + 1} /\ faults' \in {faults, faults + 1}
          /\ (submits' # submits => submits < MaxSubmits) /\ (faults' # faults => faults < MaxFaults)
    BY DEF Next, vars, NewPeer, Receive, Overtake, ReceiveAt, Drop, DonePeer, CoolDown, Announce,
           Retry, Stall, Submit
  <2> QED BY <1>0, <2>1, NetSyncAssumption
<1>2. Sound(s')
  <2>1. ASSUME NEW p \in Peer, NewPeer(p) PROVE Sound(s')
    <3>1. s.link[p] = "off" /\ s' \in HandleNewPeer(Joined(s, p), p)
      BY <2>1, Zenon DEF NewPeer, Joined
    <3> QED BY <1>0, <3>1, NewPeerOK
  <2>2. ASSUME NEW p \in Peer, Receive(p) \/ Overtake(p) PROVE Sound(s')
    <3>1. PICK i : ReceiveAt(p, i)
      BY <2>2 DEF Receive, Overtake
    <3> QED BY <3>1, ReceiveOK
  <2>3. ASSUME NEW p \in Peer, Drop(p) PROVE Sound(s')
    BY <1>0, <2>3, DisconnectOK DEF Drop, Sound
  <2>4. ASSUME NEW p \in Peer, DonePeer(p) PROVE Sound(s')
    <3>1. PICK m : m = s
      OBVIOUS
    <3>2. PICK j : j = [m EXCEPT !.link[p] = "off", !.inbox[p] = <<>>]
      OBVIOUS
    <3>3. m.link[p] = "closing" /\ s' \in HandleDonePeer(j, p)
      BY <2>4, <3>1, <3>2, Zenon DEF DonePeer
    <3>4. Sound(m)
      BY <1>0, <3>1
    <3>5. \A n \in HandleDonePeer(j, p) : Sound(n)
      BY <3>2, <3>3, <3>4, DonePeerOK
    <3> QED BY <3>3, <3>5
  <2>5. ASSUME NEW p \in Peer, CoolDown(p) PROVE Sound(s')
    <3>1. s' = [s EXCEPT !.failed = s.failed \ {p}] /\ s.failed \ {p} \in SUBSET (Peer \ Inbound)
      BY <1>0, <2>5 DEF CoolDown, SyncState
    <3>2. Touched(s', s)
      BY <1>0, <3>1 DEF Touched, Same, SyncState
    <3> QED BY <1>0, <3>2, TouchedKeeps
  <2>6. ASSUME NEW p \in Peer, Announce(p) PROVE Sound(s')
    BY <2>6, AnnounceOK
  <2>7. CASE Retry
    BY <1>0, <2>7, StartSyncOK DEF Retry
  <2>8. CASE Stall
    BY <1>0, <2>8, StalledOK DEF Stall
  <2>9. CASE Submit
    <3>1. PICK p \in Peer : s.best < s.tip[p]
      BY <2>9 DEF Submit
    <3>2. s.best + 1 \in Height
      <4>1. s.best \in Height /\ s.tip[p] \in Height
        BY <1>0 DEF SyncState
      <4> QED BY <3>1, <4>1, MarkInt DEF Height
    <3>3. Touched(s', s)
      BY <1>0, <2>9, <3>2, ProcessBlockOK DEF Submit
    <3> QED BY <1>0, <3>3, TouchedKeeps
  <2>10. CASE UNCHANGED vars
    BY <1>0, <2>10 DEF vars
  <2> QED BY <2>1, <2>2, <2>3, <2>4, <2>5, <2>6, <2>7, <2>8, <2>9, <2>10 DEF Next
<1> QED BY <1>1, <1>2 DEF SyncInv

\* The inductive invariant of the sync manager.
THEOREM SyncInvSafe == Spec => []SyncInv
<1>1. SyncInv /\ [Next]_vars => SyncInv'
  BY SyncNext
<1> QED BY <1>1, SyncInit, PTL DEF Spec

\* manager.go, handleBlockMsg, handleHeadersMsg and fetchHeaderBlocks: whatever
\* peers leave, stall or answer late, a node in headers-first mode has a next
\* checkpoint and a sync peer with its state.
THEOREM NilSafeSafe == Spec => []NilSafe
<1>1. SyncInv => NilSafe
  BY DEF SyncInv, Sound, Synced, NilSafe
<1> QED BY <1>1, SyncInvSafe, PTL

\* manager.go, clearRequestedState and its callers: no mark in requestedBlocks
\* outlives the peer that was asked, and the state keeps its type.
THEOREM RequestsOwnedSafe == Spec => []RequestsOwned
<1>1. SyncInv => RequestsOwned
  BY DEF SyncInv, Sound, Kept, Owned, RequestsOwned, SyncTypeOK
<1> QED BY <1>1, SyncInvSafe, PTL

\* manager.go, handleHeadersMsg and resetHeaderState: headers of an earlier
\* sync never leave a gap in the list.
THEOREM ListLinkedSafe == Spec => []ListLinked
<1>1. SyncInv => ListLinked
  BY DEF SyncInv, Sound, Kept, Linked, ListLinked
<1> QED BY <1>1, SyncInvSafe, PTL
=============================================================================

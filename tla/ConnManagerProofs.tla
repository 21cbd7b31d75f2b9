-------------------------- MODULE ConnManagerProofs --------------------------
(***************************************************************************)
(* Safety of the connection manager and the server's peer lists for every  *)
(* target, number of permanent peers, limit, and number of commands and    *)
(* faults.  The argument is about one request at a time: at any moment at  *)
(* most one goroutine, timer or peer holds it.                             *)
(***************************************************************************)
EXTENDS ConnManager, FiniteSetTheorems, WellFoundedInduction, TLAPS

\* A server peer runs on request r.
Runs(r) == \E p \in Peer : peers[p].stage # "free" /\ peers[p].req = r

\* Request r has at most one holder (h: it is a peer), and who holds it decides
\* where connHandler has it.
Held(m, r, h) ==
  /\ \A op \in Op : m.going[<<op, r>>] \in {0, 1} /\ (h => m.going[<<op, r>>] = 0)
  /\ \A op1, op2 \in Op : m.going[<<op1, r>>] = 1 /\ m.going[<<op2, r>>] = 1 => op1 = op2
  /\ r \in m.pending <=>
       \/ \E op \in {"address", "dial", "replace"} : m.going[<<op, r>>] = 1
       \/ m.going[<<"connect", r>>] = 1 /\ m.state[r] # "unused"
  /\ r \in m.conns <=> h \/ m.going[<<"onconnection", r>>] = 1
  /\ r \in m.pending => m.state[r] \in {"pending", "failing"}
  /\ Perm(m, r) => m.going[<<"replace", r>>] = 0

HeldInv == \A r \in Req : Held(cm, r, Runs(r))

\* No two peers run on the same request.
PeerInv == \A p, q \in Peer :
  /\ peers[p].stage = "free" => peers[p] = NoPeer
  /\ peers[p].req # 0 /\ peers[p].req = peers[q].req => p = q

ConnInv ==
  ConnTypeOK /\ HeldInv /\ PeerInv /\ SlotsKept /\ GroupsExact /\ SyncPeersLive

-----------------------------------------------------------------------------
(* connHandler's helpers, one request at a time                              *)

\* No goroutine or timer is at work for r, or exactly one of kind o is.
Idle(m, r) == \A op \in Op : m.going[<<op, r>>] = 0
Only(m, r, o) == \A op \in Op : m.going[<<op, r>>] = IF op = o THEN 1 ELSE 0

\* From m to n nothing changed for the other requests.
Frame(m, n, r) ==
  /\ n \in CM
  /\ \A s \in Req : s # r =>
       /\ n.kind[s] = m.kind[s] /\ n.state[s] = m.state[s]
       /\ s \in n.pending <=> s \in m.pending
       /\ s \in n.conns <=> s \in m.conns
       /\ \A op \in Op : n.going[<<op, s>>] = m.going[<<op, s>>]

LEMMA FrameTrans ==
  ASSUME NEW m, NEW n, NEW k, NEW r, Frame(m, n, r), Frame(n, k, r)
  PROVE  Frame(m, k, r)
BY DEF Frame

LEMMA CMFields ==
  ASSUME NEW m \in CM
  PROVE  /\ m = [kind |-> m.kind, state |-> m.state, pending |-> m.pending,
                 conns |-> m.conns, going |-> m.going, new |-> m.new]
         /\ m.kind \in [Req -> {"auto", "perm", "once"}] /\ m.state \in [Req -> State]
         /\ m.pending \subseteq Req /\ m.conns \subseteq Req
         /\ m.going \in [Op \X Req -> 0..2] /\ m.new \in Nat
BY DEF CM

\* A goroutine ends.
LEMMA RanDoes ==
  ASSUME NEW m \in CM, NEW r \in Req, NEW h \in BOOLEAN, Held(m, r, h),
         NEW o \in Op, m.going[<<o, r>>] > 0
  PROVE  /\ Frame(m, Ran(m, o, r), r) /\ Idle(Ran(m, o, r), r) /\ ~h
         /\ Ran(m, o, r).kind = m.kind /\ Ran(m, o, r).state = m.state
         /\ Ran(m, o, r).pending = m.pending /\ Ran(m, o, r).conns = m.conns
         /\ Ran(m, o, r).new = m.new
<1> DEFINE g == [m.going EXCEPT ![<<o, r>>] = @ - 1]
<1>1. Ran(m, o, r) = [kind |-> m.kind, state |-> m.state, pending |-> m.pending,
                      conns |-> m.conns, going |-> g, new |-> m.new]
  BY CMFields DEF Ran
<1>2. <<o, r>> \in Op \X Req /\ m.going[<<o, r>>] = 1
  BY DEF Held
<1>3. g \in [Op \X Req -> 0..2] /\ g[<<o, r>>] = 0
      /\ \A x \in Op \X Req : x # <<o, r>> => g[x] = m.going[x]
  BY <1>2, CMFields
<1>4. Ran(m, o, r) \in CM
  BY <1>1, <1>3, CMFields DEF CM
<1>5. \A op \in Op : op # o => <<op, r>> # <<o, r>> /\ <<op, r>> \in Op \X Req /\ m.going[<<op, r>>] = 0
  BY <1>2 DEF Held
<1>6. Idle(Ran(m, o, r), r)
  BY <1>1, <1>3, <1>5 DEF Idle
<1>7. \A s \in Req, op \in Op : s # r => g[<<op, s>>] = m.going[<<op, s>>]
  BY <1>3
<1>8. Frame(m, Ran(m, o, r), r)
  BY <1>1, <1>4, <1>7 DEF Frame
<1>9. ~h
  BY <1>2 DEF Held
<1> QED
  BY <1>1, <1>6, <1>8, <1>9

\* A goroutine or a timer is started.
LEMMA GoDoes ==
  ASSUME NEW m \in CM, NEW r \in Req, Idle(m, r), NEW o \in Op
  PROVE  /\ Frame(m, Go(m, o, r), r) /\ Only(Go(m, o, r), r, o)
         /\ Go(m, o, r).kind = m.kind /\ Go(m, o, r).state = m.state
         /\ Go(m, o, r).pending = m.pending /\ Go(m, o, r).conns = m.conns
         /\ Go(m, o, r).new = m.new
<1> DEFINE g == [m.going EXCEPT ![<<o, r>>] = @ + 1]
<1>1. Go(m, o, r) = [kind |-> m.kind, state |-> m.state, pending |-> m.pending,
                     conns |-> m.conns, going |-> g, new |-> m.new]
  <2>1. Go(m, o, r) = [m EXCEPT !.going = g]
    BY DEF Go
  <2> QED
    BY <2>1, CMFields
<1>2. <<o, r>> \in Op \X Req /\ m.going[<<o, r>>] = 0
  BY DEF Idle
<1>3. g \in [Op \X Req -> 0..2] /\ g[<<o, r>>] = 1
      /\ \A x \in Op \X Req : x # <<o, r>> => g[x] = m.going[x]
  BY <1>2, CMFields
<1>4. Go(m, o, r) \in CM
  BY <1>1, <1>3, CMFields DEF CM
<1>5. \A op \in Op : op # o => <<op, r>> # <<o, r>> /\ <<op, r>> \in Op \X Req /\ m.going[<<op, r>>] = 0
  BY DEF Idle
<1>6. Only(Go(m, o, r), r, o)
  BY <1>1, <1>3, <1>5 DEF Only
<1>7. \A s \in Req, op \in Op : s # r => g[<<op, s>>] = m.going[<<op, s>>]
  BY <1>3
<1>8. Frame(m, Go(m, o, r), r)
  BY <1>1, <1>4, <1>7 DEF Frame
<1> QED
  BY <1>1, <1>6, <1>8

\* Request r has moved on from m to n: it has one holder again, a goroutine or
\* a timer.
Moved(m, n, r) ==
  /\ Frame(m, n, r) /\ Held(n, r, FALSE)
  /\ n.new = m.new /\ n.kind = m.kind
  /\ \E op \in Op : n.going[<<op, r>>] = 1

\* Request r is given up from m to n.
GivenUp(m, n, r) ==
  /\ Frame(m, n, r) /\ Held(n, r, FALSE) /\ Idle(n, r)
  /\ n.new = m.new /\ n.kind = m.kind

\* n is m with the fields of request r set.
Sets(m, n, r, st, P, C) ==
  /\ n \in CM /\ n.kind = m.kind /\ n.state = [m.state EXCEPT ![r] = st]
  /\ n.pending = P /\ n.conns = C /\ n.going = m.going /\ n.new = m.new

LEMMA FieldsDo ==
  ASSUME NEW m \in CM, NEW n, NEW r \in Req, NEW st, NEW P, NEW C, Sets(m, n, r, st, P, C), Idle(m, r),
         \A s \in Req : s # r => (s \in P <=> s \in m.pending) /\ (s \in C <=> s \in m.conns)
  PROVE  /\ Frame(m, n, r) /\ Idle(n, r) /\ n.state[r] = st /\ n.kind = m.kind
         /\ n.new = m.new /\ n.pending = P /\ n.conns = C
<1>1. n.state[r] = st /\ \A s \in Req : s # r => n.state[s] = m.state[s]
  BY CMFields DEF Sets
<1>2. Frame(m, n, r)
  BY <1>1 DEF Frame, Sets
<1> QED
  BY <1>1, <1>2 DEF Idle, Sets

LEMMA OnlyHeld ==
  ASSUME NEW n, NEW r, NEW o \in {"address", "dial", "replace", "connect"}, Only(n, r, o),
         r \in n.pending, r \notin n.conns, n.state[r] \in {"pending", "failing"},
         Perm(n, r) => o # "replace"
  PROVE  Held(n, r, FALSE) /\ \E op \in Op : n.going[<<op, r>>] = 1
<1>1. o \in Op
  BY DEF Op
<1> QED
  BY <1>1 DEF Held, Only, Op

\* handleFailedConn, for a request that is pending.
LEMMA HandleFailedConnDoes ==
  ASSUME NEW m \in CM, NEW r \in Req, Idle(m, r), r \in m.pending, r \notin m.conns,
         m.state[r] \in {"pending", "failing"}
  PROVE  Moved(m, HandleFailedConn(m, r), r)
<1> DEFINE o == IF Perm(m, r) THEN "connect" ELSE "replace"
           n == Go(m, o, r)
<1>1. o \in Op /\ o \in {"address", "dial", "replace", "connect"}
  BY DEF Op
<1>2. /\ Frame(m, n, r) /\ Only(n, r, o) /\ n.kind = m.kind /\ n.state = m.state
      /\ n.pending = m.pending /\ n.conns = m.conns /\ n.new = m.new
  BY <1>1, GoDoes
<1>3. Perm(n, r) => o # "replace"
  BY <1>2 DEF Perm
<1> HIDE DEF o, n
<1>4. Held(n, r, FALSE) /\ \E op \in Op : n.going[<<op, r>>] = 1
  BY <1>1, <1>2, <1>3, OnlyHeld
<1>5. Moved(m, n, r)
  BY <1>2, <1>4 DEF Moved
<1> QED
  BY <1>5 DEF HandleFailedConn, o, n

LEMMA MovedAfter ==
  ASSUME NEW m, NEW n, NEW k, NEW r, Frame(m, n, r), n.new = m.new, n.kind = m.kind, Moved(n, k, r)
  PROVE  Moved(m, k, r)
<1>1. Frame(m, k, r)
  BY FrameTrans DEF Moved
<1> QED
  BY <1>1 DEF Moved

\* handleFailed: a pending request is tried again or replaced.
LEMMA HandleFailedDoes ==
  ASSUME NEW m \in CM, NEW r \in Req, Idle(m, r), r \in m.pending, r \notin m.conns
  PROVE  Moved(m, HandleFailed(m, r), r)
<1> DEFINE n == [m EXCEPT !.state[r] = "failing"]
<1>1. Sets(m, n, r, "failing", m.pending, m.conns)
  BY DEF CM, State, Sets
<1> HIDE DEF n
<1>2. /\ Frame(m, n, r) /\ Idle(n, r) /\ n.state[r] = "failing" /\ n.kind = m.kind
      /\ n.new = m.new /\ n.pending = m.pending /\ n.conns = m.conns
  BY <1>1, FieldsDo
<1>3. Moved(n, HandleFailedConn(n, r), r)
  BY <1>2, HandleFailedConnDoes DEF Frame
<1>4. HandleFailed(m, r) = HandleFailedConn(n, r)
  BY DEF HandleFailed, n
<1> QED
  BY <1>2, <1>3, <1>4, MovedAfter

\* handleConnected: a pending request is established.
LEMMA HandleConnectedDoes ==
  ASSUME NEW m \in CM, NEW r \in Req, Idle(m, r), r \in m.pending, r \notin m.conns
  PROVE  Moved(m, HandleConnected(m, r), r)
<1> DEFINE n == [m EXCEPT !.state[r] = "established", !.conns = @ \cup {r}, !.pending = @ \ {r}]
<1>1. Sets(m, n, r, "established", m.pending \ {r}, m.conns \cup {r})
  BY DEF CM, State, Sets
<1> HIDE DEF n
<1>2. /\ Frame(m, n, r) /\ Idle(n, r) /\ n.kind = m.kind
      /\ n.new = m.new /\ n.pending = m.pending \ {r} /\ n.conns = m.conns \cup {r}
  BY <1>1, FieldsDo
<1> DEFINE k == Go(n, "onconnection", r)
<1>3. /\ Frame(n, k, r) /\ Only(k, r, "onconnection") /\ k.kind = n.kind /\ k.new = n.new
      /\ k.pending = n.pending /\ k.conns = n.conns
  <2>1. n \in CM /\ "onconnection" \in Op
    BY <1>2 DEF Frame, Op
  <2> QED
    BY <1>2, <2>1, GoDoes
<1> HIDE DEF k
<1>4. Held(k, r, FALSE) /\ \E op \in Op : k.going[<<op, r>>] = 1
  BY <1>2, <1>3 DEF Held, Only, Op
<1>5. HandleConnected(m, r) = k
  BY DEF HandleConnected, n, k
<1>6. Frame(m, k, r)
  BY <1>2, <1>3, FrameTrans
<1> QED
  BY <1>2, <1>3, <1>4, <1>5, <1>6 DEF Moved

\* registerPending.
LEMMA RegisterDoes ==
  ASSUME NEW m \in CM, NEW r \in Req, Idle(m, r)
  PROVE  /\ Frame(m, RegisterPending(m, r), r) /\ Idle(RegisterPending(m, r), r)
         /\ RegisterPending(m, r).kind = m.kind /\ RegisterPending(m, r).new = m.new
         /\ RegisterPending(m, r).state[r] = "pending"
         /\ RegisterPending(m, r).pending = m.pending \cup {r}
         /\ RegisterPending(m, r).conns = m.conns
<1> DEFINE n == RegisterPending(m, r)
<1>1. Sets(m, n, r, "pending", m.pending \cup {r}, m.conns)
  BY DEF CM, State, Sets, RegisterPending
<1> HIDE DEF n
<1>4. /\ Frame(m, n, r) /\ Idle(n, r) /\ n.state[r] = "pending" /\ n.kind = m.kind
      /\ n.new = m.new /\ n.pending = m.pending \cup {r} /\ n.conns = m.conns
  BY <1>1, FieldsDo
<1> QED
  BY <1>4 DEF n

\* A pending request that nobody holds gets a goroutine.
LEMMA GoPending ==
  ASSUME NEW m \in CM, NEW r \in Req, Idle(m, r), r \in m.pending, r \notin m.conns,
         m.state[r] \in {"pending", "failing"}, NEW o \in {"address", "dial", "connect"}
  PROVE  Moved(m, Go(m, o, r), r)
<1> DEFINE n == Go(m, o, r)
<1>1. o \in Op /\ o \in {"address", "dial", "replace", "connect"} /\ o # "replace"
  BY DEF Op
<1>2. /\ Frame(m, n, r) /\ Only(n, r, o) /\ n.kind = m.kind /\ n.state = m.state
      /\ n.pending = m.pending /\ n.conns = m.conns /\ n.new = m.new
  BY <1>1, GoDoes
<1> HIDE DEF n
<1>3. Held(n, r, FALSE) /\ \E op \in Op : n.going[<<op, r>>] = 1
  BY <1>1, <1>2, OnlyHeld, ZenonT(40)
<1>4. Moved(m, n, r)
  BY <1>2, <1>3 DEF Moved
<1> QED
  BY <1>4 DEF n

\* Connect: a request that is pending, or new, is dialled.
LEMMA StartDialDoes ==
  ASSUME NEW m \in CM, NEW r \in Req, Idle(m, r), r \notin m.conns,
         \/ r \in m.pending /\ m.state[r] \in {"pending", "failing"}
         \/ m.state[r] = "unused"
  PROVE  Moved(m, StartDial(m, r), r)
<1>1. CASE m.state[r] = "unused"
  <2> DEFINE n == RegisterPending(m, r)
  <2>1. /\ Frame(m, n, r) /\ Idle(n, r) /\ n.kind = m.kind /\ n.new = m.new
        /\ n.state[r] = "pending" /\ n.pending = m.pending \cup {r} /\ n.conns = m.conns
    BY RegisterDoes
  <2>2. StartDial(m, r) = Go(n, "dial", r)
    BY <1>1 DEF StartDial
  <2> HIDE DEF n
  <2>3. Moved(n, Go(n, "dial", r), r)
    BY <2>1, GoPending DEF Frame
  <2> QED
    BY <2>1, <2>2, <2>3, MovedAfter
<1>2. CASE r \in m.pending /\ m.state[r] \in {"pending", "failing"}
  <2>1. StartDial(m, r) = Go(m, "dial", r)
    BY <1>2 DEF StartDial
  <2> QED
    BY <1>2, <2>1, GoPending
<1> QED
  BY <1>1, <1>2

\* handleDisconnected without a retry.
LEMMA RemoveDoes ==
  ASSUME NEW m \in CM, NEW r \in Req, Idle(m, r), r \notin m.pending \/ r \notin m.conns,
         r \in m.pending \cup m.conns
  PROVE  GivenUp(m, Remove(m, r), r)
<1> DEFINE st == IF r \in m.conns THEN "disconnected" ELSE "canceled"
           P == m.pending \ {r}
           C == m.conns \ {r}
           n == Remove(m, r)
<1>1. Sets(m, n, r, st, P, C)
  <2>1. CASE r \in m.conns
    <3>1. n = [[m EXCEPT !.conns = C] EXCEPT !.state[r] = "disconnected"] /\ P = m.pending
      BY <2>1 DEF Remove, HandleDisconnected
    <3>2. st = "disconnected" /\ P \in SUBSET Req /\ C \in SUBSET Req
      BY <2>1, CMFields
    <3> HIDE DEF n, st, P, C
    <3> QED
      BY <3>1, <3>2 DEF CM, State, Sets
  <2>2. CASE r \notin m.conns
    <3>1. n = [m EXCEPT !.state[r] = "canceled", !.pending = P] /\ C = m.conns
      BY <2>2 DEF Remove, HandleDisconnected
    <3>2. st = "canceled" /\ P \in SUBSET Req /\ C \in SUBSET Req
      BY <2>2, CMFields
    <3> HIDE DEF n, st, P, C
    <3> QED
      BY <3>1, <3>2 DEF CM, State, Sets
  <2> QED
    BY <2>1, <2>2
<1>3. \A s \in Req : s # r => (s \in P <=> s \in m.pending) /\ (s \in C <=> s \in m.conns)
  OBVIOUS
<1>4. r \notin P /\ r \notin C
  OBVIOUS
<1> HIDE DEF n, st, P, C
<1>5. /\ Frame(m, n, r) /\ Idle(n, r) /\ n.kind = m.kind /\ n.new = m.new
      /\ n.pending = P /\ n.conns = C
  BY <1>1, <1>3, FieldsDo
<1>6. Held(n, r, FALSE)
  BY <1>4, <1>5 DEF Held, Idle, Op
<1>7. GivenUp(m, n, r)
  BY <1>5, <1>6 DEF GivenUp
<1> QED
  BY <1>7 DEF n

\* handleDisconnected with a retry, for a permanent request.
LEMMA DisconnectDoes ==
  ASSUME NEW m \in CM, NEW r \in Req, Idle(m, r), r \notin m.pending, r \in m.conns, Perm(m, r)
  PROVE  Moved(m, Disconnect(m, r), r)
<1> DEFINE C == m.conns \ {r}
           n == [m EXCEPT !.conns = C]
           k == RegisterPending(n, r)
<1>2. /\ n \in CM /\ n.kind = m.kind /\ n.new = m.new /\ n.conns = C /\ n.pending = m.pending
      /\ n.state = m.state /\ n.going = m.going
  BY DEF CM
<1>3. Disconnect(m, r) = HandleFailedConn(k, r)
  BY DEF Disconnect, HandleDisconnected
<1> HIDE DEF n
<1>4. Frame(m, n, r) /\ Idle(n, r)
  BY <1>2 DEF Frame, Idle
<1>5. /\ Frame(n, k, r) /\ Idle(k, r) /\ k.kind = n.kind /\ k.new = n.new
      /\ k.state[r] = "pending" /\ k.pending = n.pending \cup {r} /\ k.conns = n.conns
  BY <1>2, <1>4, RegisterDoes
<1> HIDE DEF k
<1>6. Moved(k, HandleFailedConn(k, r), r)
  BY <1>2, <1>5, HandleFailedConnDoes DEF Frame
<1>7. Frame(m, k, r)
  BY <1>4, <1>5, FrameTrans
<1> QED
  BY <1>2, <1>3, <1>5, <1>6, <1>7, MovedAfter

\* NewConnReq is entered once more.
LEMMA NewDoes ==
  ASSUME NEW m \in CM, NEW r
  PROVE  /\ Frame(m, New(m), r) /\ New(m).new = m.new + 1 /\ New(m).kind = m.kind
         /\ New(m).state = m.state /\ New(m).pending = m.pending
         /\ New(m).conns = m.conns /\ New(m).going = m.going
<1> DEFINE n == New(m)
<1>1. /\ n \in CM /\ n.kind = m.kind /\ n.state = m.state /\ n.pending = m.pending
      /\ n.conns = m.conns /\ n.going = m.going /\ n.new = m.new + 1
  BY DEF CM, New
<1> HIDE DEF n
<1>2. Frame(m, n, r)
  BY <1>1 DEF Frame
<1> QED
  BY <1>1, <1>2 DEF n

\* A request is given up and another one takes its slot.
Replaced(m, n, r) ==
  /\ Frame(m, n, r) /\ Held(n, r, FALSE) /\ Idle(n, r)
  /\ n.new = m.new + 1 /\ n.kind = m.kind

LEMMA ReplacedBy ==
  ASSUME NEW m \in CM, NEW r \in Req, NEW k, GivenUp(m, k, r)
  PROVE  Replaced(m, New(k), r)
<1>1. k \in CM
  BY DEF GivenUp, Frame
<1>2. /\ Frame(k, New(k), r) /\ New(k).new = k.new + 1 /\ New(k).kind = k.kind
      /\ New(k).state = k.state /\ New(k).pending = k.pending
      /\ New(k).conns = k.conns /\ New(k).going = k.going
  BY <1>1, NewDoes
<1> DEFINE n == New(k)
<1> HIDE DEF n
<1>3. Frame(m, n, r)
  BY <1>2, FrameTrans DEF GivenUp, n
<1>4. Held(n, r, FALSE) /\ Idle(n, r)
  BY <1>2 DEF GivenUp, Held, Idle, Perm, n
<1>5. Replaced(m, n, r)
  BY <1>2, <1>3, <1>4 DEF Replaced, GivenUp, n
<1> QED
  BY <1>5 DEF n

\* A connection ended: a permanent request is dialled again, another replaced.
LEMMA EndedDoes ==
  ASSUME NEW m \in CM, NEW r \in Req, NEW p, Idle(m, r), r \notin m.pending, r \in m.conns
  PROVE  /\ Perm(m, r) => Moved(m, Ended(m, r, p), r)
         /\ ~Perm(m, r) => Replaced(m, Ended(m, r, p), r)
<1>1. CASE Perm(m, r)
  <2>1. Moved(m, Disconnect(m, r), r)
    BY <1>1, DisconnectDoes
  <2> QED
    BY <1>1, <2>1 DEF Ended
<1>2. CASE ~Perm(m, r)
  <2>1. GivenUp(m, Remove(m, r), r)
    BY RemoveDoes
  <2>2. Replaced(m, New(Remove(m, r)), r)
    BY <2>1, ReplacedBy
  <2> QED
    BY <1>2, <2>2 DEF Ended
<1> QED
  BY <1>1, <1>2

-----------------------------------------------------------------------------
(* From one request to all of them                                           *)

LEMMA ReqPeer ==
  /\ Req \subseteq Nat \ {0} /\ Peer \subseteq Nat
  /\ IsFiniteSet(Req) /\ IsFiniteSet(Peer)
<1>1. AddPeers + Target + MaxCalls \in Nat /\ AddPeers + Target + MaxCalls + MaxInbound + 1 \in Nat
  BY ConnAssumption
<1>2. Req \subseteq Nat \ {0} /\ Peer \subseteq Nat
  BY <1>1 DEF Req, Peer
<1>3. IsFiniteSet(Req)
  BY <1>1, FS_Interval DEF Req
<1>4. IsFiniteSet(Peer)
  BY <1>1, FS_Interval DEF Peer
<1> QED
  BY <1>2, <1>3, <1>4

LEMMA LeastNat ==
  ASSUME NEW T \in SUBSET Nat, T # {}
  PROVE  Min(T) \in T
<1> DEFINE R == OpToRel(<, Nat)
<1>1. PICK x \in T : \A y \in T : <<y, x>> \notin R
  BY NatLessThanWellFounded, WFMin, Zenon
<1>2. \A y \in T : y \in Nat /\ x \in Nat /\ ~(y < x)
  BY <1>1 DEF OpToRel
<1>3. \A y \in T : x <= y
  BY <1>2
<1> QED
  BY <1>3 DEF Min

LEMMA HeldMeans ==
  ASSUME NEW m \in CM, NEW r \in Req, NEW h \in BOOLEAN, Held(m, r, h)
  PROVE  /\ (r \in m.pending \cup m.conns \/ (\E op \in Op : m.going[<<op, r>>] > 0) \/ h)
            <=> (h \/ \E op \in Op : m.going[<<op, r>>] = 1)
         /\ ~(r \in m.pending /\ r \in m.conns)
         /\ r \in m.conns => m.going[<<"connect", r>>] = 0 
BY DEF Held, Op

LEMMA HeldKept ==
  ASSUME HeldInv, NEW r \in Req, Frame(cm, cm', r), Held(cm', r, Runs(r)'),
         \A s \in Req : s # r => (Runs(s)' <=> Runs(s))
  PROVE  HeldInv'
<1>1. ASSUME NEW s \in Req, s # r
      PROVE  Held(cm', s, Runs(s)')
  <2>1. Held(cm, s, Runs(s))
    BY DEF HeldInv
  <2>2. Runs(s)' <=> Runs(s)
    BY <1>1
  <2>3. /\ cm'.kind[s] = cm.kind[s] /\ cm'.state[s] = cm.state[s]
        /\ s \in cm'.pending <=> s \in cm.pending
        /\ s \in cm'.conns <=> s \in cm.conns
        /\ \A op \in Op : cm'.going[<<op, s>>] = cm.going[<<op, s>>]
    BY <1>1 DEF Frame
  <2> QED
    BY <2>1, <2>2, <2>3 DEF Held, Perm, Op
<1> QED
  BY <1>1 DEF HeldInv

\* Who is counted in SlotsKept.
Counts(m, r, h) == (h \/ \E op \in Op : m.going[<<op, r>>] = 1) /\ ~Perm(m, r)

LEMMA LiveIs ==
  ASSUME ConnTypeOK, HeldInv
  PROVE  /\ \A r \in Req : r \in Live <=> Counts(cm, r, Runs(r))
         /\ IsFiniteSet(Live) /\ Live \subseteq Req
<1>1. ASSUME NEW r \in Req
      PROVE  Referenced(r) <=> (Runs(r) \/ \E op \in Op : cm.going[<<op, r>>] = 1)
  <2>1. cm \in CM /\ Held(cm, r, Runs(r)) /\ Runs(r) \in BOOLEAN
    BY DEF ConnTypeOK, HeldInv, Runs
  <2>2. (r \in cm.pending \cup cm.conns \/ (\E op \in Op : cm.going[<<op, r>>] > 0) \/ Runs(r))
            <=> (Runs(r) \/ \E op \in Op : cm.going[<<op, r>>] = 1)
    BY <2>1, HeldMeans
  <2> QED
    BY <2>2 DEF Referenced, Runs
<1>2. Live \in SUBSET Req
  BY DEF Live
<1>3. IsFiniteSet(Live)
  BY <1>2, ReqPeer, FS_Subset
<1> QED
  BY <1>1, <1>2, <1>3 DEF Live, Counts

LEMMA LiveIsNext ==
  ASSUME ConnTypeOK', HeldInv'
  PROVE  /\ \A r \in Req : r \in Live' <=> Counts(cm', r, Runs(r)')
         /\ IsFiniteSet(Live') /\ Live' \subseteq Req
<1>1. ASSUME NEW r \in Req
      PROVE  Referenced(r)' <=> (Runs(r)' \/ \E op \in Op : cm'.going[<<op, r>>] = 1)
  <2>1. cm' \in CM /\ Held(cm', r, Runs(r)') /\ Runs(r)' \in BOOLEAN
    BY DEF ConnTypeOK, HeldInv, Runs
  <2>2. (r \in cm'.pending \cup cm'.conns \/ (\E op \in Op : cm'.going[<<op, r>>] > 0) \/ Runs(r)')
            <=> (Runs(r)' \/ \E op \in Op : cm'.going[<<op, r>>] = 1)
    BY <2>1, HeldMeans
  <2> QED
    BY <2>2 DEF Referenced, Runs
<1>2. Live' \in SUBSET Req
  BY DEF Live
<1>3. IsFiniteSet(Live')
  BY <1>2, ReqPeer, FS_Subset
<1> QED
  BY <1>1, <1>2, <1>3 DEF Live, Counts

\* A step that changes one request keeps the number of slots, give or take a
\* command.
LEMMA SlotsStep ==
  ASSUME ConnTypeOK, HeldInv, ConnTypeOK', HeldInv', SlotsKept, NEW r \in Req,
         Frame(cm, cm', r), \A s \in Req : s # r => (Runs(s)' <=> Runs(s)),
         NEW a \in 0..1, NEW b \in 0..1,
         Counts(cm, r, Runs(r)) <=> a = 1, Counts(cm', r, Runs(r)') <=> b = 1,
         cm'.new + b >= cm.new + a, cm'.new + b <= cm.new + a + (calls' - calls)
  PROVE  SlotsKept'
<1> DEFINE L == Live \ {r}
           n == Cardinality(L)
<1>1. /\ \A s \in Req : s \in Live <=> Counts(cm, s, Runs(s))
      /\ IsFiniteSet(Live) /\ Live \subseteq Req
  BY LiveIs
<1>2. /\ \A s \in Req : s \in Live' <=> Counts(cm', s, Runs(s)')
      /\ IsFiniteSet(Live') /\ Live' \subseteq Req
  BY LiveIsNext
<1>3. \A s \in Req : s # r => (Counts(cm, s, Runs(s)) <=> Counts(cm', s, Runs(s)'))
  BY DEF Counts, Frame, Perm
<1>4. Live' \ {r} = L
  BY <1>1, <1>2, <1>3
<1>5. Cardinality(Live) = n + a /\ n \in Nat
  <2>1. IsFiniteSet(L) /\ Cardinality(L) = IF r \in Live THEN Cardinality(Live) - 1 ELSE Cardinality(Live)
    BY <1>1, FS_RemoveElement
  <2>2. Cardinality(L) \in Nat /\ Cardinality(Live) \in Nat
    BY <1>1, <2>1, FS_CardinalityType
  <2> QED
    BY <1>1, <2>1, <2>2
<1>6. Cardinality(Live') = n + b
  <2>1. Cardinality(L) = IF r \in Live' THEN Cardinality(Live') - 1 ELSE Cardinality(Live')
    BY <1>2, <1>4, FS_RemoveElement, ZenonT(40)
  <2>2. Cardinality(L) \in Nat /\ Cardinality(Live') \in Nat
    BY <1>2, <1>5, FS_CardinalityType
  <2> QED
    BY <1>2, <2>1, <2>2
<1>7. cm.new \in Nat /\ cm'.new \in Nat /\ calls \in Nat /\ calls' \in Nat /\ Target \in Nat
  BY ConnAssumption DEF ConnTypeOK, CM
<1> HIDE DEF n
<1>8. cm.new + Cardinality(Live) \in Target..(Target + calls)
  BY DEF SlotsKept
<1>9. cm'.new + Cardinality(Live') \in Target..(Target + calls')
  BY <1>5, <1>6, <1>7, <1>8
<1> QED
  BY <1>9 DEF SlotsKept

\* A step that leaves the requests alone.
LEMMA SlotsSame ==
  ASSUME SlotsKept, ConnTypeOK, ConnTypeOK', HeldInv, cm' = cm, calls' >= calls,
         \A s \in Req : Runs(s)' <=> Runs(s)
  PROVE  SlotsKept' /\ HeldInv'
<1>1. HeldInv'
  <2>1. \A s \in Req : Held(cm, s, Runs(s)) => Held(cm, s, Runs(s)')
    BY DEF Held
  <2> QED
    BY <2>1 DEF HeldInv
<1>2. Live' = Live
  <2>1. \A s \in Req : Counts(cm, s, Runs(s)) <=> Counts(cm', s, Runs(s)')
    BY DEF Counts
  <2> QED
    BY <1>1, <2>1, LiveIs, LiveIsNext
<1>3. cm.new \in Nat /\ calls \in Nat /\ calls' \in Nat /\ Target \in Nat /\ Cardinality(Live) \in Nat
  BY ConnAssumption, LiveIs, FS_CardinalityType DEF ConnTypeOK, CM
<1>4. cm.new + Cardinality(Live) \in Target..(Target + calls)
  BY DEF SlotsKept
<1>5. cm'.new + Cardinality(Live') \in Target..(Target + calls')
  BY <1>2, <1>3, <1>4
<1> QED
  BY <1>1, <1>5 DEF SlotsKept

-----------------------------------------------------------------------------
(* The invariant holds at first and every step keeps it                      *)

LEMMA InitConn ==
  ASSUME Init
  PROVE  ConnInv
<1> DEFINE k == [r \in Req |-> IF r <= AddPeers THEN "perm" ELSE "auto"]
           g == [x \in Op \X Req |-> IF x[1] = "connect" /\ x[2] <= AddPeers THEN 1 ELSE 0]
<1>1. /\ cm.kind = k /\ cm.state = [r \in Req |-> "unused"] /\ cm.pending = {} /\ cm.conns = {}
      /\ cm.going = g /\ cm.new = Target
  BY DEF Init
<1>2. cm \in CM
  <2>1. k \in [Req -> {"auto", "perm", "once"}] /\ g \in [Op \X Req -> 0..2] /\ Target \in Nat
        /\ [r \in Req |-> "unused"] \in [Req -> State]
    BY ConnAssumption DEF State
  <2> HIDE DEF k, g
  <2>2. cm = [kind |-> k, state |-> [r \in Req |-> "unused"], pending |-> {}, conns |-> {},
              going |-> g, new |-> Target]
    BY DEF Init, k, g
  <2> QED
    BY <2>1, <2>2 DEF CM
<1>3. ConnTypeOK
  <2>1. NoPeer \in PeerRec
    BY DEF NoPeer, PeerRec
  <2>2. 0 \in 0..MaxCalls /\ 0 \in 0..MaxFaults
    BY ConnAssumption
  <2> QED
    BY <1>2, <2>1, <2>2 DEF Init, ConnTypeOK
<1>4. \A r \in Req : Runs(r) = FALSE
  BY DEF Init, Runs, NoPeer
<1>5. HeldInv
  <2>1. SUFFICES ASSUME NEW r \in Req PROVE Held(cm, r, FALSE)
    BY <1>4 DEF HeldInv
  <2>2. \A op \in Op : cm.going[<<op, r>>] = IF op = "connect" /\ r <= AddPeers THEN 1 ELSE 0
    BY <1>1
  <2>3. cm.state[r] = "unused" /\ r \notin cm.pending /\ r \notin cm.conns
    BY <1>1
  <2> QED
    BY <2>2, <2>3 DEF Held, Op
<1>6. PeerInv
  BY DEF Init, PeerInv, NoPeer
<1>7. SlotsKept
  <2>1. \A r \in Req : ~Counts(cm, r, FALSE)
    BY <1>1 DEF Counts, Perm, Op
  <2>2. Live = {}
    BY <1>3, <1>4, <1>5, <2>1, LiveIs
  <2> QED
    BY <1>1, <2>2, FS_EmptySet, ConnAssumption DEF SlotsKept, Init
<1>8. GroupsExact /\ SyncPeersLive
  <2>1. {p \in listed : ~Inbound(p)} = {}
    BY DEF Init
  <2> QED
    BY <2>1, FS_EmptySet DEF Init, GroupsExact, SyncPeersLive
<1> QED
  BY <1>3, <1>5, <1>6, <1>7, <1>8 DEF ConnInv

\* A request that nothing refers to.
LEMMA UnusedReq ==
  ASSUME ConnInv, Unused # {}
  PROVE  /\ Min(Unused) \in Req /\ Idle(cm, Min(Unused)) /\ ~Runs(Min(Unused))
         /\ Min(Unused) \notin cm.pending /\ Min(Unused) \notin cm.conns
<1> DEFINE r == Min(Unused)
<1>1. Unused \in SUBSET Nat
  BY ReqPeer DEF Unused
<1>2. r \in Unused
  BY <1>1, LeastNat
<1> HIDE DEF r
<1>3. r \in Req /\ ~Referenced(r)
  BY <1>2 DEF Unused
<1>4. Held(cm, r, Runs(r))
  BY <1>3 DEF ConnInv, HeldInv
<1>5. r \notin cm.pending /\ r \notin cm.conns /\ ~Runs(r) /\ \A op \in Op : ~(cm.going[<<op, r>>] > 0)
  BY <1>3 DEF Referenced, Runs
<1>6. Idle(cm, r)
  BY <1>4, <1>5 DEF Held, Idle
<1> QED
  BY <1>3, <1>5, <1>6 DEF r

\* What a step leaves alone when only cm, removed, calls and faults change.
LEMMA PeersSame ==
  ASSUME ConnInv, UNCHANGED <<peers, listed, groups, sync>>
  PROVE  PeerInv' /\ GroupsExact' /\ SyncPeersLive' /\ \A s \in Req : Runs(s)' <=> Runs(s)
<1>1. PeerInv' /\ SyncPeersLive'
  BY DEF ConnInv, PeerInv, SyncPeersLive
<1>2. GroupsExact'
  BY DEF ConnInv, GroupsExact, Inbound
<1> QED
  BY <1>1, <1>2 DEF Runs

\* A step of one request that no peer runs on: a and b say whether it counts
\* before and after.
LEMMA OneRequestKeeps ==
  ASSUME ConnInv, NEW r \in Req, Frame(cm, cm', r), Held(cm', r, FALSE), ~Runs(r),
         UNCHANGED <<peers, listed, groups, sync>>,
         removed' \subseteq Req, calls' \in 0..MaxCalls, faults' \in 0..MaxFaults,
         NEW a \in 0..1, NEW b \in 0..1,
         Counts(cm, r, FALSE) <=> a = 1, Counts(cm', r, FALSE) <=> b = 1,
         cm'.new + b >= cm.new + a, cm'.new + b <= cm.new + a + (calls' - calls)
  PROVE  ConnInv'
<1>1. PeerInv' /\ GroupsExact' /\ SyncPeersLive' /\ \A s \in Req : Runs(s)' <=> Runs(s)
  BY PeersSame
<1>2. ConnTypeOK'
  BY DEF ConnInv, ConnTypeOK, Frame
<1>3. Runs(r)' = FALSE /\ Runs(r) = FALSE
  BY <1>1 DEF Runs
<1>4. HeldInv'
  BY <1>1, <1>3, HeldKept DEF ConnInv
<1>5. SlotsKept'
  BY <1>1, <1>2, <1>3, <1>4, SlotsStep DEF ConnInv
<1> QED
  BY <1>1, <1>2, <1>4, <1>5 DEF ConnInv

\* A step of a request that keeps its slot.
LEMMA MovedKeeps ==
  ASSUME ConnInv, NEW r \in Req, Moved(cm, cm', r), ~Runs(r), \E op \in Op : cm.going[<<op, r>>] = 1,
         faults' \in 0..MaxFaults, UNCHANGED serverVars
  PROVE  ConnInv'
<1> DEFINE a == IF Perm(cm, r) THEN 0 ELSE 1
<1>1. UNCHANGED <<peers, listed, groups, sync>> /\ UNCHANGED <<removed, calls>>
  BY DEF serverVars
<1>2. removed' \subseteq Req /\ calls' \in 0..MaxCalls /\ a \in 0..1
  BY <1>1 DEF ConnInv, ConnTypeOK
<1>3. (Counts(cm, r, FALSE) <=> a = 1) /\ (Counts(cm', r, FALSE) <=> a = 1)
  BY DEF Counts, Moved, Perm
<1>4. cm'.new + a >= cm.new + a /\ cm'.new + a <= cm.new + a + (calls' - calls)
  BY <1>1 DEF Moved, ConnInv, ConnTypeOK, CM
<1> HIDE DEF a
<1> QED
  BY <1>1, <1>2, <1>3, <1>4, OneRequestKeeps DEF Moved

\* A step of a request that another one replaces.
LEMMA ReplacedKeeps ==
  ASSUME ConnInv, NEW r \in Req, Replaced(cm, cm', r), ~Runs(r), \E op \in Op : cm.going[<<op, r>>] = 1,
         ~Perm(cm, r), faults' \in 0..MaxFaults, UNCHANGED serverVars
  PROVE  ConnInv'
<1>1. UNCHANGED <<peers, listed, groups, sync>> /\ UNCHANGED <<removed, calls>>
  BY DEF serverVars
<1>2. removed' \subseteq Req /\ calls' \in 0..MaxCalls /\ 0 \in 0..1 /\ 1 \in 0..1
  BY <1>1 DEF ConnInv, ConnTypeOK
<1>3. (Counts(cm, r, FALSE) <=> 1 = 1) /\ (Counts(cm', r, FALSE) <=> 0 = 1)
  BY DEF Counts, Replaced, Perm, Idle
<1>4. cm'.new + 0 >= cm.new + 1 /\ cm'.new + 0 <= cm.new + 1 + (calls' - calls)
  BY <1>1 DEF Replaced, ConnInv, ConnTypeOK, CM
<1> QED
  BY <1>1, <1>2, <1>3, <1>4, OneRequestKeeps DEF Replaced

LEMMA FaultsKept ==
  ASSUME ConnTypeOK, Fault \/ NoFault
  PROVE  faults' \in 0..MaxFaults
BY ConnAssumption DEF ConnTypeOK, Fault, NoFault

\* A goroutine of a request ends; what it does next starts from here.
LEMMA Ends ==
  ASSUME ConnInv, NEW r \in Req, NEW o \in Op, cm.going[<<o, r>>] > 0
  PROVE  /\ ~Runs(r) /\ cm.going[<<o, r>>] = 1 /\ cm \in CM
         /\ Frame(cm, Ran(cm, o, r), r) /\ Idle(Ran(cm, o, r), r)
         /\ Ran(cm, o, r).kind = cm.kind /\ Ran(cm, o, r).state = cm.state
         /\ Ran(cm, o, r).pending = cm.pending /\ Ran(cm, o, r).conns = cm.conns
         /\ Ran(cm, o, r).new = cm.new
         /\ o \in {"address", "dial", "replace"} => r \in cm.pending /\ r \notin cm.conns
         /\ o = "connect" => r \notin cm.conns /\ (r \in cm.pending \/ cm.state[r] = "unused")
         /\ o = "onconnection" => r \in cm.conns /\ r \notin cm.pending
         /\ o = "replace" => ~Perm(cm, r)
         /\ r \in cm.pending => cm.state[r] \in {"pending", "failing"}
<1>1. Held(cm, r, Runs(r)) /\ cm \in CM /\ Runs(r) \in BOOLEAN
  BY DEF ConnInv, HeldInv, ConnTypeOK, Runs
<1>2. /\ ~Runs(r) /\ Frame(cm, Ran(cm, o, r), r) /\ Idle(Ran(cm, o, r), r)
      /\ Ran(cm, o, r).kind = cm.kind /\ Ran(cm, o, r).state = cm.state
      /\ Ran(cm, o, r).pending = cm.pending /\ Ran(cm, o, r).conns = cm.conns
      /\ Ran(cm, o, r).new = cm.new
  BY <1>1, RanDoes
<1>3. cm.going[<<o, r>>] = 1
  <2>1. cm.going[<<o, r>>] \in {0, 1}
    BY <1>1 DEF Held
  <2> QED
    BY <2>1
<1>4. \A op \in Op : op # o => cm.going[<<op, r>>] = 0
  BY <1>1, <1>3 DEF Held
<1>5. /\ o \in {"address", "dial", "replace"} => r \in cm.pending /\ r \notin cm.conns
      /\ o = "connect" => r \notin cm.conns /\ (r \in cm.pending \/ cm.state[r] = "unused")
      /\ o = "onconnection" => r \in cm.conns /\ r \notin cm.pending
      /\ o = "replace" => ~Perm(cm, r)
      /\ r \in cm.pending => cm.state[r] \in {"pending", "failing"}
  BY <1>1, <1>2, <1>3, <1>4 DEF Held, Op
<1> QED
  BY <1>1, <1>2, <1>3, <1>5

LEMMA MovedFrom ==
  ASSUME NEW m, NEW n, NEW k, NEW r, Frame(m, n, r), n.new = m.new, n.kind = m.kind
  PROVE  /\ Moved(n, k, r) => Moved(m, k, r)
         /\ Replaced(n, k, r) => Replaced(m, k, r)
<1>1. ASSUME Moved(n, k, r)
      PROVE  Moved(m, k, r)
  BY <1>1, MovedAfter
<1>2. ASSUME Replaced(n, k, r)
      PROVE  Replaced(m, k, r)
  <2>1. Frame(m, k, r)
    BY <1>2, FrameTrans DEF Replaced
  <2> QED
    BY <1>2, <2>1 DEF Replaced
<1> QED
  BY <1>1, <1>2

LEMMA GetNewAddressKeeps ==
  ASSUME ConnInv, NEW r \in Req, GetNewAddress(r)
  PROVE  ConnInv'
<1> DEFINE m == Ran(cm, "address", r)
<1>1. "address" \in Op /\ cm.going[<<"address", r>>] > 0 /\ UNCHANGED serverVars
  BY DEF GetNewAddress, Op
<1>2. /\ ~Runs(r) /\ cm.going[<<"address", r>>] = 1 /\ Frame(cm, m, r) /\ Idle(m, r) /\ m.kind = cm.kind
      /\ m.state = cm.state /\ m.new = cm.new /\ r \in m.pending /\ r \notin m.conns
      /\ m.state[r] \in {"pending", "failing"}
  BY <1>1, Ends
<1>m. m \in CM
  BY <1>2 DEF Frame
<1>3. /\ cm' = StartDial(m, r) \/ cm' = HandleFailed(m, r)
      /\ Fault \/ NoFault
  BY DEF GetNewAddress
<1> HIDE DEF m
<1>4. Moved(m, cm', r)
  BY <1>2, <1>m, <1>3, StartDialDoes, HandleFailedDoes
<1>5. Moved(cm, cm', r)
  BY <1>2, <1>4, MovedFrom
<1> QED
  BY <1>1, <1>2, <1>3, <1>5, FaultsKept, MovedKeeps DEF ConnInv

LEMMA ConnectKeeps ==
  ASSUME ConnInv, NEW r \in Req, Connect(r)
  PROVE  ConnInv'
<1> DEFINE m == Ran(cm, "connect", r)
<1>1. "connect" \in Op /\ cm.going[<<"connect", r>>] > 0 /\ UNCHANGED serverVars
  BY DEF Connect, Op
<1>2. /\ ~Runs(r) /\ cm.going[<<"connect", r>>] = 1 /\ Frame(cm, m, r) /\ Idle(m, r) /\ m.kind = cm.kind
      /\ m.state = cm.state /\ m.new = cm.new /\ r \notin m.conns
      /\ (r \in m.pending /\ m.state[r] \in {"pending", "failing"}) \/ m.state[r] = "unused"
     
  BY <1>1, Ends
<1>m. m \in CM
  BY <1>2 DEF Frame
<1>3. cm' = StartDial(m, r) /\ NoFault
  BY DEF Connect
<1> HIDE DEF m
<1>4. Moved(m, cm', r)
  BY <1>2, <1>m, <1>3, StartDialDoes
<1>5. Moved(cm, cm', r)
  BY <1>2, <1>4, MovedFrom
<1> QED
  BY <1>1, <1>2, <1>3, <1>5, FaultsKept, MovedKeeps DEF ConnInv

LEMMA DialKeeps ==
  ASSUME ConnInv, NEW r \in Req, Dial(r)
  PROVE  ConnInv'
<1> DEFINE m == Ran(cm, "dial", r)
<1>1. "dial" \in Op /\ cm.going[<<"dial", r>>] > 0 /\ UNCHANGED serverVars
  BY DEF Dial, Op
<1>2. /\ ~Runs(r) /\ cm.going[<<"dial", r>>] = 1 /\ Frame(cm, m, r) /\ Idle(m, r) /\ m.kind = cm.kind
      /\ m.state = cm.state /\ m.new = cm.new /\ r \in m.pending /\ r \notin m.conns
  BY <1>1, Ends
<1>m. m \in CM
  BY <1>2 DEF Frame
<1>3. /\ cm' = HandleConnected(m, r) \/ cm' = HandleFailed(m, r)
      /\ Fault \/ NoFault
  BY DEF Dial
<1> HIDE DEF m
<1>4. Moved(m, cm', r)
  BY <1>2, <1>m, <1>3, HandleConnectedDoes, HandleFailedDoes
<1>5. Moved(cm, cm', r)
  BY <1>2, <1>4, MovedFrom
<1> QED
  BY <1>1, <1>2, <1>3, <1>5, FaultsKept, MovedKeeps DEF ConnInv

LEMMA ReplaceKeeps ==
  ASSUME ConnInv, NEW r \in Req, Replace(r)
  PROVE  ConnInv'
<1> DEFINE m == Ran(cm, "replace", r)
<1>1. "replace" \in Op /\ cm.going[<<"replace", r>>] > 0 /\ UNCHANGED serverVars
  BY DEF Replace, Op
<1>2. /\ ~Runs(r) /\ cm.going[<<"replace", r>>] = 1 /\ Frame(cm, m, r) /\ Idle(m, r) /\ m.kind = cm.kind
      /\ m.state = cm.state /\ m.new = cm.new /\ r \in m.pending /\ r \notin m.conns
      /\ ~Perm(cm, r)
  BY <1>1, Ends
<1>m. m \in CM
  BY <1>2 DEF Frame
<1>3. cm' = New(Remove(m, r)) /\ NoFault
  BY DEF Replace
<1> HIDE DEF m
<1>4. Replaced(m, cm', r)
  BY <1>2, <1>m, <1>3, RemoveDoes, ReplacedBy
<1>5. Replaced(cm, cm', r)
  BY <1>2, <1>4, MovedFrom
<1> QED
  BY <1>1, <1>2, <1>3, <1>5, FaultsKept, ReplacedKeeps DEF ConnInv

LEMMA NewConnReqKeeps ==
  ASSUME ConnInv, NewConnReq
  PROVE  ConnInv'
<1> DEFINE r == Min(Unused)
           m == [cm EXCEPT !.new = @ - 1, !.kind[r] = "auto"]
           n == RegisterPending(m, r)
<1>1. /\ cm.new > 0 /\ Unused # {} /\ cm' = Go(n, "address", r) /\ removed' = removed \ {r}
      /\ UNCHANGED <<peers, listed, groups, sync>> /\ UNCHANGED <<calls, faults>>
  BY DEF NewConnReq
<1>2. r \in Req /\ Idle(cm, r) /\ ~Runs(r) /\ r \notin cm.pending /\ r \notin cm.conns
  BY <1>1, UnusedReq
<1> HIDE DEF r
<1>3. cm \in CM /\ cm.new \in Nat
  BY DEF ConnInv, ConnTypeOK, CM
<1>4. /\ m \in CM /\ m.kind = [cm.kind EXCEPT ![r] = "auto"] /\ m.state = cm.state
      /\ m.pending = cm.pending /\ m.conns = cm.conns /\ m.going = cm.going /\ m.new = cm.new - 1
  <2> DEFINE k == [cm EXCEPT !.new = @ - 1]
  <2>1. cm.new - 1 \in Nat
    BY <1>1, <1>3
  <2>2. /\ k \in CM /\ k.kind = cm.kind /\ k.state = cm.state
        /\ k.pending = cm.pending /\ k.conns = cm.conns /\ k.going = cm.going /\ k.new = cm.new - 1
    BY <1>3, <2>1 DEF CM
  <2>3. m = [k EXCEPT !.kind[r] = "auto"]
    OBVIOUS
  <2> HIDE DEF k, m
  <2> QED
    BY <1>2, <2>2, <2>3 DEF CM
<1> HIDE DEF m
<1>5. Frame(cm, m, r) /\ Idle(m, r) /\ m.kind[r] = "auto"
  BY <1>2, <1>3, <1>4, CMFields DEF Frame, Idle
<1>6. /\ Frame(m, n, r) /\ Idle(n, r) /\ n.kind = m.kind /\ n.new = m.new
      /\ n.state[r] = "pending" /\ n.pending = m.pending \cup {r} /\ n.conns = m.conns
  BY <1>2, <1>4, <1>5, RegisterDoes
<1> HIDE DEF n
<1>7. Moved(n, cm', r)
  BY <1>1, <1>2, <1>4, <1>6, GoPending DEF Frame
<1>8. Moved(m, cm', r)
  BY <1>6, <1>7, MovedFrom
<1>9. Frame(cm, cm', r) /\ Held(cm', r, FALSE) /\ cm'.new = cm.new - 1
  BY <1>4, <1>5, <1>8, FrameTrans DEF Moved
<1>10. removed' \subseteq Req /\ calls' \in 0..MaxCalls /\ faults' \in 0..MaxFaults /\ 0 \in 0..1 /\ 1 \in 0..1
  BY <1>1 DEF ConnInv, ConnTypeOK
<1>11. (Counts(cm, r, FALSE) <=> 0 = 1) /\ (Counts(cm', r, FALSE) <=> 1 = 1)
  <2>1. 0 # 1 /\ \A op \in Op : cm.going[<<op, r>>] # 1
    BY <1>2 DEF Idle
  <2>2. ~Counts(cm, r, FALSE)
    BY <2>1 DEF Counts
  <2>3. Counts(cm', r, FALSE)
    BY <1>5, <1>8 DEF Counts, Moved, Perm
  <2> QED
    BY <2>1, <2>2, <2>3, Zenon
<1>12. cm'.new + 1 >= cm.new + 0 /\ cm'.new + 1 <= cm.new + 0 + (calls' - calls)
  BY <1>1, <1>3, <1>9 DEF ConnInv, ConnTypeOK
<1> QED
  BY <1>1, <1>2, <1>9, <1>10, <1>11, <1>12, OneRequestKeeps

LEMMA ConnectNodeKeeps ==
  ASSUME ConnInv, NEW kind \in {"perm", "once"}, ConnectNode(kind)
  PROVE  ConnInv'
<1> DEFINE r == Min(Unused)
           m == [cm EXCEPT !.kind[r] = kind, !.state[r] = "unused"]
           b == IF kind = "perm" THEN 0 ELSE 1
<1>1. /\ Unused # {} /\ cm' = Go(m, "connect", r) /\ removed' = removed \ {r}
      /\ UNCHANGED <<peers, listed, groups, sync>> /\ UNCHANGED faults
      /\ calls < MaxCalls /\ calls' = calls + 1
  BY DEF ConnectNode, Call
<1>2. r \in Req /\ Idle(cm, r) /\ ~Runs(r) /\ r \notin cm.pending /\ r \notin cm.conns
  BY <1>1, UnusedReq
<1> HIDE DEF r
<1>3. cm \in CM /\ cm.new \in Nat
  BY DEF ConnInv, ConnTypeOK, CM
<1>4. /\ m \in CM /\ m.kind = [cm.kind EXCEPT ![r] = kind] /\ m.state = [cm.state EXCEPT ![r] = "unused"]
      /\ m.pending = cm.pending /\ m.conns = cm.conns /\ m.going = cm.going /\ m.new = cm.new
  BY <1>2, <1>3 DEF CM, State
<1> HIDE DEF m
<1>5. Frame(cm, m, r) /\ Idle(m, r) /\ m.kind[r] = kind /\ m.state[r] = "unused"
  BY <1>2, <1>3, <1>4, CMFields DEF Frame, Idle
<1>6. /\ Frame(m, cm', r) /\ Only(cm', r, "connect") /\ cm'.kind = m.kind /\ cm'.state = m.state
      /\ cm'.pending = m.pending /\ cm'.conns = m.conns /\ cm'.new = m.new
  <2>1. "connect" \in Op
    BY DEF Op
  <2> QED
    BY <2>1, <1>1, <1>2, <1>4, <1>5, GoDoes
<1>7. Frame(cm, cm', r)
  BY <1>5, <1>6, FrameTrans
<1>8. Held(cm', r, FALSE)
  BY <1>2, <1>4, <1>5, <1>6 DEF Held, Only, Op
<1>9. /\ removed' \subseteq Req /\ calls' \in 0..MaxCalls /\ faults' \in 0..MaxFaults
      /\ 0 \in 0..1 /\ b \in 0..1
  BY <1>1, ConnAssumption DEF ConnInv, ConnTypeOK
<1>10. (Counts(cm, r, FALSE) <=> 0 = 1) /\ (Counts(cm', r, FALSE) <=> b = 1)
  BY <1>2, <1>5, <1>6 DEF Counts, Perm, Idle, Only, Op
<1>11. cm'.new + b >= cm.new + 0 /\ cm'.new + b <= cm.new + 0 + (calls' - calls)
  BY <1>1, <1>3, <1>4, <1>6 DEF ConnInv, ConnTypeOK
<1> HIDE DEF b
<1> QED
  BY <1>1, <1>2, <1>7, <1>8, <1>9, <1>10, <1>11, OneRequestKeeps

-----------------------------------------------------------------------------
(* Peers                                                                     *)

\* The outbound peers on the server's lists.
Out == {p \in listed : ~Inbound(p)}

LEMMA PeerFields ==
  ASSUME ConnTypeOK, NEW p \in Peer
  PROVE  peers[p] \in PeerRec /\ peers[p].req \in Req \cup {0} /\ peers[p].up \in BOOLEAN
         /\ peers[p].stage \in {"free", "handshake", "adding", "handled"}
BY DEF ConnTypeOK, PeerRec

\* A peer that has not been handled is on no list.
LEMMA Unlisted ==
  ASSUME ConnInv, NEW p \in Peer, peers[p].stage # "handled"
  PROVE  p \notin listed /\ p \notin sync
BY DEF ConnInv, SyncPeersLive

\* A step of peers that changes no request and no peer's request.
LEMMA PeersKeep ==
  ASSUME ConnInv, cm' = cm, peers' \in [Peer -> PeerRec], removed' \subseteq Req,
         listed' \subseteq Peer, sync' \subseteq Peer,
         calls' \in 0..MaxCalls, calls' >= calls, faults' \in 0..MaxFaults,
         \A p \in Peer : /\ peers'[p].req = peers[p].req
                         /\ peers'[p].stage = "free" => peers[p].stage = "free" /\ peers'[p] = peers[p]
                         /\ peers[p].stage = "free" /\ peers'[p].stage # "free" => peers[p].req = 0,
         groups' = Cardinality(Out'), SyncPeersLive'
  PROVE  ConnInv'
<1>1. GroupsExact'
  BY DEF GroupsExact, Out
<1>2. ConnTypeOK'
  <2>1. IsFiniteSet(Out')
    <3>1. Out' \in SUBSET Peer
      BY DEF Out
    <3> QED
      BY <3>1, ReqPeer, FS_Subset
  <2>2. groups' \in Nat
    BY <2>1, FS_CardinalityType
  <2> QED
    BY <2>2 DEF ConnInv, ConnTypeOK
<1>3. \A s \in Req : Runs(s)' <=> Runs(s)
  <2>1. \A s \in Req : s # 0
    BY ReqPeer
  <2> QED
    BY <2>1 DEF Runs
<1>4. PeerInv'
  BY DEF ConnInv, PeerInv
<1>5. SlotsKept' /\ HeldInv'
  BY <1>2, <1>3, SlotsSame DEF ConnInv
<1> QED
  BY <1>1, <1>2, <1>4, <1>5 DEF ConnInv

LEMMA OutSame ==
  ASSUME ConnInv, \A p \in Peer : peers'[p].req = peers[p].req
  PROVE  /\ listed' = listed => Out' = Out
         /\ groups = Cardinality(Out) /\ IsFiniteSet(Out) /\ Out \subseteq Peer
<1>1. listed \subseteq Peer /\ groups = Cardinality(Out)
  BY DEF ConnInv, ConnTypeOK, GroupsExact, Out
<1>2. Out \in SUBSET Peer
  BY <1>1 DEF Out
<1>3. IsFiniteSet(Out)
  BY <1>2, ReqPeer, FS_Subset
<1>4. listed' = listed => Out' = Out
  BY <1>1 DEF Out, Inbound
<1> QED
  BY <1>1, <1>2, <1>3, <1>4

\* Closing connections leaves requests and stages alone.
LEMMA ShutDoes ==
  ASSUME ConnTypeOK, NEW S
  PROVE  /\ Shut(S) \in [Peer -> PeerRec]
         /\ \A p \in Peer : Shut(S)[p].req = peers[p].req /\ Shut(S)[p].stage = peers[p].stage
         /\ \A p \in Peer : peers[p] = NoPeer => Shut(S)[p] = peers[p]
<1>1. \A p \in Peer : Shut(S)[p] = IF p \in S THEN [peers[p] EXCEPT !.up = FALSE] ELSE peers[p]
  BY DEF Shut
<1>2. ASSUME NEW p \in Peer
      PROVE  /\ Shut(S)[p] \in PeerRec /\ Shut(S)[p].req = peers[p].req
             /\ Shut(S)[p].stage = peers[p].stage
             /\ peers[p] = NoPeer => Shut(S)[p] = peers[p]
  <2>1. peers[p] \in PeerRec
    BY DEF ConnTypeOK
  <2> DEFINE x == [peers[p] EXCEPT !.up = FALSE]
  <2>2. x \in PeerRec /\ x.req = peers[p].req /\ x.stage = peers[p].stage
    BY <2>1 DEF PeerRec
  <2>3. peers[p] = NoPeer => x = NoPeer
    <3>1. x.up = FALSE
      BY <2>1 DEF PeerRec
    <3>y. \A y \in PeerRec : y = [req |-> y.req, up |-> y.up, stage |-> y.stage]
      BY DEF PeerRec
    <3>2. NoPeer.req = 0 /\ NoPeer.stage = "free"
      BY DEF NoPeer
    <3> HIDE DEF x
    <3> QED
      BY <2>2, <3>1, <3>2, <3>y DEF NoPeer
  <2> QED
    BY <1>1, <2>1, <2>2, <2>3
<1> QED
  BY <1>2 DEF Shut

\* Accept: an inbound peer runs on no request.
LEMMA AcceptKeeps ==
  ASSUME ConnInv, Accept
  PROVE  ConnInv'
<1> DEFINE p == Min(FreePeers)
           x == [req |-> 0, up |-> TRUE, stage |-> "handshake"]
<1>1. /\ FreePeers # {} /\ peers' = [peers EXCEPT ![p] = x]
      /\ UNCHANGED <<cm, listed, groups, sync, removed, calls, faults>>
  BY DEF Accept
<1>2. p \in Peer /\ peers[p].stage = "free"
  <2>1. FreePeers \in SUBSET Nat
    BY ReqPeer DEF FreePeers
  <2>2. p \in FreePeers
    BY <1>1, <2>1, LeastNat
  <2> QED
    BY <2>2 DEF FreePeers
<1> HIDE DEF p
<1>3. ConnTypeOK /\ PeerInv /\ SyncPeersLive
  BY DEF ConnInv
<1>4. peers[p].req = 0
  BY <1>2, <1>3 DEF PeerInv, NoPeer
<1>5. x \in PeerRec /\ x.req = 0 /\ x.stage = "handshake"
  BY DEF PeerRec
<1> HIDE DEF x
<1>6. peers' \in [Peer -> PeerRec] /\ peers'[p] = x /\ \A q \in Peer : q # p => peers'[q] = peers[q]
  BY <1>1, <1>2, <1>3, <1>5 DEF ConnTypeOK
<1>7. \A q \in Peer : peers'[q].req = peers[q].req
  BY <1>4, <1>5, <1>6
<1>8. groups' = Cardinality(Out')
  BY <1>1, <1>7, OutSame
<1>9. SyncPeersLive'
  BY <1>1, <1>2, <1>3, <1>6, Unlisted DEF SyncPeersLive, ConnTypeOK
<1>10. calls' >= calls /\ UNCHANGED <<cm, removed, calls, faults>>
  BY <1>1, <1>3 DEF ConnTypeOK
<1>11. \A q \in Peer : /\ peers'[q].stage = "free" => peers[q].stage = "free" /\ peers'[q] = peers[q]
                       /\ peers[q].stage = "free" /\ peers'[q].stage # "free" => peers[q].req = 0
  BY <1>4, <1>5, <1>6
<1> QED
  BY <1>1, <1>3, <1>6, <1>7, <1>8, <1>9, <1>10, <1>11, PeersKeep DEF ConnTypeOK

LEMMA VerAckKeeps ==
  ASSUME ConnInv, NEW p \in Peer, VerAck(p)
  PROVE  ConnInv'
<1>1. /\ peers[p].stage = "handshake" /\ peers' = [peers EXCEPT ![p].stage = "adding"]
      /\ UNCHANGED <<cm, listed, groups, sync, removed, calls, faults>>
  BY DEF VerAck
<1>2. ConnTypeOK /\ PeerInv /\ SyncPeersLive
  BY DEF ConnInv
<1> DEFINE x == [peers[p] EXCEPT !.stage = "adding"]
<1>3. x \in PeerRec /\ x.req = peers[p].req /\ x.stage = "adding"
  BY <1>2, PeerFields DEF PeerRec
<1>4. peers' = [peers EXCEPT ![p] = x]
  BY <1>1
<1> HIDE DEF x
<1>5. peers' \in [Peer -> PeerRec] /\ peers'[p] = x /\ \A q \in Peer : q # p => peers'[q] = peers[q]
  BY <1>2, <1>3, <1>4 DEF ConnTypeOK
<1>6. \A q \in Peer : peers'[q].req = peers[q].req
  BY <1>3, <1>5
<1>7. groups' = Cardinality(Out')
  BY <1>1, <1>6, OutSame
<1>8. SyncPeersLive'
  BY <1>1, <1>2, <1>5, Unlisted DEF SyncPeersLive, ConnTypeOK
<1>9. calls' >= calls
  BY <1>1, <1>2 DEF ConnTypeOK
<1>10. \A q \in Peer : /\ peers'[q].stage = "free" => peers[q].stage = "free" /\ peers'[q] = peers[q]
                       /\ peers[q].stage = "free" /\ peers'[q].stage # "free" => peers[q].req = 0
  BY <1>1, <1>3, <1>5
<1> QED
  BY <1>1, <1>2, <1>5, <1>6, <1>7, <1>8, <1>9, <1>10, PeersKeep DEF ConnTypeOK

LEMMA DropKeeps ==
  ASSUME ConnInv, NEW p \in Peer, Drop(p)
  PROVE  ConnInv'
<1>1. /\ peers' = Shut({p}) /\ Fault /\ UNCHANGED <<cm, listed, groups, sync, removed, calls>>
  BY DEF Drop
<1>2. ConnTypeOK /\ PeerInv /\ SyncPeersLive
  BY DEF ConnInv
<1>3. /\ peers' \in [Peer -> PeerRec]
      /\ \A q \in Peer : peers'[q].req = peers[q].req /\ peers'[q].stage = peers[q].stage
      /\ \A q \in Peer : peers[q] = NoPeer => peers'[q] = peers[q]
  BY <1>1, <1>2, ShutDoes
<1>4. groups' = Cardinality(Out')
  BY <1>1, <1>3, OutSame
<1>5. SyncPeersLive'
  BY <1>1, <1>2, <1>3 DEF SyncPeersLive, ConnTypeOK
<1>6. calls' >= calls /\ faults' \in 0..MaxFaults
  BY <1>1, <1>2, FaultsKept DEF ConnTypeOK
<1>7. \A q \in Peer : peers'[q].stage = "free" => peers'[q] = peers[q]
  BY <1>2, <1>3 DEF PeerInv
<1> QED
  BY <1>1, <1>2, <1>3, <1>4, <1>5, <1>6, <1>7, PeersKeep DEF ConnTypeOK

\* AddPeer: a peer is counted in its group exactly when it is listed.
LEMMA AddPeerKeeps ==
  ASSUME ConnInv, NEW p \in Peer, AddPeer(p)
  PROVE  ConnInv'
<1>1. /\ peers[p].stage = "adding" /\ UNCHANGED <<cm, removed, calls>> /\ (Fault \/ NoFault)
      /\ peers' = Handled(peers, p) \/ peers' = Handled(Shut({p}), p)
      /\ \/ /\ listed' = listed \cup {p} /\ sync' = sync \cup {p}
            /\ groups' = IF Inbound(p) THEN groups ELSE groups + 1
         \/ UNCHANGED <<listed, sync, groups>>
  BY DEF AddPeer
<1>2. ConnTypeOK /\ PeerInv /\ SyncPeersLive /\ p \notin listed /\ p \notin sync
  BY <1>1, Unlisted DEF ConnInv
<1>3. PICK ps \in [Peer -> PeerRec] :
        /\ peers' = Handled(ps, p)
        /\ \A q \in Peer : ps[q].req = peers[q].req /\ ps[q].stage = peers[q].stage
        /\ \A q \in Peer : peers[q] = NoPeer => ps[q] = peers[q]
  <2>1. CASE peers' = Handled(peers, p)
    BY <1>2, <2>1 DEF ConnTypeOK
  <2>2. CASE peers' = Handled(Shut({p}), p)
    BY <1>2, <2>2, ShutDoes
  <2> QED
    BY <1>1, <2>1, <2>2
<1> DEFINE x == [ps[p] EXCEPT !.stage = "handled"]
<1>4. x \in PeerRec /\ x.req = ps[p].req /\ x.stage = "handled"
  BY <1>3 DEF PeerRec
<1>5. peers' = [ps EXCEPT ![p] = x]
  BY <1>3 DEF Handled
<1> HIDE DEF x
<1>6. peers' \in [Peer -> PeerRec] /\ peers'[p] = x /\ \A q \in Peer : q # p => peers'[q] = ps[q]
  BY <1>3, <1>4, <1>5
<1>7. \A q \in Peer : peers'[q].req = peers[q].req
  BY <1>3, <1>4, <1>6
<1>8. listed' \subseteq Peer /\ sync' \subseteq Peer
  BY <1>1, <1>2 DEF ConnTypeOK
<1>9. SyncPeersLive'
  <2>1. \A q \in Peer : peers[q].stage = "handled" => peers'[q].stage = "handled"
    BY <1>3, <1>4, <1>6
  <2>2. peers'[p].stage = "handled"
    BY <1>4, <1>6
  <2> QED
    BY <1>1, <1>2, <2>1, <2>2 DEF SyncPeersLive, ConnTypeOK
<1>10. groups' = Cardinality(Out')
  <2>1. groups = Cardinality(Out) /\ IsFiniteSet(Out) /\ (listed' = listed => Out' = Out)
    BY <1>7, OutSame
  <2>2. CASE UNCHANGED <<listed, sync, groups>>
    BY <2>1, <2>2
  <2>3. CASE listed' = listed \cup {p} /\ groups' = IF Inbound(p) THEN groups ELSE groups + 1
    <3>1. CASE Inbound(p)
      <4>1. Out' = Out
        BY <1>2, <1>7, <2>3, <3>1 DEF Out, Inbound, ConnTypeOK
      <4> QED
        BY <2>1, <2>3, <3>1, <4>1
    <3>2. CASE ~Inbound(p)
      <4>1. Out' = Out \cup {p} /\ p \notin Out
        BY <1>2, <1>7, <2>3, <3>2 DEF Out, Inbound, ConnTypeOK
      <4>2. Cardinality(Out \cup {p}) = Cardinality(Out) + 1
        BY <2>1, <4>1, FS_AddElement
      <4> QED
        BY <2>1, <2>3, <3>2, <4>1, <4>2
    <3> QED
      BY <3>1, <3>2
  <2> QED
    BY <1>1, <2>2, <2>3
<1>11. calls' >= calls /\ faults' \in 0..MaxFaults
  BY <1>1, <1>2, FaultsKept DEF ConnTypeOK
<1>12. \A q \in Peer : peers'[q].stage = "free" => peers[q].stage = "free" /\ peers'[q] = peers[q]
  BY <1>2, <1>3, <1>4, <1>6 DEF PeerInv
<1>13. \A q \in Peer : peers[q].stage = "free" /\ peers'[q].stage # "free" => peers[q].req = 0
  BY <1>1, <1>3, <1>6
<1> QED
  BY <1>1, <1>2, <1>6, <1>7, <1>8, <1>9, <1>10, <1>11, <1>12, <1>13, PeersKeep DEF ConnTypeOK

\* disconnectPeer: what leaves the lists leaves the groups, and nothing else.
LEMMA DisconnectPeersKeeps ==
  ASSUME ConnInv, NEW S \in SUBSET listed, DisconnectPeers(S), UNCHANGED <<cm, sync, faults>>,
         removed' \subseteq Req, Call
  PROVE  ConnInv'
<1>1. /\ peers' = Shut(S) /\ listed' = listed \ S
      /\ groups' = groups - Cardinality({p \in S : ~Inbound(p)})
  BY DEF DisconnectPeers
<1>2. ConnTypeOK /\ PeerInv /\ SyncPeersLive
  BY DEF ConnInv
<1>3. /\ peers' \in [Peer -> PeerRec]
      /\ \A q \in Peer : peers'[q].req = peers[q].req /\ peers'[q].stage = peers[q].stage
      /\ \A q \in Peer : peers[q] = NoPeer => peers'[q] = peers[q]
  BY <1>1, <1>2, ShutDoes
<1>4. groups' = Cardinality(Out')
  <2> DEFINE D == {p \in S : ~Inbound(p)}
  <2>1. groups = Cardinality(Out) /\ IsFiniteSet(Out)
    BY <1>3, OutSame
  <2>2. Out' = Out \ D /\ Out \cap D = D
    BY <1>1, <1>2, <1>3 DEF Out, Inbound, ConnTypeOK
  <2> HIDE DEF D
  <2>3. Cardinality(Out \ D) = Cardinality(Out) - Cardinality(Out \cap D)
    BY <2>1, FS_Difference
  <2> QED
    BY <1>1, <2>1, <2>2, <2>3 DEF D
<1>5. SyncPeersLive'
  BY <1>1, <1>2, <1>3 DEF SyncPeersLive, ConnTypeOK
<1>6. calls' >= calls /\ calls' \in 0..MaxCalls
  BY <1>2, ConnAssumption DEF ConnTypeOK, Call
<1>7. \A q \in Peer : peers'[q].stage = "free" => peers'[q] = peers[q]
  BY <1>2, <1>3 DEF PeerInv
<1>8. listed' \subseteq Peer /\ sync' \subseteq Peer /\ faults' \in 0..MaxFaults
  BY <1>1, <1>2 DEF ConnTypeOK
<1> QED
  BY <1>3, <1>4, <1>5, <1>6, <1>7, <1>8, PeersKeep

LEMMA DisconnectNodeKeeps ==
  ASSUME ConnInv, NEW S \in SUBSET listed, DisconnectNode(S)
  PROVE  ConnInv'
<1>1. DisconnectPeers(S) /\ UNCHANGED <<cm, sync, faults>> /\ removed' = removed /\ Call
  BY DEF DisconnectNode
<1>2. removed' \subseteq Req
  BY <1>1 DEF ConnInv, ConnTypeOK
<1> QED
  BY <1>1, <1>2, DisconnectPeersKeeps

LEMMA RemoveNodeKeeps ==
  ASSUME ConnInv, NEW p \in Peer, RemoveNode(p)
  PROVE  ConnInv'
<1>1. /\ DisconnectPeers({p}) /\ UNCHANGED <<cm, sync, faults>> /\ Call
      /\ removed' = removed \cup {peers[p].req} /\ p \in listed /\ Persistent(p)
  BY DEF RemoveNode
<1>2. peers[p].req \in Req
  BY <1>1, PeerFields DEF ConnInv, Persistent
<1>3. removed' \subseteq Req /\ {p} \in SUBSET listed
  BY <1>1, <1>2 DEF ConnInv, ConnTypeOK
<1> QED
  BY <1>1, <1>3, DisconnectPeersKeeps

\* DonePeer: the request of an outbound peer has its next holder at once.
LEMMA DonePeerKeeps ==
  ASSUME ConnInv, NEW p \in Peer, DonePeer(p)
  PROVE  ConnInv'
<1> DEFINE r == peers[p].req
<1>1. /\ peers[p].stage \in {"handshake", "handled"} /\ ~peers[p].up
      /\ peers' = [peers EXCEPT ![p] = NoPeer]
      /\ cm' = IF Inbound(p) THEN cm ELSE Ended(cm, peers[p].req, p)
      /\ groups' = IF p \in listed /\ ~Inbound(p) THEN groups - 1 ELSE groups
      /\ listed' = listed \ {p}
      /\ sync' = IF peers[p].stage = "handled" THEN sync \ {p} ELSE sync
      /\ UNCHANGED <<removed, calls, faults>>
  BY DEF DonePeer
<1>2. ConnTypeOK /\ PeerInv /\ SyncPeersLive /\ HeldInv /\ SlotsKept
  BY DEF ConnInv
<1>3. NoPeer \in PeerRec /\ NoPeer.req = 0 /\ NoPeer.stage = "free"
  BY DEF NoPeer, PeerRec
<1>4. peers' \in [Peer -> PeerRec] /\ peers'[p] = NoPeer /\ \A q \in Peer : q # p => peers'[q] = peers[q]
  BY <1>1, <1>2, <1>3 DEF ConnTypeOK
<1>5. p \notin sync' /\ p \notin listed' /\ listed' \subseteq Peer /\ sync' \subseteq Peer
  BY <1>1, <1>2 DEF SyncPeersLive, ConnTypeOK
<1>6. SyncPeersLive'
  BY <1>1, <1>2, <1>4, <1>5 DEF SyncPeersLive, ConnTypeOK
<1>7. PeerInv'
  BY <1>2, <1>3, <1>4 DEF PeerInv
<1>8. groups' = Cardinality(Out') /\ groups' \in Nat
  <2>1. groups = Cardinality(Out) /\ IsFiniteSet(Out) /\ groups \in Nat
    <3>1. Out \in SUBSET Peer /\ groups = Cardinality(Out)
      BY <1>2 DEF ConnInv, ConnTypeOK, GroupsExact, Out
    <3> QED
      BY <3>1, <1>2, ReqPeer, FS_Subset DEF ConnTypeOK
  <2>2. Out' = Out \ {p} /\ (p \in Out <=> p \in listed /\ ~Inbound(p))
    BY <1>1, <1>2, <1>4 DEF Out, Inbound, ConnTypeOK
  <2>3. /\ IsFiniteSet(Out \ {p})
        /\ Cardinality(Out \ {p}) = IF p \in Out THEN Cardinality(Out) - 1 ELSE Cardinality(Out)
    BY <2>1, FS_RemoveElement
  <2>4. Cardinality(Out \ {p}) \in Nat
    BY <2>3, FS_CardinalityType
  <2> QED
    BY <1>1, <2>1, <2>2, <2>3, <2>4
<1>9. GroupsExact'
  BY <1>8 DEF GroupsExact, Out
<1>10. CASE Inbound(p)
  <2>1. cm' = cm /\ peers[p].req = 0
    BY <1>1, <1>10 DEF Inbound
  <2>2. ConnTypeOK'
    BY <1>1, <1>2, <1>4, <1>5, <1>8, <2>1 DEF ConnTypeOK
  <2>3. \A s \in Req : Runs(s)' <=> Runs(s)
    <3>1. \A s \in Req : s # 0
      BY ReqPeer
    <3> QED
      BY <1>3, <1>4, <2>1, <3>1 DEF Runs
  <2>4. calls' >= calls
    BY <1>1, <1>2 DEF ConnTypeOK
  <2>5. SlotsKept' /\ HeldInv'
    BY <1>2, <2>1, <2>2, <2>3, <2>4, SlotsSame
  <2> QED
    BY <1>6, <1>7, <1>9, <2>2, <2>5 DEF ConnInv
<1>11. CASE ~Inbound(p)
  <2>1. r \in Req /\ r # 0
    BY <1>2, <1>11, PeerFields DEF Inbound
  <2>2. PICK s \in Req : s = r
    BY <2>1
  <2>3. Runs(s) /\ s # 0
    BY <1>1, <2>1, <2>2 DEF Runs
  <2>4. Runs(s)' = FALSE
    <3>1. \A q \in Peer : q # p => peers[q].req # s
      BY <1>2, <2>1, <2>2, <2>3 DEF PeerInv
    <3> QED
      BY <1>3, <1>4, <2>3, <3>1 DEF Runs
  <2>5. \A t \in Req : t # s => (Runs(t)' <=> Runs(t))
    BY <1>3, <1>4, <2>2 DEF Runs
  <2>6. cm \in CM /\ Idle(cm, s) /\ s \notin cm.pending /\ s \in cm.conns
    <3>1. Held(cm, s, Runs(s)) /\ cm \in CM
      BY <1>2 DEF HeldInv, ConnTypeOK
    <3> QED
      BY <3>1, <2>3 DEF Held, Idle, Op
  <2>7. cm' = Ended(cm, s, p)
    BY <1>1, <1>11, <2>2
  <2>8. (Perm(cm, s) => Moved(cm, cm', s)) /\ (~Perm(cm, s) => Replaced(cm, cm', s))
    BY <2>6, <2>7, EndedDoes
  <2>9. Frame(cm, cm', s) /\ Held(cm', s, FALSE)
    BY <2>8 DEF Moved, Replaced
  <2>10. ConnTypeOK'
    BY <1>1, <1>2, <1>4, <1>5, <1>8, <2>9 DEF ConnTypeOK, Frame
  <2>11. HeldInv'
    BY <1>2, <2>4, <2>5, <2>9, HeldKept
  <2>12. SlotsKept'
    <3> DEFINE a == IF Perm(cm, s) THEN 0 ELSE 1
    <3>1. a \in 0..1 /\ 0 \in 0..1
      OBVIOUS
    <3>2. Counts(cm, s, Runs(s)) <=> a = 1
      BY <2>3 DEF Counts
    <3>3. ~Counts(cm', s, Runs(s)')
      <4>1. CASE Perm(cm, s)
        BY <2>8, <4>1 DEF Counts, Moved, Perm
      <4>2. CASE ~Perm(cm, s)
        <5>1. \A op \in Op : cm'.going[<<op, s>>] # 1
          BY <2>8, <4>2 DEF Replaced, Idle
        <5> QED
          BY <5>1, <2>4 DEF Counts
      <4> QED
        BY <4>1, <4>2
    <3>4. Counts(cm', s, Runs(s)') <=> 0 = 1
      <4>1. 0 # 1
        OBVIOUS
      <4> QED
        BY <3>3, <4>1, Zenon
    <3>5. cm'.new + 0 >= cm.new + a /\ cm'.new + 0 <= cm.new + a + (calls' - calls)
      <4>1. cm.new \in Nat /\ calls \in Nat /\ calls' = calls
        BY <1>1, <1>2 DEF ConnTypeOK, CM
      <4>2. cm'.new = cm.new + a
        <5>1. CASE Perm(cm, s)
          BY <2>8, <4>1, <5>1 DEF Moved
        <5>2. CASE ~Perm(cm, s)
          BY <2>8, <4>1, <5>2 DEF Replaced
        <5> QED
          BY <5>1, <5>2
      <4> HIDE DEF a
      <4> QED
        BY <3>1, <4>1, <4>2
    <3> HIDE DEF a
    <3> QED
      BY <1>2, <2>5, <2>9, <2>10, <2>11, <3>1, <3>2, <3>4, <3>5, SlotsStep
  <2> QED
    BY <1>6, <1>7, <1>9, <2>10, <2>11, <2>12 DEF ConnInv
<1> QED
  BY <1>10, <1>11

\* OutboundPeerConnected: the goroutine hands its request to the peer it
\* starts, or gives it back.
LEMMA OutboundKeeps ==
  ASSUME ConnInv, NEW r \in Req, OutboundPeerConnected(r)
  PROVE  ConnInv'
<1> DEFINE m == Ran(cm, "onconnection", r)
           p == Min(FreePeers)
           x == [req |-> r, up |-> TRUE, stage |-> "handshake"]
<1>1. /\ "onconnection" \in Op /\ cm.going[<<"onconnection", r>>] > 0 /\ FreePeers # {}
      /\ \/ cm' = Ended(m, r, p) /\ Fault /\ UNCHANGED peers
         \/ cm' = m /\ NoFault /\ peers' = [peers EXCEPT ![p] = x]
      /\ UNCHANGED <<listed, groups, sync, removed, calls>>
  BY DEF OutboundPeerConnected, Op
<1>2. /\ ~Runs(r) /\ cm.going[<<"onconnection", r>>] = 1 /\ cm \in CM /\ Frame(cm, m, r) /\ Idle(m, r)
      /\ m.kind = cm.kind /\ m.new = cm.new /\ r \notin m.pending /\ r \in m.conns
  BY <1>1, Ends
<1>3. m \in CM
  BY <1>2 DEF Frame
<1>4. ConnTypeOK /\ PeerInv /\ SyncPeersLive /\ HeldInv /\ SlotsKept
  BY DEF ConnInv
<1>5. faults' \in 0..MaxFaults
  BY <1>1, <1>4, FaultsKept
<1>6. CASE cm' = Ended(m, r, p) /\ UNCHANGED peers
  <2>1. UNCHANGED serverVars
    BY <1>1, <1>6 DEF serverVars
  <2> HIDE DEF m
  <2>2. CASE Perm(m, r)
    <3>1. Moved(m, cm', r)
      BY <1>2, <1>3, <1>6, <2>2, EndedDoes
    <3>2. Moved(cm, cm', r)
      BY <1>2, <3>1, MovedFrom
    <3> QED
      BY <1>1, <1>2, <1>5, <2>1, <3>2, MovedKeeps
  <2>3. CASE ~Perm(m, r)
    <3>1. Replaced(m, cm', r)
      BY <1>2, <1>3, <1>6, <2>3, EndedDoes
    <3>2. Replaced(cm, cm', r) /\ ~Perm(cm, r)
      BY <1>2, <2>3, <3>1, MovedFrom DEF Perm
    <3> QED
      BY <1>1, <1>2, <1>5, <2>1, <3>2, ReplacedKeeps
  <2> QED
    BY <2>2, <2>3
<1>7. CASE cm' = m /\ peers' = [peers EXCEPT ![p] = x]
  <2>1. p \in Peer /\ peers[p].stage = "free"
    <3>1. FreePeers \in SUBSET Nat
      BY ReqPeer DEF FreePeers
    <3>2. p \in FreePeers
      BY <1>1, <3>1, LeastNat
    <3> QED
      BY <3>2 DEF FreePeers
  <2>2. PICK f \in Peer : f = p
    BY <2>1
  <2>3. x \in PeerRec /\ x.req = r /\ x.stage = "handshake"
    BY DEF PeerRec
  <2> HIDE DEF x, m, p
  <2>4. peers' \in [Peer -> PeerRec] /\ peers'[f] = x /\ \A q \in Peer : q # f => peers'[q] = peers[q]
    BY <1>4, <1>7, <2>2, <2>3 DEF ConnTypeOK
  <2>5. f \notin listed /\ f \notin sync /\ peers[f].req = 0 /\ peers[f].stage = "free" /\ r # 0
    BY <1>4, <2>1, <2>2, Unlisted, ReqPeer DEF PeerInv, NoPeer
  <2>6. ConnTypeOK'
    BY <1>1, <1>3, <1>4, <1>5, <1>7, <2>4 DEF ConnTypeOK
  <2>7. \A q \in Peer : peers[q].req # r
    <3>1. \A q \in Peer : peers[q].stage = "free" => peers[q].req = 0
      BY <1>4 DEF PeerInv, NoPeer
    <3> QED
      BY <1>2, <2>5, <3>1 DEF Runs
  <2>8. PeerInv'
    BY <1>4, <2>3, <2>4, <2>7 DEF PeerInv
  <2>9. SyncPeersLive'
    BY <1>1, <1>4, <2>4, <2>5 DEF SyncPeersLive, ConnTypeOK
  <2>10. GroupsExact'
    <3>1. {q \in listed : ~Inbound(q)}' = {q \in listed : ~Inbound(q)}
      BY <1>1, <1>4, <2>4, <2>5 DEF Inbound, ConnTypeOK
    <3> QED
      BY <1>1, <3>1 DEF ConnInv, GroupsExact
  <2>11. Runs(r)' = TRUE
    BY <2>3, <2>4 DEF Runs
  <2>12. \A s \in Req : s # r => (Runs(s)' <=> Runs(s))
    BY <2>3, <2>4, <2>5 DEF Runs
  <2>13. Held(cm', r, Runs(r)')
    <3>1. Held(m, r, TRUE)
      BY <1>2 DEF Held, Idle, Op
    <3> QED
      BY <1>7, <2>11, <3>1
  <2>14. Frame(cm, cm', r)
    BY <1>2, <1>7
  <2>15. HeldInv'
    BY <1>4, <2>12, <2>13, <2>14, HeldKept
  <2>16. SlotsKept'
    <3> DEFINE a == IF Perm(cm, r) THEN 0 ELSE 1
    <3>1. a \in 0..1
      OBVIOUS
    <3>2. Counts(cm, r, Runs(r)) <=> a = 1
      BY <1>1, <1>2 DEF Counts
    <3>3. Counts(cm', r, Runs(r)') <=> a = 1
      BY <1>2, <1>7, <2>11 DEF Counts, Perm
    <3>4. cm.new \in Nat /\ calls \in Nat /\ calls' = calls /\ cm'.new = cm.new
      BY <1>1, <1>2, <1>4, <1>7 DEF ConnTypeOK, CM
    <3> HIDE DEF a
    <3>5. cm'.new + a >= cm.new + a /\ cm'.new + a <= cm.new + a + (calls' - calls)
      BY <3>1, <3>4
    <3> QED
      BY <1>4, <2>6, <2>12, <2>14, <2>15, <3>1, <3>2, <3>3, <3>5, SlotsStep
  <2> QED
    BY <2>6, <2>8, <2>9, <2>10, <2>15, <2>16 DEF ConnInv
<1> QED
  BY <1>1, <1>6, <1>7

LEMMA StepKeeps ==
  ASSUME ConnInv, [Next]_vars
  PROVE  ConnInv'
<1>1. CASE NewConnReq \/ Accept
  BY <1>1, NewConnReqKeeps, AcceptKeeps
<1>2. CASE \E r \in Req : RequestStep(r)
  BY <1>2, GetNewAddressKeeps, ConnectKeeps, DialKeeps, ReplaceKeeps, OutboundKeeps DEF RequestStep
<1>3. CASE \E p \in Peer : PeerStep(p) \/ Drop(p) \/ RemoveNode(p)
  BY <1>3, VerAckKeeps, AddPeerKeeps, DonePeerKeeps, DropKeeps, RemoveNodeKeeps DEF PeerStep
<1>4. CASE \E kind \in {"perm", "once"} : ConnectNode(kind)
  BY <1>4, ConnectNodeKeeps
<1>5. CASE \E S \in SUBSET listed : DisconnectNode(S)
  BY <1>5, DisconnectNodeKeeps
<1>6. CASE UNCHANGED vars
  <2>1. /\ UNCHANGED <<peers, listed, groups, sync>> /\ UNCHANGED <<cm, removed, calls, faults>>
    BY <1>6 DEF vars
  <2>2. PeerInv' /\ GroupsExact' /\ SyncPeersLive' /\ \A s \in Req : Runs(s)' <=> Runs(s)
    BY <2>1, PeersSame
  <2>3. ConnTypeOK' /\ calls' >= calls
    BY <2>1 DEF ConnInv, ConnTypeOK
  <2>4. SlotsKept' /\ HeldInv'
    BY <2>1, <2>2, <2>3, SlotsSame DEF ConnInv
  <2> QED
    BY <2>2, <2>3, <2>4 DEF ConnInv
<1> QED
  BY <1>1, <1>2, <1>3, <1>4, <1>5, <1>6 DEF Next

LEMMA ConnInvariant == Spec => []ConnInv
<1>1. Init => ConnInv
  BY InitConn
<1>2. ConnInv /\ [Next]_vars => ConnInv'
  BY StepKeeps
<1> QED
  BY <1>1, <1>2, PTL DEF Spec

-----------------------------------------------------------------------------
(* What the server may rely on                                               *)

\* Every request that connHandler holds has exactly one goroutine, timer or
\* peer that will move it on: none is leaked and none is dialled twice.
THEOREM OneOwnerSafe == Spec => []OneOwner
<1>1. ConnInv => OneOwner
  <2>1. SUFFICES ASSUME ConnInv, NEW r \in Req
                 PROVE  /\ r \in cm.pending \cup cm.conns => Owners(r) = 1
                        /\ r \in cm.conns <=> cm.going[<<"onconnection", r>>] > 0 \/ Runs(r)
                        /\ cm.pending \cap cm.conns = {}
                        /\ Owners(r) > 0 /\ cm.going[<<"connect", r>>] = 0 => r \in cm.pending \cup cm.conns
    BY DEF OneOwner, ConnInv, Runs
  <2>2. ConnTypeOK /\ HeldInv /\ PeerInv /\ cm \in CM /\ \A s \in Req : Runs(s) \in BOOLEAN
    BY <2>1 DEF ConnInv, ConnTypeOK, Runs
  <2>3. \A s \in Req : Held(cm, s, Runs(s))
    BY <2>2 DEF HeldInv
  <2>4. cm.pending \cap cm.conns = {}
    <3>1. \A s \in Req : ~(s \in cm.pending /\ s \in cm.conns)
      BY <2>2, <2>3, HeldMeans
    <3> QED
      BY <3>1, <2>2, CMFields
  <2> DEFINE R == {p \in Peer : peers[p].stage # "free" /\ peers[p].req = r}
             n == Cardinality(R)
  <2>5. (Runs(r) => n = 1) /\ (~Runs(r) => n = 0)
    <3>1. CASE Runs(r)
      <4>1. PICK p \in Peer : peers[p].stage # "free" /\ peers[p].req = r
        BY <3>1 DEF Runs
      <4>2. r # 0
        BY ReqPeer
      <4>3. R = {p}
        BY <4>1, <4>2, <2>2 DEF PeerInv
      <4> QED
        BY <3>1, <4>3, FS_Singleton
    <3>2. CASE ~Runs(r)
      <4>1. R = {}
        BY <3>2 DEF Runs
      <4> QED
        BY <3>2, <4>1, FS_EmptySet
    <3> QED
      BY <3>1, <3>2
  <2>6. Owners(r) = cm.going[<<"address", r>>] + cm.going[<<"connect", r>>] + cm.going[<<"dial", r>>]
                      + cm.going[<<"replace", r>>] + cm.going[<<"onconnection", r>>] + n
    BY DEF Owners
  <2> HIDE DEF n
  <2>7. Held(cm, r, Runs(r)) /\ Runs(r) \in BOOLEAN
    BY <2>2, <2>3
  <2>8. /\ cm.going[<<"address", r>>] \in {0, 1} /\ cm.going[<<"connect", r>>] \in {0, 1}
        /\ cm.going[<<"dial", r>>] \in {0, 1} /\ cm.going[<<"replace", r>>] \in {0, 1}
        /\ cm.going[<<"onconnection", r>>] \in {0, 1}
    BY <2>7 DEF Held, Op
  <2>9. r \in cm.conns <=> cm.going[<<"onconnection", r>>] > 0 \/ Runs(r)
    BY <2>7, <2>8 DEF Held, Op
  <2>10. CASE Runs(r)
    <3>1. \A op \in Op : cm.going[<<op, r>>] = 0
      BY <2>7, <2>10 DEF Held
    <3>2. Owners(r) = 1 /\ r \in cm.conns
      BY <2>5, <2>6, <2>9, <2>10, <3>1 DEF Op
    <3> QED
      BY <2>4, <2>9, <3>2
  <2>11. CASE ~Runs(r) /\ \E op \in Op : cm.going[<<op, r>>] = 1
    <3>1. PICK o \in Op : cm.going[<<o, r>>] = 1
      BY <2>11
    <3>2. \A op \in Op : op # o => cm.going[<<op, r>>] = 0
      BY <2>7, <3>1 DEF Held
    <3>3. Owners(r) = 1
      BY <2>5, <2>6, <2>11, <3>1, <3>2 DEF Op
    <3>4. cm.going[<<"connect", r>>] = 0 => r \in cm.pending \cup cm.conns
      BY <2>7, <3>1 DEF Held, Op
    <3> QED
      BY <2>4, <2>9, <3>3, <3>4
  <2>12. CASE ~Runs(r) /\ \A op \in Op : cm.going[<<op, r>>] # 1
    <3>1. \A op \in Op : cm.going[<<op, r>>] = 0
      BY <2>7, <2>12 DEF Held
    <3>2. Owners(r) = 0
      BY <2>5, <2>6, <2>12, <3>1 DEF Op
    <3>3. r \notin cm.pending \cup cm.conns
      BY <2>7, <2>12 DEF Held, Op
    <3> QED
      BY <2>4, <2>9, <3>2, <3>3
  <2> QED
    BY <2>10, <2>11, <2>12
<1> QED
  BY <1>1, ConnInvariant, PTL

\* TargetOutbound slots survive every failure, refusal, drop and command, and
\* none is doubled.
THEOREM SlotsKeptSafe == Spec => []SlotsKept
<1>1. ConnInv => SlotsKept
  BY DEF ConnInv
<1> QED
  BY <1>1, ConnInvariant, PTL

\* peerState.outboundGroups counts the listed outbound peers, whichever of
\* disconnectPeer and handleDonePeerMsg comes first.
THEOREM GroupsExactSafe == Spec => []GroupsExact
<1>1. ConnInv => GroupsExact
  BY DEF ConnInv
<1> QED
  BY <1>1, ConnInvariant, PTL

\* The sync manager keeps no peer that is gone and knows every listed one.
THEOREM SyncPeersLiveSafe == Spec => []SyncPeersLive
<1>1. ConnInv => SyncPeersLive
  BY DEF ConnInv
<1> QED
  BY <1>1, ConnInvariant, PTL
=============================================================================

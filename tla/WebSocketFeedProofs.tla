------------------------- MODULE WebSocketFeedProofs -------------------------
(***************************************************************************)
(* The safety properties of the feed for any number of socket objects and  *)
(* any set of limits.  The events of a socket ask nothing of this.socket,  *)
(* so what is inductive is how the socket, the timer and the status stand  *)
(* to each other: a timer is only set once the socket has been let go.     *)
(***************************************************************************)
EXTENDS WebSocketFeed, TLAPS

(* Where the current socket stands.                                        *)
SocketInv ==
  /\ \A s \in Sockets : Live(s) => s = socket
  /\ socket # NoSocket => readyState[socket] # "free"
  /\ isConnecting <=> socket # NoSocket /\ readyState[socket] = "connecting"
  /\ reconnectTimer => socket = NoSocket

(* What the manager's stage says of the feed.                              *)
StageInv ==
  /\ stage # "stopped" => shouldReconnect
  /\ stage # "running" => socket = NoSocket /\ ~reconnectTimer
  /\ stage = "stopped" => ~shouldReconnect
  /\ stage = "created" => \A s \in Sockets : readyState[s] = "free"

FeedInv == FeedTypeOK /\ SocketInv /\ StageInv /\ StatusTruthful

(* Before connect nothing is open and nothing is scheduled.                *)
LEMMA FeedInitInv == FeedInit => FeedInv
<1> SUFFICES ASSUME FeedInit PROVE FeedInv
  OBVIOUS
<1>1. 0 \in 0..AttemptsBound
  BY FeedAssumption
<1>2. FeedTypeOK
  BY <1>1 DEF FeedInit, FeedTypeOK
<1>3. SocketInv
  BY DEF FeedInit, SocketInv, Live
<1> QED BY <1>2, <1>3 DEF FeedInit, FeedInv, StageInv, StatusTruthful

(* scheduleReconnect, called by an event of any socket, current or not,    *)
(* that leaves no socket live but the current one.                         *)
LEMMA ScheduleInv ==
  ASSUME FeedInv, NEW rs \in [Sockets -> {"free", "connecting", "open", "closing"}],
         \A s \in Sockets : rs[s] \in {"connecting", "open"} => s = socket,
         scheduleReconnect(rs),
         UNCHANGED <<stage, shouldReconnect, maxReconnectAttempts, network>>,
         stage # "created"
  PROVE  FeedInv'
<1>1. FeedTypeOK'
  <2>1. readyState' \in [Sockets -> {"free", "connecting", "open", "closing"}]
    BY DEF scheduleReconnect, cleanupSocket, Closed
  <2>2. reconnectAttempts' \in 0..AttemptsBound
    BY FeedAssumption DEF FeedInv, FeedTypeOK, scheduleReconnect, OneMoreAttempt, GivesUp
  <2> QED BY <2>1, <2>2 DEF FeedInv, FeedTypeOK, scheduleReconnect, cleanupSocket
<1>2. SocketInv'
  <2>1. \A s \in Sockets : ~ Live(s)'
    BY FeedAssumption DEF FeedInv, FeedTypeOK, Live, scheduleReconnect, cleanupSocket, Closed
  <2> QED BY <2>1 DEF SocketInv, scheduleReconnect, cleanupSocket
<1>3. StageInv'
  BY DEF FeedInv, FeedTypeOK, StageInv, scheduleReconnect, cleanupSocket
<1>4. StatusTruthful'
  <2> SUFFICES ASSUME stage' = "running" PROVE StatusTruthful'
    BY DEF StatusTruthful
  <2>1. shouldReconnect /\ stage = "running"
    BY DEF FeedInv, StageInv
  <2>2. reconnectTimer' \/ GivesUp'
    BY <2>1 DEF FeedInv, FeedTypeOK, scheduleReconnect, GivesUp
  <2> QED BY <2>2 DEF StatusTruthful, scheduleReconnect, cleanupSocket, GivesUp
<1> QED BY <1>1, <1>2, <1>3, <1>4 DEF FeedInv

(* Opening a socket when there is none.                                    *)
LEMMA OpenInv ==
  ASSUME FeedInv, openSocket, socket = NoSocket, stage' = "running",
         reconnectTimer' = FALSE, shouldReconnect' = TRUE,
         UNCHANGED <<reconnectAttempts, maxReconnectAttempts, network>>
  PROVE  FeedInv'
<1> PICK s \in Sockets :
      /\ readyState[s] = "free"
      /\ socket' = s /\ isConnecting' = TRUE
      /\ readyState' = [readyState EXCEPT ![s] = "connecting"]
      /\ status' = "connecting"
  BY DEF openSocket
<1> USE FeedAssumption DEF FeedInv
<1>1. FeedTypeOK' BY DEF FeedTypeOK
<1>2. SocketInv' BY DEF SocketInv, FeedTypeOK, Live
<1>3. StageInv' BY DEF StageInv
<1>4. StatusTruthful' BY DEF StatusTruthful
<1> QED BY <1>1, <1>2, <1>3, <1>4

(* Every callback keeps the invariant.                                     *)
LEMMA FeedNextInv == FeedInv /\ [FeedNext]_feedVars => FeedInv'
<1> SUFFICES ASSUME FeedInv, [FeedNext]_feedVars PROVE FeedInv'
  OBVIOUS
<1>1. CASE Connect
  <2>1. socket = NoSocket /\ reconnectTimer' = FALSE /\ shouldReconnect' = TRUE
    BY <1>1 DEF Connect, FeedInv, FeedTypeOK, StageInv
  <2> QED BY <1>1, <2>1, OpenInv DEF Connect
<1>2. CASE Stop
  <2>1. \A s \in Sockets : ~ Live(s)'
    BY <1>2, FeedAssumption
    DEF Stop, FeedInv, FeedTypeOK, SocketInv, Live, cleanupSocket, Closed
  <2>2. FeedTypeOK'
    BY <1>2 DEF Stop, FeedInv, FeedTypeOK, cleanupSocket, Closed
  <2> QED BY <1>2, <2>1, <2>2
          DEF Stop, FeedInv, SocketInv, StageInv, StatusTruthful, cleanupSocket
<1>3. CASE ReconnectTimerFires
  <2>1. socket = NoSocket /\ stage = "running" /\ shouldReconnect
    BY <1>3 DEF ReconnectTimerFires, FeedInv, FeedTypeOK, SocketInv, StageInv
  <2> QED BY <1>3, <2>1, OpenInv DEF ReconnectTimerFires, FeedInv, FeedTypeOK
<1>4. CASE NetworkTurns
  BY <1>4 DEF NetworkTurns, own, FeedInv, FeedTypeOK, SocketInv, StageInv,
              StatusTruthful, Live, GivesUp
<1>5. ASSUME NEW s \in Sockets, OnOpen(s) PROVE FeedInv'
  <2>1. s = socket /\ stage = "running" /\ ~reconnectTimer
    BY <1>5, FeedAssumption DEF OnOpen, FeedInv, SocketInv, StageInv, Live
  <2>2. FeedTypeOK'
    <3>1. reconnectAttempts' \in 0..AttemptsBound
      BY <1>5, FeedAssumption DEF OnOpen
    <3> QED BY <1>5, <3>1 DEF OnOpen, FeedInv, FeedTypeOK
  <2>3. SocketInv'
    BY <1>5, <2>1, FeedAssumption DEF OnOpen, FeedInv, FeedTypeOK, SocketInv, Live
  <2> QED BY <1>5, <2>1, <2>2, <2>3, FeedAssumption
          DEF OnOpen, FeedInv, StageInv, StatusTruthful
<1>6. ASSUME NEW s \in Sockets,
             OnHandshakeError(s) \/ OnError(s) \/ OnClose(s)
      PROVE  FeedInv'
  <2>1. PICK to \in {"free", "closing"} :
          scheduleReconnect([readyState EXCEPT ![s] = to])
    BY <1>6 DEF OnHandshakeError, OnError, OnClose
  <2> DEFINE rs == [readyState EXCEPT ![s] = to]
  <2>2. rs \in [Sockets -> {"free", "connecting", "open", "closing"}]
    BY DEF FeedInv, FeedTypeOK
  <2>3. \A t \in Sockets : rs[t] \in {"connecting", "open"} => t = socket
    BY DEF FeedInv, FeedTypeOK, SocketInv, Live
  <2>4. UNCHANGED <<stage, shouldReconnect, maxReconnectAttempts, network>>
    BY <1>6 DEF OnHandshakeError, OnError, OnClose
  <2>5. CASE stage # "created"
    <3> HIDE DEF rs
    <3> QED BY <2>1, <2>2, <2>3, <2>4, <2>5, ScheduleInv DEF rs
  <2>6. CASE stage = "created"
    BY <1>6, <2>6
    DEF OnHandshakeError, OnError, OnClose, FeedInv, StageInv
  <2> QED BY <2>5, <2>6
<1>7. ASSUME NEW s \in Sockets, PeerCloses(s) PROVE FeedInv'
  <2>1. s = socket
    BY <1>7 DEF PeerCloses, FeedInv, SocketInv, Live
  <2> QED BY <1>7, <2>1, FeedAssumption
          DEF PeerCloses, own, FeedInv, FeedTypeOK, SocketInv, StageInv,
              StatusTruthful, Live, GivesUp
<1>8. CASE UNCHANGED feedVars
  BY <1>8 DEF feedVars, own, FeedInv, FeedTypeOK, SocketInv, StageInv,
              StatusTruthful, Live, GivesUp
<1> QED BY <1>1, <1>2, <1>3, <1>4, <1>5, <1>6, <1>7, <1>8 DEF FeedNext

LEMMA FeedInvariant == FeedSpec => []FeedInv
<1>1. FeedInit => FeedInv BY FeedInitInv
<1>2. FeedInv /\ [FeedNext]_feedVars => FeedInv' BY FeedNextInv
<1> QED BY <1>1, <1>2, PTL DEF FeedSpec

-----------------------------------------------------------------------------
(* The feed's variables keep to their types: in particular a limit on the  *)
(* attempts is never exceeded.                                             *)
THEOREM FeedTypeCorrect == FeedSpec => []FeedTypeOK
<1>1. FeedInv => FeedTypeOK BY DEF FeedInv
<1> QED BY <1>1, FeedInvariant, PTL

(* No late event of a replaced socket leaks a connection, and stop ends    *)
(* the feed for good.                                                      *)
THEOREM FeedHasOneLiveSocket == FeedSpec => []OneLiveSocket
<1>1. FeedInv => OneLiveSocket
  BY DEF FeedInv, SocketInv, StageInv, OneLiveSocket
<1> QED BY <1>1, FeedInvariant, PTL

(* The health registry's status of a running feed is that of its socket.   *)
THEOREM FeedStatusIsTruthful == FeedSpec => []StatusTruthful
<1>1. FeedInv => StatusTruthful BY DEF FeedInv
<1> QED BY <1>1, FeedInvariant, PTL
=============================================================================

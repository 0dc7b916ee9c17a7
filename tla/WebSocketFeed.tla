---------------------------- MODULE WebSocketFeed ----------------------------
(***************************************************************************)
(* src/packages/feeds/src/websocketFeed.ts under one feed manager          *)
(* (pipeline/src/feedManager.ts) with its health tracker (feedHealth.ts).  *)
(*                                                                         *)
(* The feed's handlers are attached to a socket for its whole life and     *)
(* none of them asks whether that socket is still this.socket.  Since      *)
(* close() only starts the closing handshake, a socket that was replaced   *)
(* may emit error and close long after its successor has been opened.      *)
(*                                                                         *)
(* One action is one callback: a socket event, the reconnect timer, or a   *)
(* call of the feed manager.  Delays and their jitter are left out: the    *)
(* timer may fire at any time, except where Punctual says otherwise.       *)
(***************************************************************************)
EXTENDS Naturals

CONSTANTS
  Sockets,      \* socket objects; bounds how many close handshakes overlap
  NoSocket,     \* this.socket is undefined
  Limits,       \* settings of maxReconnectAttempts to explore; 0 when unset
  AttemptsBound \* where reconnectAttempts saturates when no limit is set

ASSUME FeedAssumption ==
  /\ NoSocket \notin Sockets
  /\ Limits \subseteq Nat
  /\ AttemptsBound \in Nat
  /\ \A n \in Limits : n <= AttemptsBound

VARIABLES
  stage,           \* of the manager: "created", "running" or "stopped"
  socket,          \* this.socket
  isConnecting,
  reconnectTimer,  \* a reconnect is scheduled
  reconnectAttempts,
  shouldReconnect,
  maxReconnectAttempts,
  status,          \* FeedHealthTracker.status
  readyState,      \* of each socket object, "free" once it has emitted close
  network          \* "good" or "bad": the venue and the way to it

own == <<socket, isConnecting, reconnectTimer, reconnectAttempts>>
feedVars == <<own, stage, shouldReconnect, maxReconnectAttempts, status,
              readyState, network>>

FeedInit ==
  /\ stage = "created"
  /\ socket = NoSocket
  /\ isConnecting = FALSE /\ reconnectTimer = FALSE /\ reconnectAttempts = 0
  /\ shouldReconnect = TRUE
  /\ maxReconnectAttempts \in Limits
  /\ status = "connecting"
  /\ readyState = [s \in Sockets |-> "free"]
  /\ network \in {"good", "bad"}

-----------------------------------------------------------------------------
(* socket.close(): a handshake still under way is aborted, and the error   *)
(* and close events that this causes run before anything else and find     *)
(* nothing to do; an open socket waits for the peer's close frame.         *)
Closed(rs, s) ==
  IF s = NoSocket THEN rs
  ELSE [rs EXCEPT ![s] = CASE @ = "connecting" -> "free"
                           [] @ = "open" -> "closing"
                           [] OTHER -> @]

(* openSocket: new WebSocket(url), "connecting" reported.                  *)
openSocket ==
  \E s \in Sockets :
    /\ readyState[s] = "free"
    /\ socket' = s /\ isConnecting' = TRUE
    /\ readyState' = [readyState EXCEPT ![s] = "connecting"]
    /\ status' = "connecting"

(* Defect: the reference is dropped, the socket itself left open.          *)
cleanupForgets(rs) ==
  /\ isConnecting' = FALSE
  /\ socket' = NoSocket
  /\ readyState' = rs

(* cleanupSocket when the sockets stand at rs.                             *)
cleanupSocket(rs) ==
  /\ isConnecting' = FALSE
  /\ socket' = NoSocket
  /\ readyState' = Closed(rs, socket)

(* Defect: one attempt too many.                                           *)
GivesUpLate ==
  maxReconnectAttempts # 0 /\ reconnectAttempts > maxReconnectAttempts

GivesUp ==
  maxReconnectAttempts # 0 /\ reconnectAttempts >= maxReconnectAttempts

(* The count only matters to a limit; without one it saturates.            *)
OneMoreAttempt ==
  IF maxReconnectAttempts = 0 /\ reconnectAttempts = AttemptsBound
    THEN AttemptsBound
    ELSE reconnectAttempts + 1

(* Defect: only the first loss is reported, later ones are assumed known.  *)
ScheduleReportsOnce(rs) ==
  /\ cleanupSocket(rs)
  /\ IF ~shouldReconnect \/ reconnectTimer \/ GivesUp
       THEN UNCHANGED <<reconnectTimer, reconnectAttempts, status>>
       ELSE /\ reconnectTimer' = TRUE
            /\ reconnectAttempts' = OneMoreAttempt
            /\ status' = "disconnected"

(* scheduleReconnect.  Of the statuses it reports, "disconnected" from     *)
(* cleanupSocket, "connecting" from recordReconnect and "disconnected"     *)
(* again, the last one stays.                                              *)
scheduleReconnect(rs) ==
  /\ cleanupSocket(rs)
  /\ status' = "disconnected"
  /\ IF ~shouldReconnect \/ reconnectTimer \/ GivesUp
       THEN UNCHANGED <<reconnectTimer, reconnectAttempts>>
       ELSE /\ reconnectTimer' = TRUE
            /\ reconnectAttempts' = OneMoreAttempt

-----------------------------------------------------------------------------
(* createFeedManager: the tracker is made and connect() called, once.      *)
Connect ==
  /\ stage = "created" /\ stage' = "running"
  /\ socket = NoSocket /\ ~isConnecting
  /\ openSocket
  /\ UNCHANGED <<reconnectTimer, reconnectAttempts, shouldReconnect,
                 maxReconnectAttempts, network>>

(* The manager's stop: disconnect(), which reports no status, and dispose. *)
Stop ==
  /\ stage = "running" /\ stage' = "stopped"
  /\ shouldReconnect' = FALSE
  /\ reconnectTimer' = FALSE
  /\ cleanupSocket(readyState)
  /\ UNCHANGED <<reconnectAttempts, maxReconnectAttempts, status, network>>

(* In a good network a close handshake, one round trip, is over before a   *)
(* reconnect timer of at least reconnectIntervalMs, two seconds, fires.    *)
Punctual ==
  network = "good" => \A s \in Sockets : readyState[s] # "closing"

ReconnectTimerFires ==
  /\ reconnectTimer /\ Punctual
  /\ reconnectTimer' = FALSE
  /\ openSocket
  /\ UNCHANGED <<stage, reconnectAttempts, shouldReconnect,
                 maxReconnectAttempts, network>>

OnOpen(s) ==
  /\ readyState[s] = "connecting"
  /\ readyState' = [readyState EXCEPT ![s] = "open"]
  /\ isConnecting' = FALSE /\ reconnectAttempts' = 0
  /\ status' = "connected"
  /\ UNCHANGED <<stage, socket, reconnectTimer, shouldReconnect,
                 maxReconnectAttempts, network>>

(* The handshake fails: error and close are emitted one after the other,   *)
(* and the second call of scheduleReconnect finds the timer set.           *)
OnHandshakeError(s) ==
  /\ network = "bad" /\ readyState[s] = "connecting"
  /\ scheduleReconnect([readyState EXCEPT ![s] = "free"])
  /\ UNCHANGED <<stage, shouldReconnect, maxReconnectAttempts, network>>

(* A protocol error of an established socket: its close comes later.       *)
OnError(s) ==
  /\ network = "bad" /\ readyState[s] \in {"open", "closing"}
  /\ scheduleReconnect([readyState EXCEPT ![s] = "closing"])
  /\ UNCHANGED <<stage, shouldReconnect, maxReconnectAttempts, network>>

(* The peer's close frame has come or its connection is gone.              *)
PeerCloses(s) ==
  /\ network = "bad" /\ readyState[s] = "open"
  /\ readyState' = [readyState EXCEPT ![s] = "closing"]
  /\ UNCHANGED <<own, stage, shouldReconnect, maxReconnectAttempts, status,
                 network>>

(* Defect: a close is taken to be the end of the story.                    *)
OnCloseForgets(s) ==
  /\ readyState[s] = "closing"
  /\ cleanupSocket([readyState EXCEPT ![s] = "free"])
  /\ status' = "disconnected"
  /\ UNCHANGED <<stage, reconnectTimer, reconnectAttempts, shouldReconnect,
                 maxReconnectAttempts, network>>

OnClose(s) ==
  /\ readyState[s] = "closing"
  /\ scheduleReconnect([readyState EXCEPT ![s] = "free"])
  /\ UNCHANGED <<stage, shouldReconnect, maxReconnectAttempts, network>>

NetworkTurns ==
  /\ network' = IF network = "good" THEN "bad" ELSE "good"
  /\ UNCHANGED <<own, stage, shouldReconnect, maxReconnectAttempts, status,
                 readyState>>

FeedNext ==
  \/ Connect \/ Stop \/ ReconnectTimerFires \/ NetworkTurns
  \/ \E s \in Sockets :
       OnOpen(s) \/ OnHandshakeError(s) \/ OnError(s) \/ PeerCloses(s) \/ OnClose(s)

(* A socket emits open or error, and close once it is closing; a timer     *)
(* that is due fires.  The venue promises nothing while the network is bad *)
(* and nobody promises that it stays good.                                 *)
FeedFairness ==
  /\ WF_feedVars(ReconnectTimerFires)
  /\ \A s \in Sockets : WF_feedVars(OnOpen(s)) /\ WF_feedVars(OnClose(s))

FeedSpec == FeedInit /\ [][FeedNext]_feedVars
FairFeedSpec == FeedSpec /\ FeedFairness

-----------------------------------------------------------------------------
(* Every variable keeps to the values the code gives it.                   *)
FeedTypeOK ==
  /\ stage \in {"created", "running", "stopped"}
  /\ socket \in Sockets \cup {NoSocket}
  /\ isConnecting \in BOOLEAN /\ reconnectTimer \in BOOLEAN
  /\ reconnectAttempts \in 0..AttemptsBound
  /\ shouldReconnect \in BOOLEAN
  /\ maxReconnectAttempts \in Limits
  /\ status \in {"connecting", "connected", "disconnected"}
  /\ readyState \in [Sockets -> {"free", "connecting", "open", "closing"}]
  /\ network \in {"good", "bad"}

Live(s) == readyState[s] \in {"connecting", "open"}

(* However late the events of replaced sockets come, the only socket that  *)
(* is connecting or open is this.socket, so none leaks and ticks are not   *)
(* delivered twice for good; after stop there is none, and none will come. *)
OneLiveSocket ==
  /\ \A s \in Sockets : Live(s) => s = socket
  /\ stage = "stopped" => socket = NoSocket /\ ~reconnectTimer

(* What the health registry tells operators of a running feed: "connected" *)
(* from the open of its socket to the loss of it and at no other time,     *)
(* and when it is neither connected nor connecting, a reconnect is due     *)
(* unless the feed has used up its attempts.                               *)
StatusTruthful ==
  stage = "running" =>
    /\ status = "connected" <=> socket # NoSocket /\ ~isConnecting
    /\ status = "connecting" <=> isConnecting
    /\ status = "disconnected" => reconnectTimer \/ GivesUp

Connected == socket # NoSocket /\ readyState[socket] = "open"

(* Once the network stays good, a running feed ends up connected and stays *)
(* so, however many sockets were closing, unless it had given up.          *)
StaysConnected ==
  <>[](network = "good" /\ stage = "running") =>
    <>[]Connected \/ <>[](GivesUp /\ socket = NoSocket)
=============================================================================

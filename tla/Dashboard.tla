----------------------------- MODULE Dashboard -----------------------------
(***************************************************************************)
(* The page of the dashboard (DPIContext.jsx) as a client of the gateway:  *)
(* it loads the data, opens a web socket, and opens another five seconds   *)
(* after one was closed, for as long as the provider is mounted. Under     *)
(* React's StrictMode the effect runs, is cleaned up and runs again at     *)
(* once: two runs of it share wsRef.                                       *)
(***************************************************************************)
EXTENDS Gateway

CONSTANTS PageConns,   \* the connections the page's sockets use
          None

ASSUME DashboardAssumption == PageConns \subseteq Conns /\ None \notin Conns

VARIABLES
    mounted,     \* isMounted of each run of the effect
    pulling,     \* runs in `await pullData()`
    timer,       \* runs whose reconnection timer is set
    wsRef,       \* the socket opened last
    socket,      \* readyState of each socket; "closed" also for a free one
    onclose      \* the run whose handler a socket calls, or None

pageVars == <<mounted, pulling, timer, wsRef, socket, onclose>>
allVars == <<vars, pageVars>>

Runs == {1, 2}
----------------------------------------------------------------------------
(* connectWs, with any free name for the connection; without a server it   *)
(* is refused.                                                             *)
ConnectWs(run) ==
    LET free == {c \in PageConns : socket[c] = "closed" /\ handler[c] = "ended" /\ ~ peer[c]
                                      /\ c \notin targets \cup stale}
        c == CHOOSE x \in free : TRUE
    IN  /\ free # {}
        /\ IF server = "serving" THEN Connect(c) ELSE UNCHANGED vars
        /\ wsRef' = c
        /\ socket' = [socket EXCEPT ![c] = "connecting"]
        /\ onclose' = [onclose EXCEPT ![c] = run]

(* Variant: the answer is used whether the page is still there or not.     *)
PullDoneUnchecked(run) ==
    /\ pulling[run]
    /\ pulling' = [pulling EXCEPT ![run] = FALSE]
    /\ ConnectWs(run)
    /\ UNCHANGED <<mounted, timer>>

(* pullData has returned, with data or without.                            *)
PullDone(run) ==
    /\ pulling[run]
    /\ pulling' = [pulling EXCEPT ![run] = FALSE]
    /\ IF mounted[run] THEN ConnectWs(run)
       ELSE UNCHANGED <<vars, wsRef, socket, onclose>>
    /\ UNCHANGED <<mounted, timer>>

SocketOpens(c) ==
    /\ socket[c] = "connecting"
    /\ peer[c] /\ handler[c] = "receive"
    /\ socket' = [socket EXCEPT ![c] = "open"]
    /\ UNCHANGED <<vars, mounted, pulling, timer, wsRef, onclose>>

(* Variant: only a socket that was open is opened again.                   *)
SocketClosesOpen(c) ==
    /\ socket[c] # "closed"
    /\ ~ peer[c]
    /\ socket' = [socket EXCEPT ![c] = "closed"]
    /\ timer' = [run \in Runs |-> \/ timer[run]
                                  \/ onclose[c] = run /\ mounted[run] /\ socket[c] = "open"]
    /\ onclose' = [onclose EXCEPT ![c] = None]
    /\ UNCHANGED <<vars, mounted, pulling, wsRef>>

(* onclose, after onerror's close() or without: sets the timer.            *)
SocketCloses(c) ==
    /\ socket[c] # "closed"
    /\ ~ peer[c]
    /\ socket' = [socket EXCEPT ![c] = "closed"]
    /\ timer' = [run \in Runs |-> timer[run] \/ (onclose[c] = run /\ mounted[run])]
    /\ onclose' = [onclose EXCEPT ![c] = None]
    /\ UNCHANGED <<vars, mounted, pulling, wsRef>>

Timer(run) ==
    /\ timer[run]
    /\ timer' = [timer EXCEPT ![run] = FALSE]
    /\ IF mounted[run] /\ (wsRef = None \/ socket[wsRef] = "closed")
       THEN ConnectWs(run)
       ELSE UNCHANGED <<vars, wsRef, socket, onclose>>
    /\ UNCHANGED <<mounted, pulling>>

(* The effect's clean-up: wsRef.current.onclose = null, close().           *)
Unmount(run) ==
    /\ mounted[run]
    /\ mounted' = [mounted EXCEPT ![run] = FALSE]
    /\ IF wsRef = None THEN UNCHANGED <<vars, socket, onclose>>
       ELSE /\ peer' = [peer EXCEPT ![wsRef] = FALSE]
            /\ socket' = [socket EXCEPT ![wsRef] = "closed"]
            /\ onclose' = [onclose EXCEPT ![wsRef] = None]
            /\ UNCHANGED <<loaderVars, castVars, active, handler, received, server, leaves>>
    /\ UNCHANGED <<pulling, timer, wsRef>>
----------------------------------------------------------------------------
PageInit ==
    /\ \/ mounted = <<TRUE, FALSE>> /\ pulling = <<TRUE, FALSE>>
       \/ mounted = <<FALSE, TRUE>> /\ pulling = <<TRUE, TRUE>>    \* StrictMode
    /\ timer = <<FALSE, FALSE>>
    /\ wsRef = None
    /\ socket = [c \in PageConns |-> "closed"]
    /\ onclose = [c \in PageConns |-> None]

PageEvent ==
    \/ \E run \in Runs : PullDone(run) \/ Timer(run)
    \/ \E c \in PageConns : SocketOpens(c) \/ SocketCloses(c)

PageStep == PageEvent \/ \E run \in Runs : Unmount(run)

(* The gateway, with any other client.                                     *)
GatewayStep ==
    /\ \/ Loader
       \/ \E c \in Conns : Handler(c) \/ PeerLeaves(c)
       \/ \E c \in Conns \ PageConns : Connect(c)
       \/ Stop \/ CancelLoader \/ Stopped
    /\ UNCHANGED pageVars

AllInit == Init /\ PageInit

AllNext == GatewayStep \/ PageStep

(* The browser delivers the events of sockets, timers and answers. Nothing *)
(* makes the user leave the page.                                          *)
AllSpec == AllInit /\ [][AllNext]_allVars /\ Fairness /\ WF_allVars(PageEvent)
----------------------------------------------------------------------------
(* PROPERTIES                                                              *)

TypeOK ==
    /\ loader \in Places
    /\ message \in 0 .. MaxAlerts /\ raised \in 0 .. MaxAlerts
    /\ targets \subseteq Conns /\ stale \subseteq Conns /\ active \subseteq Conns
    /\ \A c \in active : handler[c] = "receive"
    /\ handler \in [Conns -> {"opening", "receive", "ended"}]
    /\ server \in {"serving", "closing", "waiting", "stopped"}
    /\ wsRef \in PageConns \cup {None}
    /\ socket \in [PageConns -> {"connecting", "open", "closed"}]

(* "Immediately on new alert": a client receives the alerts in order, from *)
(* some moment on each once and without a gap, up to the last one, while   *)
(* others come, leave and are found stale in the middle of a broadcast.    *)
AlertsInOrder ==
    \A c \in Conns :
        LET got == received[c]
        IN  /\ \A i \in 1 .. Len(got) : got[i] = got[1] + i - 1
            /\ c \in active /\ peer[c] /\ got # <<>> /\ c \notin targets
                 => got[Len(got)] = raised

(* Connections that are gone do not stay among the active ones, even if    *)
(* nothing is ever broadcast again: time and again there is none.          *)
GoneLeavesActive == []<>(\A c \in active : peer[c])

(* "Prevent reconnect loop on unmount": the page has one socket as long as *)
(* it is there and none afterwards, whatever answer, event or timer was    *)
(* under way, also when StrictMode runs the effect twice.                  *)
OneSocketPerPage ==
    Cardinality({c \in PageConns : socket[c] # "closed"})
        <= Cardinality({run \in Runs : mounted[run]})

(* "attempt WS reconnect slowly in background": however often the socket   *)
(* breaks or is refused, a page that stays has an open one again while the *)
(* gateway serves.                                                         *)
PageReconnects ==
    (TRUE \in {mounted[run] : run \in Runs} /\ server = "serving") ~>
        \/ wsRef # None /\ socket[wsRef] = "open"
        \/ TRUE \notin {mounted[run] : run \in Runs}
        \/ server # "serving"

(* What lifespan's clean-up is for and the loader does not allow (see      *)
(* README): "Gracefully close all connections (used at shutdown)".         *)
ShutdownEnds == server = "waiting" ~> server = "stopped"
============================================================================

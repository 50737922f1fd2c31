-------------------------- MODULE DashboardProofs --------------------------
(***************************************************************************)
(* Proofs about the gateway and the page that is its client: the alerts    *)
(* reach every connection in order and without a gap, and a page never has *)
(* a second socket, for any number of connections, alerts and failures.    *)
(***************************************************************************)
EXTENDS Dashboard, SequenceTheorems, FiniteSetTheorems, TLAPS

(***************************************************************************)
(* THE INDUCTIVE INVARIANT                                                 *)
(***************************************************************************)
GateTyped ==
    /\ loader \in Places /\ cancelled \in BOOLEAN /\ packets \in BOOLEAN
    /\ raised \in 0 .. MaxAlerts /\ message \in {0, raised}
    /\ targets \subseteq Conns /\ stale \subseteq Conns /\ active \subseteq Conns
    /\ handler \in [Conns -> {"opening", "receive", "ended"}]
    /\ peer \in [Conns -> BOOLEAN]
    /\ received \in [Conns -> Seq(Nat)]
    /\ server \in {"serving", "closing", "waiting", "stopped"}

(* Nothing is being sent between two broadcasts; the loader is cancelled   *)
(* when all handlers have ended and no client is left.                     *)
LoaderInv ==
    /\ loader \notin Sending => targets = {}
    /\ cancelled => server = "waiting" /\ loader # "done"
    /\ server # "serving" => \A c \in Conns : ~ peer[c]
    /\ server \in {"waiting", "stopped"} => \A c \in Conns : handler[c] = "ended"

(* A connection whose client is there is active from the moment it is      *)
(* accepted, also in the middle of a broadcast that began before.          *)
ConnInv ==
    /\ \A c \in active : handler[c] = "receive"
    /\ \A c \in targets : peer[c] => c \in active
    /\ \A c \in stale : ~ peer[c]
    /\ \A c \in Conns :
          /\ handler[c] = "receive" /\ peer[c] => c \in active
          /\ handler[c] = "ended" => ~ peer[c]
          /\ received[c] # <<>> => handler[c] = "receive"

InARow(got) == \A i \in 1 .. Len(got) : got[i] = got[1] + i - 1

(* The alert a connection received last is the last one there is, or the   *)
(* one before while that one is still to be sent to it.                    *)
OrderInv ==
    \A c \in Conns :
        /\ InARow(received[c])
        /\ peer[c] /\ received[c] # <<>> =>
              received[c][Len(received[c])] =
                  IF c \in targets /\ message # 0 THEN raised - 1 ELSE raised

GateInv == GateTyped /\ LoaderInv /\ ConnInv /\ OrderInv

(* At most one run of the effect is mounted; only it has a socket, which   *)
(* is the last one opened, and none while it still waits for the data.     *)
PageInv ==
    /\ mounted \in [Runs -> BOOLEAN] /\ pulling \in [Runs -> BOOLEAN] /\ timer \in [Runs -> BOOLEAN]
    /\ wsRef \in PageConns \cup {None}
    /\ socket \in [PageConns -> {"connecting", "open", "closed"}]
    /\ ~ (mounted[1] /\ mounted[2])
    /\ \A c \in PageConns : socket[c] # "closed" => c = wsRef /\ (mounted[1] \/ mounted[2])
    /\ \A run \in Runs : mounted[run] /\ pulling[run] =>
          ~ timer[run] /\ \A c \in PageConns : socket[c] = "closed"

DashboardInv == GateInv /\ PageInv
----------------------------------------------------------------------------
(***************************************************************************)
(* THE LOADER                                                              *)
(***************************************************************************)
LEMMA Init_Inv == Init => GateInv
<1> SUFFICES ASSUME Init PROVE GateInv
  OBVIOUS
<1> USE GatewayAssumption
<1>1. GateTyped
  <2>1. <<>> \in Seq(Nat)
    OBVIOUS
  <2>2. received \in [Conns -> Seq(Nat)]
    BY <2>1 DEF Init
  <2>3. raised \in 0 .. MaxAlerts /\ message \in {0, raised}
    BY DEF Init
  <2>4. /\ handler \in [Conns -> {"opening", "receive", "ended"}]
        /\ peer \in [Conns -> BOOLEAN]
    BY DEF Init
  <2>5. /\ loader \in Places /\ cancelled \in BOOLEAN /\ packets \in BOOLEAN
        /\ server \in {"serving", "closing", "waiting", "stopped"}
    BY DEF Init, Places
  <2>6. targets \subseteq Conns /\ stale \subseteq Conns /\ active \subseteq Conns
    BY DEF Init
  <2> QED
    BY <2>2, <2>3, <2>4, <2>5, <2>6 DEF GateTyped
<1>2. LoaderInv
  BY DEF Init, LoaderInv
<1>3. ConnInv
  BY DEF Init, ConnInv
<1>4. OrderInv
  BY DEF Init, OrderInv, InARow
<1> QED
  BY <1>1, <1>2, <1>3, <1>4 DEF GateInv

(* The steps of the loader between two awaits that send nothing.           *)
LEMMA Quiet_Inv ==
  GateInv /\ (NoKafka \/ Subscribed \/ Watchdog) => GateInv'
<1> SUFFICES ASSUME GateInv, NoKafka \/ Subscribed \/ Watchdog PROVE GateInv'
  OBVIOUS
<1> USE DEF NoKafka, Subscribed, Watchdog, Simulate, castVars, connVars, GateInv
<1>1. GateTyped'
  BY DEF GateTyped, Places, Sending
<1>2. LoaderInv'
  BY DEF LoaderInv, Sending
<1>3. ConnInv'
  BY DEF ConnInv
<1>4. OrderInv'
  BY DEF OrderInv, InARow
<1> QED
  BY <1>1, <1>2, <1>3, <1>4

(* A broadcast that carries no alert.                                      *)
LEMMA Plain_Inv ==
  GateInv /\ (PollFlow \/ SimFlows) => GateInv'
<1> SUFFICES ASSUME GateInv, PollFlow \/ SimFlows PROVE GateInv'
  OBVIOUS
<1> USE DEF PollFlow, SimFlows, Broadcast, connVars, GateInv
<1>1. GateTyped'
  BY DEF GateTyped, Places, Sending
<1>2. LoaderInv'
  BY DEF LoaderInv, Sending
<1>3. ConnInv'
  BY DEF ConnInv
<1>4. targets = {}
  BY DEF LoaderInv, Sending
<1>5. OrderInv'
  BY <1>4 DEF OrderInv, InARow
<1> QED
  BY <1>1, <1>2, <1>3, <1>5

LEMMA PollAlert_Inv == GateInv /\ PollAlert => GateInv'
<1> SUFFICES ASSUME GateInv, PollAlert PROVE GateInv'
  OBVIOUS
<1> USE GatewayAssumption DEF PollAlert, Broadcast, connVars, GateInv
<1>1. GateTyped'
  BY DEF GateTyped, Places, Sending
<1>2. LoaderInv'
  BY DEF LoaderInv, Sending
<1>3. ConnInv'
  BY DEF ConnInv
<1>4. targets = {} /\ raised \in Nat
  BY DEF LoaderInv, Sending, GateTyped
<1>5. OrderInv'
  BY <1>4 DEF OrderInv, InARow, ConnInv
<1> QED
  BY <1>1, <1>2, <1>3, <1>5

(* A broadcast ends: whoever it dropped had no client any more.            *)
LEMMA Wait_Inv == GateInv /\ Wait => GateInv'
<1> SUFFICES ASSUME GateInv, Wait PROVE GateInv'
  OBVIOUS
<1> USE DEF Wait, BroadcastEnd, GateInv
<1>1. GateTyped'
  BY DEF GateTyped, Places, Sending
<1>2. LoaderInv'
  BY DEF LoaderInv, Sending
<1>3. ConnInv'
  BY DEF ConnInv
<1>4. OrderInv'
  BY DEF OrderInv, InARow
<1> QED
  BY <1>1, <1>2, <1>3, <1>4

LEMMA SimStats_Inv == GateInv /\ SimStats => GateInv'
<1> SUFFICES ASSUME GateInv, SimStats PROVE GateInv'
  OBVIOUS
<1> USE DEF SimStats, Broadcast, BroadcastEnd, GateInv
<1>1. GateTyped'
  BY DEF GateTyped, Places, Sending
<1>2. LoaderInv'
  BY DEF LoaderInv, Sending
<1>3. ConnInv'
  BY DEF ConnInv
<1>4. OrderInv'
  BY DEF OrderInv, InARow
<1> QED
  BY <1>1, <1>2, <1>3, <1>4

LEMMA SimAlert_Inv == GateInv /\ SimAlert => GateInv'
<1> SUFFICES ASSUME GateInv, SimAlert PROVE GateInv'
  OBVIOUS
<1> USE GatewayAssumption DEF SimAlert, Broadcast, BroadcastEnd, GateInv
<1>1. GateTyped'
  BY DEF GateTyped, Places, Sending
<1>2. LoaderInv'
  BY DEF LoaderInv, Sending
<1>3. ConnInv'
  BY DEF ConnInv
<1>4. raised \in Nat
  BY DEF GateTyped
<1>5. OrderInv'
  BY <1>4 DEF OrderInv, InARow, ConnInv, GateTyped
<1> QED
  BY <1>1, <1>2, <1>3, <1>5

(* A number that follows the last one keeps a list without a gap.          *)
LEMMA AppendInARow ==
  ASSUME NEW got \in Seq(Nat), NEW n \in Nat, InARow(got),
         got # <<>> => n = got[Len(got)] + 1
  PROVE  /\ InARow(Append(got, n))
         /\ Append(got, n) \in Seq(Nat)
         /\ Append(got, n) # <<>>
         /\ Append(got, n)[Len(Append(got, n))] = n
<1> DEFINE longer == Append(got, n)
<1>1. /\ longer \in Seq(Nat) /\ Len(longer) = Len(got) + 1
      /\ Len(got) \in Nat
      /\ longer[Len(got) + 1] = n
      /\ \A i \in 1 .. Len(got) : longer[i] = got[i] /\ got[i] \in Nat
  OBVIOUS
<1>2. CASE got = <<>>
  BY <1>1, <1>2 DEF InARow
<1>3. CASE got # <<>>
  <2>1. Len(got) >= 1
    BY <1>1, <1>3
  <2>2. n = got[1] + Len(got)
    <3>1. Len(got) \in 1 .. Len(got) /\ 1 \in 1 .. Len(got)
      BY <1>1, <2>1
    <3>2. got[Len(got)] = got[1] + Len(got) - 1
      BY <3>1 DEF InARow
    <3>3. n = got[Len(got)] + 1 /\ got[1] \in Nat /\ got[Len(got)] \in Nat
      BY <1>1, <1>3, <3>1
    <3> QED
      BY <1>1, <3>2, <3>3
  <2>3. ASSUME NEW i \in 1 .. Len(longer) PROVE longer[i] = longer[1] + i - 1
    <3>1. longer[1] = got[1] /\ got[1] \in Nat
      BY <1>1, <2>1
    <3>2. CASE i \in 1 .. Len(got)
      BY <1>1, <3>1, <3>2 DEF InARow
    <3>3. CASE i = Len(got) + 1
      BY <1>1, <2>2, <3>1, <3>3
    <3> QED
      BY <1>1, <3>2, <3>3
  <2>4. InARow(longer)
    BY <2>3 DEF InARow
  <2>5. longer # <<>> /\ longer[Len(longer)] = n
    BY <1>1, <2>1
  <2> QED
    BY <1>1, <2>4, <2>5
<1> QED
  BY <1>2, <1>3

(* An alert is appended to those of one connection, which had all before.  *)
LEMMA Send_Inv ==
  ASSUME NEW c \in Conns, GateInv, Send(c)
  PROVE  GateInv'
<1> USE DEF GateInv
<1>1. /\ loader \in Sending /\ ~ cancelled /\ c \in targets
      /\ targets' = targets \ {c}
      /\ UNCHANGED <<loader, cancelled, packets, message, raised, active, handler, peer, server>>
  BY DEF Send, loaderVars
<1>2. LoaderInv'
  BY <1>1 DEF LoaderInv
<1>3. CASE ~ peer[c] \/ message = 0
  <2>1. UNCHANGED received
    BY <1>3 DEF Send
  <2>2. stale' \in {stale, stale \cup {c}} /\ (stale' # stale => ~ peer[c])
    BY <1>3 DEF Send
  <2>3. GateTyped'
    BY <1>1, <2>1, <2>2 DEF GateTyped
  <2>4. ConnInv'
    BY <1>1, <2>1, <2>2 DEF ConnInv
  <2>5. OrderInv'
    BY <1>1, <1>3, <2>1 DEF OrderInv, InARow
  <2> QED
    BY <1>2, <2>3, <2>4, <2>5
<1>4. CASE peer[c] /\ message # 0
  <2> DEFINE got == received[c]
  <2>1. received' = [received EXCEPT ![c] = Append(got, message)] /\ UNCHANGED stale
    BY <1>4 DEF Send
  <2>2. got \in Seq(Nat) /\ message = raised /\ raised \in Nat /\ raised # 0
    BY <1>4, GatewayAssumption DEF GateTyped
  <2>3. InARow(got)
    BY DEF OrderInv
  <2>4. got # <<>> => message = got[Len(got)] + 1
    <3>1. got # <<>> => got[Len(got)] = raised - 1
      BY <1>1, <1>4 DEF OrderInv
    <3> QED
      BY <2>2, <3>1
  <2>5. /\ InARow(Append(got, message))
        /\ Append(got, message) \in Seq(Nat)
        /\ Append(got, message) # <<>>
        /\ Append(got, message)[Len(Append(got, message))] = message
    BY <2>2, <2>3, <2>4, AppendInARow
  <2>6. /\ received' \in [Conns -> Seq(Nat)]
        /\ received'[c] = Append(got, message)
        /\ \A d \in Conns : d # c => received'[d] = received[d]
    BY <2>1, <2>5 DEF GateTyped
  <2>7. GateTyped'
    BY <1>1, <2>1, <2>6 DEF GateTyped
  <2>8. ConnInv'
    BY <1>1, <1>4, <2>1, <2>6 DEF ConnInv
  <2>9. OrderInv'
    <3> SUFFICES ASSUME NEW d \in Conns
                 PROVE  /\ InARow(received'[d])
                        /\ peer[d] /\ received'[d] # <<>> =>
                              received'[d][Len(received'[d])] =
                                  IF d \in targets' /\ message # 0 THEN raised - 1 ELSE raised
      BY <1>1 DEF OrderInv, InARow
    <3>1. CASE d = c
      BY <1>1, <2>2, <2>5, <2>6, <3>1
    <3>2. CASE d # c
      BY <1>1, <2>6, <3>2 DEF OrderInv
    <3> QED
      BY <3>1, <3>2
  <2> QED
    BY <1>2, <2>7, <2>8, <2>9
<1> QED
  BY <1>3, <1>4

(* The broadcast that is cut off had nobody to reach any more.             *)
LEMMA Cancel_Inv == GateInv /\ Cancel => GateInv'
<1> SUFFICES ASSUME GateInv, Cancel PROVE GateInv'
  OBVIOUS
<1> USE DEF Cancel, Simulate, connVars, GateInv
<1>1. GateTyped'
  BY DEF GateTyped, Places, Sending
<1>2. LoaderInv'
  BY DEF LoaderInv, Sending
<1>3. ConnInv'
  BY DEF ConnInv
<1>4. \A c \in Conns : ~ peer[c]
  BY DEF LoaderInv
<1>5. OrderInv'
  BY <1>4 DEF OrderInv, InARow
<1> QED
  BY <1>1, <1>2, <1>3, <1>5
----------------------------------------------------------------------------
(***************************************************************************)
(* THE HANDLERS AND THE SERVER                                             *)
(***************************************************************************)
(* A new connection has received nothing.                                  *)
LEMMA Connect_Inv ==
  ASSUME NEW c \in Conns, GateInv, Connect(c)
  PROVE  GateInv'
<1> USE DEF Connect, loaderVars, castVars, GateInv
<1>1. GateTyped'
  BY DEF GateTyped
<1>2. LoaderInv'
  BY DEF LoaderInv, GateTyped
<1>3. received[c] = <<>>
  BY DEF ConnInv
<1>4. ConnInv'
  BY <1>3 DEF ConnInv, GateTyped
<1>5. OrderInv'
  BY <1>3 DEF OrderInv, GateTyped, InARow
<1> QED
  BY <1>1, <1>2, <1>4, <1>5

(* The client goes, whoever closes the connection.                         *)
LEMMA Gone_Inv ==
  ASSUME NEW c \in Conns, GateInv,
         peer' = [peer EXCEPT ![c] = FALSE],
         UNCHANGED <<loaderVars, castVars, active, received, server>>,
         handler' = handler \/ (handler[c] = "opening" /\ handler' = [handler EXCEPT ![c] = "ended"])
  PROVE  GateInv'
<1> USE DEF loaderVars, castVars, GateInv
<1>1. GateTyped'
  BY DEF GateTyped
<1>2. LoaderInv'
  BY DEF LoaderInv, GateTyped
<1>3. ConnInv'
  BY DEF ConnInv, GateTyped
<1>4. OrderInv'
  BY DEF OrderInv, GateTyped, InARow
<1> QED
  BY <1>1, <1>2, <1>3, <1>4

LEMMA Accept_Inv ==
  ASSUME NEW c \in Conns, GateInv, Accept(c)
  PROVE  GateInv'
<1> USE DEF Accept, loaderVars, castVars, GateInv
<1>1. GateTyped'
  BY DEF GateTyped
<1>2. LoaderInv'
  BY DEF LoaderInv, GateTyped
<1>3. ConnInv'
  BY DEF ConnInv, GateTyped
<1>4. OrderInv'
  BY DEF OrderInv, GateTyped, InARow
<1> QED
  BY <1>1, <1>2, <1>3, <1>4

LEMMA Disconnect_Inv ==
  ASSUME NEW c \in Conns, GateInv, Disconnect(c)
  PROVE  GateInv'
<1> USE DEF Disconnect, loaderVars, castVars, GateInv
<1>1. GateTyped'
  BY DEF GateTyped
<1>2. LoaderInv'
  BY DEF LoaderInv, GateTyped
<1>3. ConnInv'
  BY DEF ConnInv, GateTyped
<1>4. OrderInv'
  BY DEF OrderInv, GateTyped, InARow
<1> QED
  BY <1>1, <1>2, <1>3, <1>4

LEMMA Handler_Inv ==
  ASSUME NEW c \in Conns, GateInv, Handler(c) \/ PeerLeaves(c)
  PROVE  GateInv'
<1>1. CASE KeyRefused(c)
  BY <1>1, Gone_Inv DEF KeyRefused
<1>2. CASE PeerLeaves(c)
  BY <1>2, Gone_Inv DEF PeerLeaves
<1> QED
  BY <1>1, <1>2, Accept_Inv, Disconnect_Inv DEF Handler

LEMMA Server_Inv == GateInv /\ (Stop \/ CancelLoader \/ Stopped) => GateInv'
<1> SUFFICES ASSUME GateInv, Stop \/ CancelLoader \/ Stopped PROVE GateInv'
  OBVIOUS
<1> USE DEF Stop, CancelLoader, Stopped, loaderVars, castVars, connVars, GateInv
<1>1. GateTyped'
  BY DEF GateTyped
<1>2. LoaderInv'
  <2>1. CASE Stop
    BY <2>1 DEF LoaderInv, GateTyped
  <2>2. CASE CancelLoader
    <3>1. /\ server = "closing" /\ server' = "waiting"
          /\ UNCHANGED <<loader, targets, peer, handler>>
      BY <2>2
    <3>2. \A c \in Conns : handler[c] = "ended" /\ ~ peer[c]
      BY <2>2, <3>1 DEF LoaderInv
    <3>3. cancelled' => loader # "done"
      BY <2>2
    <3> QED
      BY <3>1, <3>2, <3>3 DEF LoaderInv
  <2>3. CASE Stopped
    BY <2>3 DEF LoaderInv, GateTyped
  <2> QED
    BY <2>1, <2>2, <2>3
<1>3. ConnInv'
  BY DEF ConnInv, GateTyped, LoaderInv
<1>4. OrderInv'
  BY DEF OrderInv, GateTyped, InARow
<1> QED
  BY <1>1, <1>2, <1>3, <1>4

LEMMA Unmoved_Inv == GateInv /\ UNCHANGED vars => GateInv'
BY DEF GateInv, vars, loaderVars, castVars, connVars, GateTyped, LoaderInv, ConnInv, OrderInv, InARow

LEMMA Loader_Inv == GateInv /\ Loader => GateInv'
<1> SUFFICES ASSUME GateInv, Loader PROVE GateInv'
  OBVIOUS
<1>1. ASSUME NEW c \in Conns, Send(c) PROVE GateInv'
  BY <1>1, Send_Inv
<1> QED
  BY <1>1, Quiet_Inv, Plain_Inv, PollAlert_Inv, Wait_Inv, SimStats_Inv, SimAlert_Inv, Cancel_Inv
     DEF Loader, LoaderGoesOn
----------------------------------------------------------------------------
(***************************************************************************)
(* THE PAGE                                                                *)
(***************************************************************************)
LEMMA PageInit_Inv == PageInit => PageInv
<1> SUFFICES ASSUME PageInit PROVE PageInv
  OBVIOUS
<1>1. \A a, b \in BOOLEAN : <<a, b>> \in [Runs -> BOOLEAN]
  BY DEF Runs
<1>2. \A a, b \in BOOLEAN : <<a, b>>[1] = a /\ <<a, b>>[2] = b
  OBVIOUS
<1>3. /\ mounted \in [Runs -> BOOLEAN] /\ pulling \in [Runs -> BOOLEAN] /\ timer \in [Runs -> BOOLEAN]
      /\ ~ (mounted[1] /\ mounted[2])
      /\ ~ timer[1] /\ ~ timer[2]
  BY <1>1, <1>2 DEF PageInit
<1> QED
  BY <1>3 DEF PageInit, PageInv, Runs

(* A run that is mounted opens a socket when all are closed.               *)
LEMMA ConnectWs_Inv ==
  ASSUME NEW run \in Runs, GateInv, PageInv, ConnectWs(run),
         mounted[run], UNCHANGED mounted,
         \A c \in PageConns : socket[c] = "closed",
         pulling' \in [Runs -> BOOLEAN], timer' \in [Runs -> BOOLEAN],
         ~ pulling'[run]
  PROVE  GateInv' /\ PageInv'
<1> DEFINE free == {c \in PageConns : socket[c] = "closed" /\ handler[c] = "ended" /\ ~ peer[c]
                                        /\ c \notin targets \cup stale}
           chosen == CHOOSE x \in free : TRUE
<1>1. free # {} /\ chosen \in free
  BY DEF ConnectWs
<1>2. chosen \in PageConns /\ chosen \in Conns
  BY <1>1, DashboardAssumption
<1> HIDE DEF chosen
<1>3. /\ IF server = "serving" THEN Connect(chosen) ELSE UNCHANGED vars
      /\ wsRef' = chosen
      /\ socket' = [socket EXCEPT ![chosen] = "connecting"]
  BY DEF ConnectWs, chosen
<1>4. GateInv'
  BY <1>2, <1>3, Connect_Inv, Unmoved_Inv
<1>5. \A r \in Runs : mounted[r] => ~ pulling'[r]
  BY DEF PageInv, Runs
<1>6. mounted[1] \/ mounted[2]
  BY DEF Runs
<1>7. /\ socket' \in [PageConns -> {"connecting", "open", "closed"}]
      /\ \A c \in PageConns : socket'[c] # "closed" => c = wsRef'
  BY <1>2, <1>3 DEF PageInv
<1>8. PageInv'
  BY <1>2, <1>3, <1>5, <1>6, <1>7 DEF PageInv
<1> QED
  BY <1>4, <1>8

(* The data has come: whoever waited for it had no socket yet.             *)
LEMMA PullDone_Inv ==
  ASSUME NEW run \in Runs, GateInv, PageInv, PullDone(run)
  PROVE  GateInv' /\ PageInv'
<1>1. /\ pulling[run] /\ UNCHANGED <<mounted, timer>>
      /\ pulling' = [pulling EXCEPT ![run] = FALSE]
  BY DEF PullDone
<1>2. pulling' \in [Runs -> BOOLEAN] /\ timer' \in [Runs -> BOOLEAN] /\ ~ pulling'[run]
  BY <1>1 DEF PageInv
<1>3. CASE mounted[run]
  <2>1. \A c \in PageConns : socket[c] = "closed"
    BY <1>1, <1>3 DEF PageInv
  <2>2. ConnectWs(run)
    BY <1>3 DEF PullDone
  <2> QED
    BY <1>1, <1>2, <1>3, <2>1, <2>2, ConnectWs_Inv
<1>4. CASE ~ mounted[run]
  <2>1. UNCHANGED <<vars, wsRef, socket>>
    BY <1>4 DEF PullDone
  <2>2. GateInv'
    BY <2>1, Unmoved_Inv
  <2>3. \A r \in Runs : pulling'[r] => pulling[r]
    BY <1>1 DEF PageInv
  <2>4. PageInv'
    BY <1>1, <1>2, <2>1, <2>3 DEF PageInv
  <2> QED
    BY <2>2, <2>4
<1> QED
  BY <1>3, <1>4

(* The timer of a mounted run finds the last socket closed, so all are.    *)
LEMMA Timer_Inv ==
  ASSUME NEW run \in Runs, GateInv, PageInv, Timer(run)
  PROVE  GateInv' /\ PageInv'
<1>1. /\ timer[run] /\ UNCHANGED <<mounted, pulling>>
      /\ timer' = [timer EXCEPT ![run] = FALSE]
  BY DEF Timer
<1>2. /\ pulling' \in [Runs -> BOOLEAN] /\ timer' \in [Runs -> BOOLEAN]
      /\ \A r \in Runs : timer'[r] => timer[r]
  BY <1>1 DEF PageInv
<1>3. CASE mounted[run] /\ (wsRef = None \/ socket[wsRef] = "closed")
  <2>1. \A c \in PageConns : socket[c] = "closed"
    BY <1>3, DashboardAssumption DEF PageInv
  <2>2. ~ pulling'[run]
    BY <1>1, <1>3 DEF PageInv
  <2>3. ConnectWs(run)
    BY <1>3 DEF Timer
  <2> QED
    BY <1>1, <1>2, <1>3, <2>1, <2>2, <2>3, ConnectWs_Inv
<1>4. CASE ~ (mounted[run] /\ (wsRef = None \/ socket[wsRef] = "closed"))
  <2>1. UNCHANGED <<vars, wsRef, socket>>
    BY <1>4 DEF Timer
  <2>2. GateInv'
    BY <2>1, Unmoved_Inv
  <2>3. PageInv'
    BY <1>1, <1>2, <2>1 DEF PageInv
  <2> QED
    BY <2>2, <2>3
<1> QED
  BY <1>3, <1>4

LEMMA SocketOpens_Inv ==
  ASSUME NEW c \in PageConns, GateInv, PageInv, SocketOpens(c)
  PROVE  GateInv' /\ PageInv'
<1>1. GateInv'
  BY Unmoved_Inv DEF SocketOpens
<1>2. PageInv'
  BY DEF SocketOpens, PageInv
<1> QED
  BY <1>1, <1>2

(* A run whose socket closed had its data long ago: its timer may be set.  *)
LEMMA SocketCloses_Inv ==
  ASSUME NEW c \in PageConns, GateInv, PageInv, SocketCloses(c)
  PROVE  GateInv' /\ PageInv'
<1>1. GateInv'
  BY Unmoved_Inv DEF SocketCloses
<1>2. /\ socket[c] # "closed"
      /\ socket' = [socket EXCEPT ![c] = "closed"]
      /\ UNCHANGED <<mounted, pulling, wsRef>>
      /\ timer' = [run \in Runs |-> timer[run] \/ (onclose[c] = run /\ mounted[run])]
  BY DEF SocketCloses
<1>3. timer' \in [Runs -> BOOLEAN]
  BY <1>2 DEF PageInv
<1>4. \A run \in Runs : mounted[run] => ~ pulling[run]
  BY <1>2 DEF PageInv
<1>5. /\ socket' \in [PageConns -> {"connecting", "open", "closed"}]
      /\ \A d \in PageConns : socket'[d] # "closed" => socket[d] # "closed"
  BY <1>2 DEF PageInv
<1>6. PageInv'
  BY <1>2, <1>3, <1>4, <1>5 DEF PageInv
<1> QED
  BY <1>1, <1>6

(* The clean-up closes the socket opened last: the only one there is.      *)
LEMMA Unmount_Inv ==
  ASSUME NEW run \in Runs, GateInv, PageInv, Unmount(run)
  PROVE  GateInv' /\ PageInv'
<1>1. /\ mounted' = [mounted EXCEPT ![run] = FALSE]
      /\ UNCHANGED <<pulling, timer, wsRef>>
  BY DEF Unmount
<1>2. /\ mounted' \in [Runs -> BOOLEAN]
      /\ \A r \in Runs : mounted'[r] => mounted[r]
  BY <1>1 DEF PageInv
<1>3. CASE wsRef = None
  <2>1. UNCHANGED <<vars, socket>>
    BY <1>3 DEF Unmount
  <2>2. \A c \in PageConns : socket[c] = "closed"
    BY <1>3, DashboardAssumption DEF PageInv
  <2>3. PageInv'
    BY <1>1, <1>2, <2>1, <2>2 DEF PageInv, Runs
  <2> QED
    BY <2>1, <2>3, Unmoved_Inv
<1>4. CASE wsRef # None
  <2>1. wsRef \in PageConns /\ wsRef \in Conns
    BY <1>4, DashboardAssumption DEF PageInv
  <2>2. /\ peer' = [peer EXCEPT ![wsRef] = FALSE]
        /\ socket' = [socket EXCEPT ![wsRef] = "closed"]
        /\ UNCHANGED <<loaderVars, castVars, active, handler, received, server, leaves>>
    BY <1>4 DEF Unmount
  <2>3. GateInv'
    BY <2>1, <2>2, Gone_Inv
  <2>4. /\ socket' \in [PageConns -> {"connecting", "open", "closed"}]
        /\ \A c \in PageConns : socket'[c] = "closed"
    BY <2>1, <2>2 DEF PageInv
  <2>5. PageInv'
    BY <1>1, <1>2, <2>4 DEF PageInv, Runs
  <2> QED
    BY <2>3, <2>5
<1> QED
  BY <1>3, <1>4

LEMMA GatewayStep_Inv ==
  ASSUME GateInv, PageInv, GatewayStep
  PROVE  GateInv' /\ PageInv'
<1>1. PageInv'
  BY DEF GatewayStep, pageVars, PageInv
<1>2. ASSUME NEW c \in Conns, Handler(c) \/ PeerLeaves(c) \/ Connect(c) PROVE GateInv'
  BY <1>2, Handler_Inv, Connect_Inv
<1>3. GateInv'
  BY <1>2, Loader_Inv, Server_Inv DEF GatewayStep
<1> QED
  BY <1>1, <1>3
----------------------------------------------------------------------------
(***************************************************************************)
(* THE THEOREMS                                                            *)
(***************************************************************************)
(* The invariant holds in every reachable state.                           *)
THEOREM DashboardInvariant == AllSpec => []DashboardInv
<1>1. AllInit => DashboardInv
  BY Init_Inv, PageInit_Inv DEF AllInit, DashboardInv
<1>2. DashboardInv /\ [AllNext]_allVars => DashboardInv'
  <2> SUFFICES ASSUME DashboardInv, [AllNext]_allVars PROVE DashboardInv'
    OBVIOUS
  <2>1. GateInv /\ PageInv
    BY DEF DashboardInv
  <2>2. CASE UNCHANGED allVars
    <3>1. GateInv'
      BY <2>1, <2>2, Unmoved_Inv DEF allVars
    <3>2. PageInv'
      BY <2>1, <2>2 DEF allVars, pageVars, PageInv
    <3> QED
      BY <3>1, <3>2 DEF DashboardInv
  <2>3. CASE GatewayStep
    BY <2>1, <2>3, GatewayStep_Inv DEF DashboardInv
  <2>4. CASE PageStep
    <3>1. ASSUME NEW run \in Runs, PullDone(run) \/ Timer(run) \/ Unmount(run)
          PROVE  GateInv' /\ PageInv'
      BY <2>1, <3>1, PullDone_Inv, Timer_Inv, Unmount_Inv
    <3>2. ASSUME NEW c \in PageConns, SocketOpens(c) \/ SocketCloses(c)
          PROVE  GateInv' /\ PageInv'
      BY <2>1, <3>2, SocketOpens_Inv, SocketCloses_Inv
    <3> QED
      BY <2>4, <3>1, <3>2 DEF PageStep, PageEvent, DashboardInv
  <2> QED
    BY <2>2, <2>3, <2>4 DEF AllNext
<1> QED
  BY <1>1, <1>2, PTL DEF AllSpec

(* What the components of the gateway and of the page hold at any moment:  *)
(* an active connection always has a handler that receives.                *)
THEOREM DashboardTypesCorrect == AllSpec => []TypeOK
<1>1. DashboardInv => TypeOK
  BY GatewayAssumption DEF DashboardInv, GateInv, GateTyped, ConnInv, PageInv, TypeOK
<1> QED
  BY <1>1, DashboardInvariant, PTL

(* Alerts are received in order, once and without a gap, whoever comes or  *)
(* leaves in the middle of a broadcast (connection_manager.py).            *)
THEOREM AlertsComeInOrder == AllSpec => []AlertsInOrder
<1>1. DashboardInv => AlertsInOrder
  BY DEF DashboardInv, GateInv, OrderInv, InARow, AlertsInOrder, GateTyped
<1> QED
  BY <1>1, DashboardInvariant, PTL

(* The page has at most one socket that is not closed while it is there,   *)
(* and none afterwards (DPIContext.jsx, the effect and its clean-up).      *)
THEOREM PageHasOneSocket == AllSpec => []OneSocketPerPage
<1>1. DashboardInv => OneSocketPerPage
  <2> SUFFICES ASSUME PageInv PROVE OneSocketPerPage
    BY DEF DashboardInv
  <2> DEFINE used == {c \in PageConns : socket[c] # "closed"}
             there == {run \in Runs : mounted[run]}
  <2>1. IsFiniteSet(Runs)
    <3>1. IsFiniteSet({}) /\ IsFiniteSet({} \cup {1}) /\ IsFiniteSet(({} \cup {1}) \cup {2})
      BY FS_EmptySet, FS_AddElement
    <3> QED
      BY <3>1 DEF Runs
  <2>2. IsFiniteSet(there) /\ Cardinality(there) \in Nat
    BY <2>1, FS_Subset, FS_CardinalityType
  <2>3. CASE used = {}
    BY <2>2, <2>3, FS_EmptySet DEF OneSocketPerPage
  <2>4. CASE used # {}
    <3>1. PICK c \in PageConns : socket[c] # "closed"
      BY <2>4
    <3>2. used = {c} /\ (mounted[1] \/ mounted[2])
      BY <3>1 DEF PageInv
    <3>3. Cardinality(used) = 1
      BY <3>2, FS_Singleton
    <3>4. there # {}
      BY <3>2 DEF Runs
    <3>5. Cardinality(there) # 0
      BY <2>2, <3>4, FS_EmptySet
    <3> QED
      BY <2>2, <3>3, <3>5 DEF OneSocketPerPage
  <2> QED
    BY <2>3, <2>4
<1> QED
  BY <1>1, DashboardInvariant, PTL
============================================================================

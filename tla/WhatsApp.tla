------------------------------- MODULE WhatsApp --------------------------------
(***************************************************************************)
(* The WhatsApp session of the API process (src/backend/src/services/      *)
(* whatsapp.service.ts).  initialize() makes a socket; when a socket       *)
(* closes, its handler starts a timer that calls initialize() again.  The  *)
(* sockets and WhatsApp's servers are external: of the sockets that one    *)
(* device opens, the servers keep the latest.                              *)
(***************************************************************************)
EXTENDS Integers

CONSTANTS
    Sockets,                 \* bound: sockets and calls of initialize() at a time
    MaxReconnectAttempts,    \* MAX_RECONNECT_ATTEMPTS
    MaxLosses                \* bound: connections that the network breaks

NoSocket == 0

(* What the composing module assumes of the constants.                     *)
WhatsAppConstants ==
    /\ Sockets \subseteq Nat \ {NoSocket} /\ Sockets # {}
    /\ {MaxReconnectAttempts, MaxLosses} \subseteq Nat

VARIABLES
    faults,              \* what may go wrong; never changes
    waSocket,            \* socket -> its state, from the call that makes it on
    current,             \* this.socket
    isConnected,
    reconnectAttempts,
    losses,
    closedInRow          \* history: sockets closed since one was last open

whatsAppVars == <<waSocket, current, isConnected, reconnectAttempts, losses, closedInRow>>

SocketStates == {"no", "timer", "credentials", "connecting", "open", "replaced", "ending"}

WhatsAppTypeOK ==
    /\ waSocket \in [Sockets -> SocketStates]
    /\ current \in Sockets \cup {NoSocket}
    /\ isConnected \in BOOLEAN
    /\ reconnectAttempts \in 0..MaxReconnectAttempts
    /\ losses \in 0..MaxLosses
    /\ closedInRow \in Nat

(* startServer() has called initialize(): WhatsApp is enabled.             *)
WhatsAppInit ==
    /\ LET first == CHOOSE s \in Sockets : TRUE IN
          waSocket = [s \in Sockets |-> IF s = first THEN "credentials" ELSE "no"]
    /\ current = NoSocket /\ isConnected = FALSE
    /\ reconnectAttempts = 0 /\ losses = 0 /\ closedInRow = 0

Becomes(s, state) == waSocket' = [waSocket EXCEPT ![s] = state]

---------------------------------------------------------------------------
(* An administrator asks for a new socket, whether there is one or not.    *)
Initialize(s) ==
    /\ "admin" \in faults /\ waSocket[s] = "no"
    /\ Becomes(s, "credentials")
    /\ UNCHANGED <<current, isConnected, reconnectAttempts, losses, closedInRow>>

(* The timer calls initialize().                                           *)
TimerFires(s) ==
    /\ waSocket[s] = "timer"
    /\ Becomes(s, "credentials")
    /\ UNCHANGED <<current, isConnected, reconnectAttempts, losses, closedInRow>>

(* useMultiFileAuthState() answered: the socket replaces this.socket.      *)
MakeSocket(s) ==
    /\ waSocket[s] = "credentials"
    /\ Becomes(s, "connecting") /\ current' = s
    /\ UNCHANGED <<isConnected, reconnectAttempts, losses, closedInRow>>

(* ... or threw: initialize() logs it and nothing calls it again.          *)
InitializeThrows(s) ==
    /\ waSocket[s] = "credentials" /\ "keys" \in faults
    /\ Becomes(s, "no")
    /\ UNCHANGED <<current, isConnected, reconnectAttempts, losses, closedInRow>>

(* Seeded fault: the attempts are not counted anew after a connection.     *)
OpensWithoutReset(s) ==
    /\ waSocket[s] = "connecting"
    /\ waSocket' = [t \in Sockets |->
          IF t = s THEN "open" ELSE IF waSocket[t] = "open" THEN "replaced" ELSE waSocket[t]]
    /\ isConnected' = TRUE /\ closedInRow' = 0
    /\ UNCHANGED <<current, losses, reconnectAttempts>>

(* connection === 'open', of any socket.                                   *)
ConnectionOpens(s) ==
    /\ waSocket[s] = "connecting"
    /\ waSocket' = [t \in Sockets |->
          IF t = s THEN "open" ELSE IF waSocket[t] = "open" THEN "replaced" ELSE waSocket[t]]
    /\ isConnected' = TRUE /\ reconnectAttempts' = 0 /\ closedInRow' = 0
    /\ UNCHANGED <<current, losses>>

(* connection === 'close', of any socket; the timer that its handler       *)
(* starts will make a socket in its place.                                 *)
HandleClose(s) ==
    /\ isConnected' = FALSE
    /\ closedInRow' = closedInRow + 1
    /\ IF reconnectAttempts >= MaxReconnectAttempts
       THEN Becomes(s, "no") /\ UNCHANGED reconnectAttempts
       ELSE Becomes(s, "timer") /\ reconnectAttempts' = reconnectAttempts + 1
    /\ UNCHANGED current

(* The network breaks a connection, or one is not made.                    *)
ConnectionLost(s) ==
    /\ waSocket[s] \in {"connecting", "open"} /\ losses < MaxLosses
    /\ losses' = losses + 1
    /\ HandleClose(s)

(* The servers close a socket that was replaced, or end() closes it.       *)
ConnectionClosed(s) ==
    /\ waSocket[s] \in {"replaced", "ending"}
    /\ HandleClose(s) /\ UNCHANGED losses

(* DisconnectReason.loggedOut: an administrator has to pair again.         *)
LoggedOut(s) ==
    /\ "logout" \in faults /\ waSocket[s] = "open"
    /\ isConnected' = FALSE /\ closedInRow' = closedInRow + 1
    /\ Becomes(s, "no")
    /\ UNCHANGED <<current, reconnectAttempts, losses>>

(* disconnect(), called by the shutdown of the process.                    *)
Disconnect ==
    /\ "stops" \in faults /\ current # NoSocket
    /\ waSocket' = [waSocket EXCEPT ![current] =
          IF @ \in {"connecting", "open", "replaced"} THEN "ending" ELSE @]
    /\ current' = NoSocket /\ isConnected' = FALSE
    /\ UNCHANGED <<reconnectAttempts, losses, closedInRow>>

SessionStep(s) == TimerFires(s) \/ MakeSocket(s) \/ ConnectionOpens(s) \/ ConnectionClosed(s)

WhatsAppNext ==
    /\ \/ \E s \in Sockets :
             \/ SessionStep(s)
             \/ Initialize(s) \/ InitializeThrows(s) \/ ConnectionLost(s) \/ LoggedOut(s)
       \/ Disconnect
    /\ UNCHANGED faults

---------------------------------------------------------------------------
(* Properties                                                              *)

GaveUp == closedInRow > MaxReconnectAttempts

Usable == isConnected /\ current # NoSocket /\ waSocket[current] = "open"

(* However often the network breaks the connection, while nobody else asks *)
(* for a socket the service is connected again in the end, and what it     *)
(* sends goes to the open socket, unless as many sockets as it may try     *)
(* closed in a row.                                                        *)
ConnectionRecovers == faults = {} => <>[](Usable \/ GaveUp)
=============================================================================

----------------------------- MODULE WebSocket -----------------------------
(***************************************************************************)
(* The browsers that listen for messages (components/web_server).  The     *)
(* httpd task accepts and closes connections and enters the descriptor of  *)
(* a WebSocket into s_ws_fds; nothing takes it out when the connection     *)
(* ends.  The modem's reader sends every message to every descriptor it    *)
(* finds there, without a lock, and removes those a send fails on.  A      *)
(* descriptor is used again for the next connection, WebSocket or not.     *)
(***************************************************************************)
EXTENDS Naturals, FiniteSets

CONSTANTS
  Fds,          \* descriptors the network stack may give the server
  MaxOpen,      \* max_open_sockets, 4
  MaxWsClients, \* MAX_WS_CLIENTS, 4
  MaxSessions,  \* bound: connections accepted
  MaxMessages   \* bound: messages the modem delivers

Slots == 1..MaxWsClients

ASSUME SizeAssumption == MaxOpen \in Nat \ {0} /\ MaxWsClients \in Nat /\ MaxOpen <= MaxWsClients
ASSUME FdAssumption == IsFiniteSet(Fds) /\ Fds \subseteq Nat \ {0}

VARIABLES
  s_server_handle, \* has web_server_start run?
  s_ws_fds,
  session,   \* the connection the server has on a descriptor, 0 if none
  sessions,  \* number of connections accepted: a connection's name
  adding,    \* ws_add: its descriptor (0 outside) and the slot it looks at
  seated,    \* connections ws_add found a slot for
  away,      \* those it found none for, and whether it had to
  cast,      \* web_server_ws_broadcast_sms: at which slot, and the descriptor
             \* a send has failed on
  audience,  \* seated connections that have been open since it began
  vacant,    \* descriptors that have been closed since it began
  heard,     \* connections it has sent the message to
  dropped,   \* connections a send failed on although they were open
  messages

httpdVars == <<s_server_handle, session, sessions, adding, seated, away>>
castVars == <<cast, heard, dropped, messages>>
vars == <<httpdVars, castVars, s_ws_fds, audience, vacant>>

Open == {fd \in Fds : session[fd] # 0}
Idle == [at |-> "idle", i |-> 0, fd |-> 0]
NotAdding == [fd |-> 0, i |-> 0]

Init ==
  /\ s_server_handle = FALSE
  /\ s_ws_fds = [i \in Slots |-> 0]
  /\ session = [fd \in Fds |-> 0] /\ sessions = 0
  /\ adding = NotAdding /\ seated = {} /\ away = {}
  /\ cast = Idle /\ audience = {} /\ vacant = {} /\ heard = {} /\ dropped = {}
  /\ messages = 0

-----------------------------------------------------------------------------
(* The httpd task; between two requests it accepts and closes.             *)

WebServerStart ==
  /\ ~s_server_handle /\ s_server_handle' = TRUE
  /\ s_ws_fds' = [i \in Slots |-> 0]
  /\ UNCHANGED <<session, sessions, adding, seated, away, castVars, audience, vacant>>

Accept(fd) ==
  /\ s_server_handle /\ adding = NotAdding
  /\ session[fd] = 0 /\ Cardinality(Open) < MaxOpen
  /\ sessions < MaxSessions /\ sessions' = sessions + 1
  /\ session' = [session EXCEPT ![fd] = sessions + 1]
  /\ vacant' = vacant \ {fd}
  /\ UNCHANGED <<s_server_handle, s_ws_fds, adding, seated, away, castVars, audience>>

(* Mutation: a connection is closed by another task, at any time.          *)
CloseAny(fd) ==
  /\ session[fd] # 0
  /\ session' = [session EXCEPT ![fd] = 0]
  /\ audience' = audience \ {session[fd]}
  /\ UNCHANGED <<s_server_handle, s_ws_fds, sessions, adding, seated, away, castVars, vacant>>

(* The browser has gone, or is the least recently used one when another    *)
(* comes; s_ws_fds is left as it is: handler_ws is not called for it.      *)
Close(fd) ==
  /\ adding = NotAdding /\ session[fd] # 0
  /\ session' = [session EXCEPT ![fd] = 0]
  /\ audience' = audience \ {session[fd]}
  /\ UNCHANGED <<s_server_handle, s_ws_fds, sessions, adding, seated, away, castVars, vacant>>

(* handler_ws, GET                                                         *)
Upgrade(fd) ==
  /\ adding = NotAdding /\ session[fd] # 0
  /\ session[fd] \notin seated \cup away
  /\ adding' = [fd |-> fd, i |-> 1]
  /\ UNCHANGED <<s_server_handle, s_ws_fds, session, sessions, seated, away, castVars,
                 audience, vacant>>

(* ws_add, one slot at a time.                                             *)
AddTakes ==
  /\ adding.i \in Slots /\ s_ws_fds[adding.i] = 0
  /\ s_ws_fds' = [s_ws_fds EXCEPT ![adding.i] = adding.fd]
  /\ seated' = seated \cup {session[adding.fd]}
  /\ adding' = NotAdding
  /\ UNCHANGED <<s_server_handle, session, sessions, away, castVars, audience, vacant>>

AddLooksOn ==
  /\ adding.i \in Slots /\ s_ws_fds[adding.i] # 0
  /\ adding' = [adding EXCEPT !.i = @ + 1]
  /\ UNCHANGED <<s_server_handle, s_ws_fds, session, sessions, seated, away, castVars,
                 audience, vacant>>

AddFindsNone ==
  /\ adding.fd # 0 /\ adding.i \notin Slots
  /\ away' = away \cup {session[adding.fd]}
  /\ adding' = NotAdding
  /\ UNCHANGED <<s_server_handle, s_ws_fds, session, sessions, seated, castVars, audience,
                 vacant>>

Httpd ==
  \/ WebServerStart \/ AddTakes \/ AddLooksOn \/ AddFindsNone
  \/ \E fd \in Fds : Accept(fd) \/ Close(fd) \/ Upgrade(fd)

-----------------------------------------------------------------------------
(* The modem's reader: web_server_ws_broadcast_sms.                        *)

CastBegin ==
  /\ cast = Idle /\ s_server_handle
  /\ messages < MaxMessages /\ messages' = messages + 1
  /\ cast' = [at |-> "send", i |-> 1, fd |-> 0]
  /\ heard' = {}
  /\ audience' = seated \cap {session[fd] : fd \in Fds}
  /\ vacant' = Fds \ Open
  /\ UNCHANGED <<httpdVars, s_ws_fds, dropped>>

Sending == cast.at = "send" /\ cast.i \in Slots
NextSlot == cast' = [cast EXCEPT !.i = @ + 1]

CastSkips ==
  /\ Sending /\ s_ws_fds[cast.i] = 0
  /\ NextSlot
  /\ UNCHANGED <<httpdVars, s_ws_fds, audience, vacant, heard, dropped, messages>>

(* httpd_ws_send_frame_async writes to any connection of the server.       *)
CastReaches ==
  /\ Sending /\ s_ws_fds[cast.i] \in Open
  /\ heard' = heard \cup {session[s_ws_fds[cast.i]]}
  /\ NextSlot
  /\ UNCHANGED <<httpdVars, s_ws_fds, audience, vacant, dropped, messages>>

(* Mutation: a send that fails ends the loop.                              *)
CastFailsAndReturns ==
  /\ Sending /\ s_ws_fds[cast.i] # 0
  /\ cast' = [at |-> "send", i |-> MaxWsClients + 1, fd |-> 0]
  /\ dropped' = dropped \cup ({session[s_ws_fds[cast.i]]} \ {0})
  /\ s_ws_fds' = [s_ws_fds EXCEPT ![cast.i] = 0]
  /\ UNCHANGED <<httpdVars, audience, vacant, heard, messages>>

(* There is no connection, or it takes no more.                            *)
CastFails ==
  /\ Sending /\ s_ws_fds[cast.i] # 0
  /\ cast' = [cast EXCEPT !.at = "remove", !.fd = s_ws_fds[cast.i]]
  /\ dropped' = dropped \cup ({session[s_ws_fds[cast.i]]} \ {0})
  /\ UNCHANGED <<httpdVars, s_ws_fds, audience, vacant, heard, messages>>

(* Mutation: ws_remove clears every slot with the descriptor.              *)
CastRemovesAll ==
  /\ cast.at = "remove"
  /\ s_ws_fds' = [j \in Slots |-> IF s_ws_fds[j] = cast.fd THEN 0 ELSE s_ws_fds[j]]
  /\ cast' = [at |-> "send", i |-> cast.i + 1, fd |-> 0]
  /\ UNCHANGED <<httpdVars, audience, vacant, heard, dropped, messages>>

(* ws_remove clears the first slot that has the descriptor; it does not    *)
(* see one that ws_add fills behind it.                                    *)
CastRemoves ==
  /\ cast.at = "remove"
  /\ \E j \in 1..cast.i :
       /\ s_ws_fds[j] = cast.fd
       /\ s_ws_fds' = [s_ws_fds EXCEPT ![j] = 0]
  /\ cast' = [at |-> "send", i |-> cast.i + 1, fd |-> 0]
  /\ UNCHANGED <<httpdVars, audience, vacant, heard, dropped, messages>>

CastEnd ==
  /\ cast.at = "send" /\ cast.i \notin Slots
  /\ cast' = Idle
  /\ UNCHANGED <<httpdVars, s_ws_fds, audience, vacant, heard, dropped, messages>>

Reader == CastBegin \/ CastSkips \/ CastReaches \/ CastFails \/ CastRemoves \/ CastEnd

Next == Httpd \/ Reader

Spec == Init /\ [][Next]_vars

-----------------------------------------------------------------------------
(* Every variable has the values the code can give it, and no two          *)
(* descriptors have the same connection.                                   *)
TypeOK ==
  /\ s_server_handle \in BOOLEAN
  /\ s_ws_fds \in [Slots -> Fds \cup {0}]
  /\ sessions \in Nat /\ messages \in Nat
  /\ session \in [Fds -> 0..sessions]
  /\ \A f, g \in Open : session[f] = session[g] => f = g
  /\ adding \in [fd : Fds \cup {0}, i : 0..(MaxWsClients + 1)]
  /\ adding.fd \in Open \cup {0} /\ (adding.fd = 0 <=> adding = NotAdding)
  /\ cast \in [at : {"idle", "send", "remove"}, i : 0..(MaxWsClients + 1), fd : Fds \cup {0}]
  /\ seated \subseteq 1..sessions /\ away \subseteq 1..sessions /\ dropped \subseteq 1..sessions
  /\ audience \subseteq 1..sessions /\ heard \subseteq 1..sessions
  /\ vacant \subseteq Fds

Live(fd) == fd \in Open /\ session[fd] \in seated \ dropped

(* A connected browser that has had a slot keeps one, unless a send to it  *)
(* failed: what is removed for a connection that has gone is never the     *)
(* only entry of the one that has its descriptor now, whichever of the two *)
(* tasks is faster.                                                        *)
SeatKept == \A fd \in Fds : Live(fd) => \E i \in Slots : s_ws_fds[i] = fd

(* When a broadcast is over, every browser that was connected all the time *)
(* has been sent the message, whoever else came, went or failed meanwhile. *)
BroadcastReaches == cast = Idle => audience \ dropped \subseteq heard

(* And s_ws_fds has no descriptor left that was closed all the time.       *)
StaleCleared ==
  cast.at = "send" /\ cast.i \notin Slots => \A i \in Slots : s_ws_fds[i] \notin vacant

(* A browser that finds no slot is turned away by entries that belong to   *)
(* nobody, or that are there twice, never by four connected ones; or a     *)
(* slot was given back while it looked.                                    *)
TurnedAwayByStale ==
  [][away' # away =>
       \/ \E i \in Slots : s_ws_fds[i] \notin Open \ {adding.fd}
       \/ \E i, j \in Slots : i # j /\ s_ws_fds[i] = s_ws_fds[j]]_vars

=============================================================================

---------------------------- MODULE LiveDashboard ---------------------------
(* Live updates of the dashboard: the hub in backend/internal/ws/hub.go     *)
(* with its broadcaster and the two goroutines of every connection, and the *)
(* pages that listen (frontend/lib/ws/hooks.ts, frontend/app/page.tsx).     *)
(*                                                                          *)
(* The server list is its version; pages show the one they received last.   *)
(* The hub's lock is held while a broadcast goes over the clients: add and  *)
(* remove wait for its end.  A connection is reused by the model when both  *)
(* of its ends are done with it.                                            *)
EXTENDS Integers, Sequences, FiniteSets

CONSTANTS Conn,       \* connections
          Page,       \* browser tabs that show the dashboard
          MaxVersion, \* bound of the model: changes of the server list
          MaxBreaks,  \* bound of the model: connections that break
          Buffer,     \* messages a connection's channel holds (16 in the code)
          Wire        \* messages that fit between the two ends of a socket

ASSUME LiveLimits == /\ MaxVersion \in Nat /\ MaxBreaks \in Nat
                     /\ Buffer \in Nat \ {0} /\ Wire \in Nat \ {0}
ASSUME NoConnAssumption == <<>> \notin Conn

VARIABLES version,   \* of the stored server list
          clients,   \* the hub's connections
          chan,      \* the channel of each
          closed,    \* connections whose channel was closed
          panicked,  \* a closed channel was sent to, or closed again
          caster,    \* the broadcaster: "idle", "ready" to lock, "sending"
          payload,   \* its snapshot
          unsent,    \* clients it has not come to
          writer,    \* "none", "take", "write", "remove" or "close", for each connection
          out,       \* what the writer writes
          reader,    \* "none", "read", "remove" or "close"
          sock,      \* "open", "left" by the page, "shut" by the hub, "broken", "dead" (both)
          wire,      \* what is on its way to the page
          breaks,
          ws,        \* the connection of each page, or none
          seed,      \* its REST request: "none" before the tab is opened,
                     \* "asked", "answered" or "done"
          answer,    \* the version it was answered with
          shown,     \* the version it shows; -1 while it is loading or shows an error
          latest     \* history: the newest version it received over a connection

hubVars == <<clients, chan, closed, panicked>>
castVars == <<caster, payload, unsent>>
connVars == <<writer, out, reader>>
netVars == <<sock, wire, breaks>>
pageVars == <<ws, seed, answer, shown, latest>>
ldVars == <<version, hubVars, castVars, connVars, netVars, pageVars>>

NoConn == <<>>
Unlocked == caster # "sending"

LDInit ==
  /\ version = 0
  /\ clients = {} /\ chan = [c \in Conn |-> <<>>] /\ closed = {} /\ panicked = FALSE
  /\ caster = "idle" /\ payload = 0 /\ unsent = {}
  /\ writer = [c \in Conn |-> "none"] /\ out = [c \in Conn |-> 0]
  /\ reader = [c \in Conn |-> "none"]
  /\ sock = [c \in Conn |-> "none"] /\ wire = [c \in Conn |-> <<>>] /\ breaks = 0
  /\ ws = [p \in Page |-> NoConn]
  /\ seed = [p \in Page |-> "none"] /\ answer = [p \in Page |-> 0]
  /\ shown = [p \in Page |-> -1] /\ latest = [p \in Page |-> -1]

(* The stored list changes.                                                 *)
Change ==
  /\ version < MaxVersion /\ version' = version + 1
  /\ UNCHANGED <<hubVars, castVars, connVars, netVars, pageVars>>

-----------------------------------------------------------------------------
(* Handler upgrades the connection, adds it and starts its goroutines.      *)
Free(c) == /\ c \notin clients /\ writer[c] = "none" /\ reader[c] = "none"
           /\ \A p \in Page : ws[p] # c

(* A tab is opened on the dashboard: its effects ask for the list, ...      *)
OpenTab(p) ==
  /\ seed[p] = "none" /\ seed' = [seed EXCEPT ![p] = "asked"]
  /\ UNCHANGED <<version, hubVars, castVars, connVars, netVars, ws, answer, shown, latest>>

(* ... and connect.                                                         *)
Connect(p, c) ==
  /\ seed[p] # "none" /\ ws[p] = NoConn /\ Free(c) /\ Unlocked
  /\ ws' = [ws EXCEPT ![p] = c]
  /\ sock' = [sock EXCEPT ![c] = "open"] /\ wire' = [wire EXCEPT ![c] = <<>>]
  /\ clients' = clients \cup {c} /\ chan' = [chan EXCEPT ![c] = <<>>]
  /\ closed' = closed \ {c}
  /\ writer' = [writer EXCEPT ![c] = "take"] /\ reader' = [reader EXCEPT ![c] = "read"]
  /\ UNCHANGED <<version, panicked, castVars, out, breaks, seed, answer, shown, latest>>

(* The broadcaster's tick: it takes a snapshot if there are clients, ...    *)
Prepare ==
  /\ caster = "idle" /\ clients # {}
  /\ caster' = "ready" /\ payload' = version
  /\ UNCHANGED <<version, hubVars, unsent, connVars, netVars, pageVars>>

(* ... and does nothing if there are none;                                  *)
NoClients == caster = "idle" /\ clients = {} /\ UNCHANGED ldVars

(* ... locks, ...                                                           *)
Lock ==
  /\ caster = "ready"
  /\ caster' = "sending" /\ unsent' = clients
  /\ UNCHANGED <<version, hubVars, payload, connVars, netVars, pageVars>>

(* ... sends to each client that has room, ...                              *)
Send(c) ==
  /\ caster = "sending" /\ c \in unsent
  /\ unsent' = unsent \ {c}
  /\ panicked' = (panicked \/ c \in closed)
  /\ chan' = IF Len(chan[c]) < Buffer THEN [chan EXCEPT ![c] = Append(@, payload)] ELSE chan
  /\ UNCHANGED <<version, clients, closed, caster, payload, connVars, netVars, pageVars>>

(* ... and unlocks.                                                         *)
Unlock ==
  /\ caster = "sending" /\ unsent = {}
  /\ caster' = "idle"
  /\ UNCHANGED <<version, hubVars, payload, unsent, connVars, netVars, pageVars>>

(* The writer goroutine's loop.                                             *)
Take(c) ==
  /\ writer[c] = "take" /\ chan[c] # <<>>
  /\ out' = [out EXCEPT ![c] = Head(chan[c])]
  /\ chan' = [chan EXCEPT ![c] = Tail(@)]
  /\ writer' = [writer EXCEPT ![c] = "write"]
  /\ UNCHANGED <<version, clients, closed, panicked, castVars, reader, netVars, pageVars>>

ChannelEnds(c) ==
  /\ writer[c] = "take" /\ chan[c] = <<>> /\ c \in closed
  /\ writer' = [writer EXCEPT ![c] = "none"]
  /\ UNCHANGED <<version, hubVars, castVars, out, reader, netVars, pageVars>>

WriteMessage(c) ==
  /\ writer[c] = "write" /\ sock[c] \in {"open", "broken"} /\ Len(wire[c]) < Wire
  /\ wire' = [wire EXCEPT ![c] = Append(@, out[c])]
  /\ writer' = [writer EXCEPT ![c] = "take"]
  /\ UNCHANGED <<version, hubVars, castVars, out, reader, sock, breaks, pageVars>>

(* Mutant of WriteFails: the goroutine just returns.                        *)
WriteFailsQuietly(c) ==
  /\ writer[c] = "write"
  /\ sock[c] \in {"left", "shut", "dead"} \/ (sock[c] = "broken" /\ Len(wire[c]) = Wire)
  /\ writer' = [writer EXCEPT ![c] = "none"]
  /\ UNCHANGED <<version, hubVars, castVars, out, reader, netVars, pageVars>>

(* The socket is not there any more, or the deadline passes: a page that is *)
(* there takes what is on the wire in time.                                 *)
WriteFails(c) ==
  /\ writer[c] = "write"
  /\ sock[c] \in {"left", "shut", "dead"} \/ (sock[c] = "broken" /\ Len(wire[c]) = Wire)
  /\ writer' = [writer EXCEPT ![c] = "remove"]
  /\ UNCHANGED <<version, hubVars, castVars, out, reader, netVars, pageVars>>

(* The reader goroutine sees that the page has left or the hub has closed;  *)
(* it learns nothing of a connection that broke.                            *)
ReadFails(c) ==
  /\ reader[c] = "read" /\ sock[c] \in {"left", "shut", "dead"}
  /\ reader' = [reader EXCEPT ![c] = "remove"]
  /\ UNCHANGED <<version, hubVars, castVars, writer, out, netVars, pageVars>>

(* Mutant of RemoveConn: it does not take the lock.                         *)
RemoveUnlocked(c) ==
  /\ closed' = IF c \in clients THEN closed \cup {c} ELSE closed
  /\ clients' = clients \ {c}
  /\ UNCHANGED <<panicked, chan>>

(* The locked part of remove, ...                                           *)
RemoveConn(c) ==
  /\ Unlocked
  /\ IF c \in clients THEN /\ panicked' = (panicked \/ c \in closed)
                           /\ closed' = closed \cup {c}
                           /\ clients' = clients \ {c}
                      ELSE UNCHANGED <<panicked, closed, clients>>
  /\ UNCHANGED chan

WriterRemoves(c) ==
  /\ writer[c] = "remove" /\ writer' = [writer EXCEPT ![c] = "close"]
  /\ RemoveConn(c)
  /\ UNCHANGED <<version, castVars, out, reader, netVars, pageVars>>

ReaderRemoves(c) ==
  /\ reader[c] = "remove" /\ reader' = [reader EXCEPT ![c] = "close"]
  /\ RemoveConn(c)
  /\ UNCHANGED <<version, castVars, writer, out, netVars, pageVars>>

(* ... and conn.Close after it; what a broken connection carried is lost.   *)
Shut(c) == IF sock[c] \in {"broken", "dead"} THEN "dead" ELSE "shut"

WriterCloses(c) ==
  /\ writer[c] = "close" /\ writer' = [writer EXCEPT ![c] = "none"]
  /\ sock' = [sock EXCEPT ![c] = Shut(c)]
  /\ UNCHANGED <<version, hubVars, castVars, out, reader, wire, breaks, pageVars>>

ReaderCloses(c) ==
  /\ reader[c] = "close" /\ reader' = [reader EXCEPT ![c] = "none"]
  /\ sock' = [sock EXCEPT ![c] = Shut(c)]
  /\ UNCHANGED <<version, hubVars, castVars, writer, out, wire, breaks, pageVars>>

-----------------------------------------------------------------------------
(* The connection breaks with neither end being told.                       *)
Break(c) ==
  /\ sock[c] = "open" /\ breaks < MaxBreaks /\ breaks' = breaks + 1
  /\ sock' = [sock EXCEPT ![c] = "broken"]
  /\ UNCHANGED <<version, hubVars, castVars, connVars, wire, pageVars>>

(* Mutant of Receive: messages of an earlier connection still count.        *)
ReceiveAny(p, c) ==
  /\ ws[p] # NoConn /\ sock[c] \notin {"broken", "dead"} /\ wire[c] # <<>>
  /\ shown' = [shown EXCEPT ![p] = Head(wire[c])]
  /\ latest' = [latest EXCEPT ![p] = Head(wire[c])]
  /\ wire' = [wire EXCEPT ![c] = Tail(@)]
  /\ UNCHANGED <<version, hubVars, castVars, connVars, sock, breaks, ws, seed, answer>>

(* ws.onmessage.                                                            *)
Receive(p, c) ==
  /\ ws[p] = c /\ sock[c] \notin {"broken", "dead"} /\ wire[c] # <<>>
  /\ shown' = [shown EXCEPT ![p] = Head(wire[c])]
  /\ latest' = [latest EXCEPT ![p] = Head(wire[c])]
  /\ wire' = [wire EXCEPT ![c] = Tail(@)]
  /\ UNCHANGED <<version, hubVars, castVars, connVars, sock, breaks, ws, seed, answer>>

(* Mutant of OnClose: no retry after a connection that broke.               *)
OnCloseClean(p) ==
  /\ ws[p] # NoConn
  /\ sock[ws[p]] = "shut" /\ wire[ws[p]] = <<>>
  /\ ws' = [ws EXCEPT ![p] = NoConn]
  /\ UNCHANGED <<version, hubVars, castVars, connVars, netVars, seed, answer, shown, latest>>

(* ws.onclose, by the hub or the browser: connect is called again.  The     *)
(* browser gives up a broken connection at some time.                       *)
OnClose(p) ==
  /\ ws[p] # NoConn
  /\ sock[ws[p]] \in {"broken", "dead"} \/ (sock[ws[p]] = "shut" /\ wire[ws[p]] = <<>>)
  /\ ws' = [ws EXCEPT ![p] = NoConn]
  /\ UNCHANGED <<version, hubVars, castVars, connVars, netVars, seed, answer, shown, latest>>

(* The page is closed and opened again.                                     *)
Reload(p) ==
  /\ ws[p] # NoConn /\ breaks < MaxBreaks /\ breaks' = breaks + 1
  /\ sock' = [sock EXCEPT ![ws[p]] = IF @ = "open" THEN "left" ELSE @]
  /\ ws' = [ws EXCEPT ![p] = NoConn]
  /\ seed' = [seed EXCEPT ![p] = "asked"]
  /\ shown' = [shown EXCEPT ![p] = -1] /\ latest' = [latest EXCEPT ![p] = -1]
  /\ UNCHANGED <<version, hubVars, castVars, connVars, wire, answer>>

(* The REST request that seeds the page is answered, arrives, or fails.     *)
Answer(p) ==
  /\ seed[p] = "asked" /\ seed' = [seed EXCEPT ![p] = "answered"]
  /\ answer' = [answer EXCEPT ![p] = version]
  /\ UNCHANGED <<version, hubVars, castVars, connVars, netVars, ws, shown, latest>>

Seed(p) ==
  /\ seed[p] = "answered" /\ seed' = [seed EXCEPT ![p] = "done"]
  /\ shown' = [shown EXCEPT ![p] = answer[p]]
  /\ UNCHANGED <<version, hubVars, castVars, connVars, netVars, ws, answer, latest>>

(* The error also hides a list that a push has brought, until the next one. *)
SeedFails(p) ==
  /\ seed[p] \in {"asked", "answered"} /\ seed' = [seed EXCEPT ![p] = "done"]
  /\ shown' = [shown EXCEPT ![p] = -1]
  /\ UNCHANGED <<version, hubVars, castVars, connVars, netVars, ws, answer, latest>>

Broadcaster == Prepare \/ NoClients \/ Lock \/ (\E c \in Conn : Send(c)) \/ Unlock
Writer(c) == \/ Take(c) \/ ChannelEnds(c) \/ WriteMessage(c) \/ WriteFails(c)
             \/ WriterRemoves(c) \/ WriterCloses(c)
Reader(c) == ReadFails(c) \/ ReaderRemoves(c) \/ ReaderCloses(c)

LDNext ==
  \/ Change \/ Broadcaster
  \/ \E c \in Conn : Writer(c) \/ Reader(c) \/ Break(c)
  \/ \E p \in Page : \/ \E c \in Conn : Connect(p, c) \/ Receive(p, c)
                     \/ OpenTab(p) \/ OnClose(p) \/ Reload(p) \/ Answer(p) \/ Seed(p) \/ SeedFails(p)

LDSpec == LDInit /\ [][LDNext]_ldVars

(* The ticker ticks, goroutines run, the lock is granted to who waits (Go's *)
(* RWMutex lets no later reader overtake a waiting writer), and browsers    *)
(* run their handlers and retry.                                            *)
LDFairness ==
  /\ WF_ldVars(Broadcaster)
  /\ \A c \in Conn : /\ WF_ldVars(\/ Take(c) \/ ChannelEnds(c) \/ WriteMessage(c)
                                 \/ WriteFails(c) \/ WriterCloses(c))
                     /\ WF_ldVars(ReadFails(c) \/ ReaderCloses(c))
                     /\ SF_ldVars(WriterRemoves(c)) /\ SF_ldVars(ReaderRemoves(c))
  /\ \A p \in Page : /\ SF_ldVars(\E c \in Conn : Connect(p, c))
                     /\ WF_ldVars(\E c \in Conn : Receive(p, c)) /\ WF_ldVars(OnClose(p))
                     /\ WF_ldVars(Answer(p) \/ Seed(p))

-----------------------------------------------------------------------------
Snapshot == 0..MaxVersion

LDTypeOK ==
  /\ version \in Snapshot /\ payload \in Snapshot /\ out \in [Conn -> Snapshot]
  /\ clients \subseteq Conn /\ closed \subseteq Conn /\ unsent \subseteq clients
  /\ \A c \in Conn : /\ chan[c] \in Seq(Snapshot) /\ Len(chan[c]) <= Buffer
                     /\ wire[c] \in Seq(Snapshot) /\ Len(wire[c]) <= Wire
  /\ caster \in {"idle", "ready", "sending"}
  /\ writer \in [Conn -> {"none", "take", "write", "remove", "close"}]
  /\ reader \in [Conn -> {"none", "read", "remove", "close"}]
  /\ sock \in [Conn -> {"none", "open", "broken", "left", "shut", "dead"}]
  /\ ws \in [Page -> Conn \cup {NoConn}]
  /\ seed \in [Page -> {"none", "asked", "answered", "done"}] /\ answer \in [Page -> Snapshot]
  /\ shown \in [Page -> {-1} \cup Snapshot]

(* Nothing is sent to a channel that is closed, nor is one closed twice,    *)
(* although the writer and the reader of a connection can both remove it    *)
(* while a broadcast is under way: either would end the panel.              *)
NoPanic == ~ panicked

(* A page that listens does not go back to an older list by what it         *)
(* receives, nor is it sent one that has not been, also not over a new      *)
(* connection while the old one's writer is still at work (LiveFeed).       *)
Feed == INSTANCE LiveFeed WITH
          current <- version,
          connected <- {p \in Page : ws[p] # NoConn},
          got <- latest
ImplementsLiveFeed == Feed!LFSpec

(* "this hook then keeps it fresh" (hooks.ts:22): a page that was seeded or *)
(* has received a list never shows an older one afterwards.                 *)
SeededThenFresh == [][\A p \in Page : shown'[p] >= shown[p] \/ shown'[p] = -1]_ldVars

(* The hub's clients are connections that it has not closed, each with both *)
(* of its goroutines; one that it has dropped has a closed channel and, but *)
(* for the moment before conn.Close, a closed socket, at which the          *)
(* goroutines that are left will end.                                       *)
ClientsServed ==
  \A c \in Conn :
    /\ c \in clients => /\ sock[c] \in {"open", "left", "broken"}
                        /\ writer[c] \notin {"none", "close"} /\ reader[c] \notin {"none", "close"}
    /\ c \notin clients => \/ sock[c] \in {"none", "shut", "dead"}
                           \/ writer[c] = "close" \/ reader[c] = "close"
    /\ c \notin clients /\ writer[c] # "none" => c \in closed

(* Connections that broke or were left do not stay with the hub, and their  *)
(* goroutines end.                                                          *)
DeadRemoved ==
  \A c \in Conn : (sock[c] \notin {"none", "open"})
                    ~> (c \notin clients /\ writer[c] = "none" /\ reader[c] = "none")

(* A page that is opened comes to show each version, whatever is dropped    *)
(* for it, and whenever its own request is answered or fails, once          *)
(* connections stop breaking.                                               *)
PageFresh ==
  \A p \in Page, v \in Snapshot : (seed[p] # "none" /\ version >= v) ~> (shown[p] >= v)
=============================================================================

------------------------------ MODULE Terminal ------------------------------
(* The web terminal: a page (frontend/app/admin/(panel)/servers/[id]/ssh)   *)
(* whose WebSocket the panel bridges to a shell on the server, with one     *)
(* goroutine for each direction (handlers/webssh.go, sshutil/sshutil.go).   *)
(*                                                                          *)
(* One page, one visit: another one has a handler, a session and goroutines *)
(* of its own.  What is typed and printed is counted and not told apart.    *)
EXTENDS Integers

CONSTANTS Wire,     \* messages a direction of the WebSocket holds
          Window    \* messages the SSH channel takes before the shell reads

ASSUME TerminalLimits == Wire \in Nat \ {0} /\ Window \in Nat \ {0}

VARIABLES page,     \* "loading" xterm, "open" or "left"
          sock,     \* "none", "open", "left" by the page, "shut" by the panel,
                    \* "broken" unnoticed, "dead" (the kernels have noticed)
          keys,     \* typed messages on the way to the panel
          screen,   \* printed ones on the way to the page
          bridge,   \* the handler, from "lookup" to "none"
          copier,   \* its goroutine: "none", "read", "write" or "ended"
          ssh,      \* there is an SSH connection
          shell,    \* "none", "running" or "ended"
          backlog,  \* input the shell has not read
          mute      \* the server does not answer any more, nor close

panelVars == <<bridge, copier, ssh>>
tmlVars == <<page, sock, keys, screen, panelVars, shell, backlog, mute>>

TMLInit ==
  /\ page = "loading" /\ sock = "none" /\ keys = 0 /\ screen = 0
  /\ bridge = "none" /\ copier = "none" /\ ssh = FALSE
  /\ shell = "none" /\ backlog = 0 /\ mute = FALSE

-----------------------------------------------------------------------------
(* Mutant of Loaded: no look whether the page has been left meanwhile.      *)
LoadedAnyway ==
  /\ sock = "none"
  /\ page' = (IF page = "loading" THEN "open" ELSE page)
  /\ sock' = "open" /\ bridge' = "lookup"
  /\ UNCHANGED <<keys, screen, copier, ssh, shell, backlog, mute>>

(* The libraries are there: unless `disposed', the page connects.           *)
Loaded ==
  /\ page = "loading"
  /\ page' = "open" /\ sock' = "open" /\ bridge' = "lookup"
  /\ UNCHANGED <<keys, screen, copier, ssh, shell, backlog, mute>>

Leave ==
  /\ page # "left" /\ page' = "left"
  /\ sock' = IF sock = "open" THEN "left" ELSE sock
  /\ UNCHANGED <<keys, screen, panelVars, shell, backlog, mute>>

Type ==
  /\ page = "open" /\ sock = "open" /\ keys < Wire
  /\ keys' = keys + 1
  /\ UNCHANGED <<page, sock, screen, panelVars, shell, backlog, mute>>

OnMessage ==
  /\ page = "open" /\ sock \in {"open", "shut"} /\ screen > 0
  /\ screen' = screen - 1
  /\ UNCHANGED <<page, sock, keys, panelVars, shell, backlog, mute>>

(* The network breaks with neither end being told; with keep-alives on, the *)
(* kernels find out.                                                        *)
Break ==
  /\ sock \in {"open", "left"} /\ sock' = "broken"
  /\ UNCHANGED <<page, keys, screen, panelVars, shell, backlog, mute>>

KeepAliveFails ==
  /\ sock = "broken" /\ sock' = "dead"
  /\ UNCHANGED <<page, keys, screen, panelVars, shell, backlog, mute>>

-----------------------------------------------------------------------------
(* WebSSH: the server is looked up before the connection is upgraded, then  *)
(* dialled, then a session is opened, with a pseudo-terminal and a shell.   *)
Setup(from, to) ==
  /\ bridge = from /\ bridge' = to
  /\ UNCHANGED <<page, sock, keys, screen, copier, shell, backlog, mute>>

LookUp == Setup("lookup", "dial") /\ UNCHANGED ssh

(* The timeout of ssh.Dial bounds the TCP connection only, not what follows.*)
Dial == ~ mute /\ Setup("dial", "session") /\ ssh' = TRUE

StartShell ==
  /\ ~ mute /\ bridge = "session" /\ bridge' = "check"
  /\ shell' = "running" /\ copier' = "read"
  /\ UNCHANGED <<page, sock, keys, screen, ssh, backlog, mute>>

SetupFails ==
  /\ bridge = "lookup" \/ (~ mute /\ bridge \in {"dial", "session"})
  /\ bridge' = "return"
  /\ UNCHANGED <<page, sock, keys, screen, copier, ssh, shell, backlog, mute>>

(* The loop: has the copier ended?  Then the next key, ...                  *)
CheckDone ==
  /\ bridge = "check" /\ bridge' = IF copier = "ended" THEN "return" ELSE "read"
  /\ UNCHANGED <<page, sock, keys, screen, copier, ssh, shell, backlog, mute>>

ReadMessage ==
  /\ bridge = "read" /\ keys > 0 /\ keys' = keys - 1 /\ bridge' = "write"
  /\ UNCHANGED <<page, sock, screen, copier, ssh, shell, backlog, mute>>

ReadFails ==
  /\ bridge = "read" /\ keys = 0 /\ sock \in {"left", "dead"}
  /\ bridge' = "return"
  /\ UNCHANGED <<page, sock, keys, screen, copier, ssh, shell, backlog, mute>>

(* ... to the shell, which may take no more, or be gone.                    *)
WriteStdin ==
  /\ bridge = "write" /\ shell = "running" /\ backlog < Window
  /\ backlog' = backlog + 1 /\ bridge' = "check"
  /\ UNCHANGED <<page, sock, keys, screen, copier, ssh, shell, mute>>

WriteStdinFails ==
  /\ bridge = "write" /\ shell = "ended" /\ bridge' = "return"
  /\ UNCHANGED <<page, sock, keys, screen, copier, ssh, shell, backlog, mute>>

(* Mutant of Return: the session is left open.                              *)
ReturnKeepsSession ==
  /\ bridge = "return" /\ bridge' = "none"
  /\ sock' = IF sock \in {"broken", "dead"} THEN "dead" ELSE "shut"
  /\ UNCHANGED <<page, keys, screen, copier, ssh, shell, backlog, mute>>

(* The deferred calls close the session, the SSH connection, the WebSocket. *)
Return ==
  /\ bridge = "return" /\ bridge' = "none"
  /\ ssh' = FALSE /\ shell' = IF shell = "running" THEN "ended" ELSE shell
  /\ sock' = IF sock \in {"broken", "dead"} THEN "dead" ELSE "shut"
  /\ UNCHANGED <<page, keys, screen, copier, backlog, mute>>

-----------------------------------------------------------------------------
(* The copier goroutine.                                                    *)
ReadStdout ==
  /\ copier = "read" /\ shell = "running" /\ ~ mute /\ copier' = "write"
  /\ UNCHANGED <<page, sock, keys, screen, bridge, ssh, shell, backlog, mute>>

StdoutEnds ==
  /\ copier = "read" /\ shell = "ended" /\ copier' = "ended"
  /\ UNCHANGED <<page, sock, keys, screen, bridge, ssh, shell, backlog, mute>>

WriteMessage ==
  /\ copier = "write" /\ sock \in {"open", "broken"} /\ screen < Wire
  /\ screen' = screen + 1 /\ copier' = "read"
  /\ UNCHANGED <<page, sock, keys, bridge, ssh, shell, backlog, mute>>

WriteMessageFails ==
  /\ copier = "write" /\ sock \in {"left", "shut", "dead"} /\ copier' = "ended"
  /\ UNCHANGED <<page, sock, keys, screen, bridge, ssh, shell, backlog, mute>>

(* The shell reads when it likes, and ends: `exit', a reboot, or the        *)
(* connection to the server fails.                                          *)
ShellReads ==
  /\ shell = "running" /\ ~ mute /\ backlog > 0 /\ backlog' = backlog - 1
  /\ UNCHANGED <<page, sock, keys, screen, panelVars, shell, mute>>

ShellEnds ==
  /\ shell = "running" /\ ~ mute /\ shell' = "ended"
  /\ UNCHANGED <<page, sock, keys, screen, panelVars, backlog, mute>>

GoesMute ==
  /\ bridge # "none" /\ mute' = TRUE
  /\ UNCHANGED <<page, sock, keys, screen, panelVars, shell, backlog>>

Bridge == \/ LookUp \/ Dial \/ StartShell \/ SetupFails \/ CheckDone \/ ReadMessage
          \/ ReadFails \/ WriteStdin \/ WriteStdinFails \/ Return
Copier == StdoutEnds \/ WriteMessage \/ WriteMessageFails

(* Nothing is left to happen on this page's behalf.                         *)
Over ==
  /\ page = "left" /\ sock # "broken"
  /\ bridge = "none" \/ mute
  /\ copier \notin {"read", "write"}
  /\ UNCHANGED tmlVars

TMLNext ==
  \/ Loaded \/ Leave \/ Type \/ OnMessage \/ Break \/ KeepAliveFails
  \/ Bridge \/ Copier \/ ReadStdout \/ ShellReads \/ ShellEnds \/ GoesMute \/ Over

TMLSpec == TMLInit /\ [][TMLNext]_tmlVars

(* Goroutines run, and the kernel gives a dead peer up.  Neither the shell  *)
(* nor the user need do anything.                                           *)
TMLFairness ==
  WF_tmlVars(Bridge) /\ WF_tmlVars(Copier) /\ WF_tmlVars(KeepAliveFails)

-----------------------------------------------------------------------------
TMLTypeOK ==
  /\ page \in {"loading", "open", "left"}
  /\ sock \in {"none", "open", "left", "shut", "broken", "dead"}
  /\ keys \in 0..Wire /\ screen \in 0..Wire /\ backlog \in 0..Window
  /\ copier # "none" <=> shell # "none"
  /\ bridge \in {"check", "read", "write"} => ssh

(* What a terminal holds on the server is the handler's to close: when it   *)
(* has returned, by whatever way, no connection to the server, shell or     *)
(* socket stays open, and a page that was left does not get a new one.      *)
NothingLeftOpen ==
  /\ bridge = "none" => ~ ssh /\ shell # "running" /\ sock \in {"none", "shut", "dead"}
  /\ page = "left" => sock # "open"

Released ==
  bridge = "none" /\ ~ ssh /\ shell # "running" /\ copier \notin {"read", "write"}

(* A terminal whose page is left, at whatever moment, or whose connection   *)
(* breaks does not stay open on the server, nor do its goroutines: provided *)
(* the server goes on answering while the session is set up, and the shell  *)
(* reading, for a handler that waits for either does not see that its page  *)
(* has gone.                                                                *)
TerminalReleased ==
  ((page = "left" \/ sock = "broken") /\ [](~ mute /\ backlog < Window)) ~> Released
=============================================================================

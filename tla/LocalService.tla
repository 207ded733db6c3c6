---------------------------- MODULE LocalService -----------------------------
(***************************************************************************)
(* `serve --auth local` on a workstation: started by hand, and as the      *)
(* systemd user unit that `service install` writes and `service uninstall` *)
(* removes.  Every one of them, and the installer too, gets the bearer     *)
(* token from one file, with load_local_token.                             *)
(*                                                                         *)
(* systemd is external, modelled from how service.py uses it: it knows the *)
(* units as they were at its last reload, restarts a service that fails,   *)
(* and gives up on one that fails too often.                               *)
(***************************************************************************)
EXTENDS Naturals

CONSTANTS
    Hand,          \* servers started by hand
    Service,       \* the process of odoo-mcp.service
    Installer,     \* the command `service install`
    Port,          \* ports to serve on
    NoPort,
    HandPort,      \* the ports of servers started by hand
    Token,         \* tokens that can be generated
    NoToken,
    MaxFaults      \* how many commands of systemd fail, and reboots

ASSUME ServiceConstants ==
    /\ Service \notin Hand
    /\ Installer \notin Hand \cup {Service}
    /\ NoPort \notin Port
    /\ HandPort \subseteq Port
    /\ NoToken \notin Token
    /\ MaxFaults \in Nat

\* secrets.token_urlsafe: whatever tokens are in use, there is another one.
ASSUME TokensAreMany ==
    \A f \in [Hand \cup {Service, Installer} -> Token \cup {NoToken}] :
        \A t, u \in Token \cup {NoToken} :
            \E new \in Token :
                new \notin {f[s] : s \in Hand \cup {Service, Installer}} \cup {t, u}

VARIABLES
    tokenFile,   \* the file local-token
    server,      \* server[s]: how far s has come in loading the token and serving
    unitFile,    \* the port in the unit on disk, or NoPort without one
    systemd,     \* what systemd knows of the unit
    cmd,         \* the `service` command that runs, and what the last one reported
    unheeded,    \* whether the last `systemctl disable` failed, which nobody looks at
    faults

serviceVars ==
    <<tokenFile, server, unitFile, systemd, cmd, unheeded, faults>>

Server == Hand \cup {Service}
Loader == Server \cup {Installer}

File(is, token) == [is |-> is, token |-> token]
Down == [pc |-> "down", port |-> NoPort, token |-> NoToken, rotate |-> FALSE]
Starting(port, rotate) ==
    [pc |-> "look", port |-> port, token |-> NoToken, rotate |-> rotate]

Running(pc, port, start, token) ==
    [pc |-> pc, port |-> port, start |-> start, token |-> token, report |-> "none"]
Ended(report, port, token) ==
    [pc |-> "idle", port |-> port, start |-> TRUE, token |-> token,
     report |-> report]
Idle == Ended("none", NoPort, NoToken)

\* Whoever serves has a token to ask for, whatever is in the file.
ServiceTypeOK ==
    /\ tokenFile \in {File("absent", NoToken), File("empty", NoToken)}
                       \cup {File("whole", t) : t \in Token}
    /\ server \in [Loader ->
                     [pc : {"down", "look", "truncate", "write", "bind", "up"},
                      port : Port \cup {NoPort}, token : Token \cup {NoToken},
                      rotate : BOOLEAN]]
    /\ unitFile \in Port \cup {NoPort}
    /\ systemd \in [loaded : Port \cup {NoPort}, enabled : BOOLEAN,
                    state : {"inactive", "active", "restarting", "failed"}]
    /\ cmd \in [pc : {"idle", "token", "unit", "reload", "enable", "restart",
                      "wait", "disable", "unlink", "forget"},
                port : Port \cup {NoPort}, start : BOOLEAN,
                token : Token \cup {NoToken},
                report : {"none", "enabled", "running", "removed", "error"}]
    /\ unheeded \in BOOLEAN
    /\ faults \in 0 .. MaxFaults
    /\ \A s \in Loader :
        server[s].pc \in {"truncate", "write", "bind", "up"}
            => server[s].token # NoToken

ServiceInit ==
    /\ tokenFile = File("absent", NoToken)
    /\ server = [s \in Loader |-> Down]
    /\ unitFile = NoPort
    /\ systemd = [loaded |-> NoPort, enabled |-> FALSE, state |-> "inactive"]
    /\ cmd = Idle
    /\ unheeded = FALSE
    /\ faults = 0

PortOpen(port) == \E s \in Server : server[s].pc = "up" /\ server[s].port = port

-----------------------------------------------------------------------------
(* load_local_token                                                        *)

Becomes(s, pc) == server' = [server EXCEPT ![s].pc = pc]

\* secrets.token_urlsafe: one that nobody has and that is in no file.
NewToken ==
    CHOOSE t \in Token :
        t \notin {server[s].token : s \in Loader} \cup {tokenFile.token, cmd.token}

Takes(s, pc, token) ==
    server' = [server EXCEPT ![s] = [pc |-> pc, port |-> @.port,
                                     token |-> token, rotate |-> FALSE]]

\* The token that is in the file, or a new one.
LookForToken(s) ==
    /\ server[s].pc = "look"
    /\ IF tokenFile.is = "whole" /\ ~ server[s].rotate
       THEN Takes(s, "bind", tokenFile.token)
       ELSE Takes(s, "truncate", NewToken)
    /\ UNCHANGED <<tokenFile, unitFile, systemd, cmd, unheeded, faults>>

\* O_CREAT | O_TRUNC
TruncateToken(s) ==
    /\ server[s].pc = "truncate"
    /\ tokenFile' = File("empty", NoToken)
    /\ Becomes(s, "write")
    /\ UNCHANGED <<unitFile, systemd, cmd, unheeded, faults>>

\* Tokens are of one length: one that lands on another covers it.
WriteToken(s) ==
    /\ server[s].pc = "write"
    /\ tokenFile' = File("whole", server[s].token)
    /\ Becomes(s, "bind")
    /\ UNCHANGED <<unitFile, systemd, cmd, unheeded, faults>>

-----------------------------------------------------------------------------
(* The servers: uvicorn.run comes after the token has been loaded.         *)

\* `serve --auth local` in a terminal.
Serve(s, port, rotate) ==
    /\ server[s].pc = "down"
    /\ server' = [server EXCEPT ![s] = Starting(port, rotate)]
    /\ UNCHANGED <<tokenFile, unitFile, systemd, cmd, unheeded, faults>>

Listen(s) ==
    /\ server[s].pc = "bind"
    /\ ~ PortOpen(server[s].port)
    /\ Becomes(s, "up")
    /\ UNCHANGED <<tokenFile, unitFile, systemd, cmd, unheeded, faults>>

\* The port is taken, or the server is stopped at any point.
HandEnds(s) ==
    /\ server[s].pc # "down"
    /\ server' = [server EXCEPT ![s] = Down]
    /\ UNCHANGED <<tokenFile, unitFile, systemd, cmd, unheeded, faults>>

\* The same of the service: systemd restarts it, or gives up.
ServiceFails ==
    /\ server[Service].pc # "down"
    /\ server' = [server EXCEPT ![Service] = Down]
    /\ \E state \in {"restarting", "failed"} :
            systemd' = [systemd EXCEPT !.state = state]
    /\ UNCHANGED <<tokenFile, unitFile, cmd, unheeded, faults>>

\* Restart=on-failure
ServiceRestarts ==
    /\ systemd.state = "restarting"
    /\ systemd.loaded # NoPort
    /\ systemd' = [systemd EXCEPT !.state = "active"]
    /\ server' = [server EXCEPT ![Service] = Starting(systemd.loaded, FALSE)]
    /\ UNCHANGED <<tokenFile, unitFile, cmd, unheeded, faults>>

-----------------------------------------------------------------------------
(* service install                                                         *)

\* Port and token are remembered of what was reported as running only.
Report(what) ==
    cmd' = IF what = "running" THEN Ended(what, cmd.port, cmd.token)
                               ELSE Ended(what, NoPort, NoToken)
Step(pc) == cmd' = [cmd EXCEPT !.pc = pc]

\* The installer loads the token first, so that it can print it.
Install(port, start) ==
    /\ cmd.pc = "idle"
    /\ cmd' = Running("token", port, start, NoToken)
    /\ server' = [server EXCEPT ![Installer] = Starting(NoPort, FALSE)]
    /\ UNCHANGED <<tokenFile, unitFile, systemd, unheeded, faults>>

TokenLoaded ==
    /\ cmd.pc = "token"
    /\ server[Installer].pc = "bind"
    /\ cmd' = Running("unit", cmd.port, cmd.start, server[Installer].token)
    /\ server' = [server EXCEPT ![Installer] = Down]
    /\ UNCHANGED <<tokenFile, unitFile, systemd, unheeded, faults>>

WriteUnit ==
    /\ cmd.pc = "unit"
    /\ unitFile' = cmd.port
    /\ Step("reload")
    /\ UNCHANGED <<tokenFile, server, systemd, unheeded, faults>>

\* The new unit is not read: the one that systemd knows goes on.
BadReload ==
    /\ cmd.pc = "reload"
    /\ systemd' = [systemd EXCEPT !.loaded = IF @ = NoPort THEN unitFile ELSE @]
    /\ Step("enable")
    /\ UNCHANGED <<tokenFile, server, unitFile, unheeded, faults>>

\* systemctl daemon-reload
Reload ==
    /\ cmd.pc = "reload"
    /\ systemd' = [systemd EXCEPT !.loaded = unitFile]
    /\ Step("enable")
    /\ UNCHANGED <<tokenFile, server, unitFile, unheeded, faults>>

Enable ==
    /\ cmd.pc = "enable"
    /\ systemd' = [systemd EXCEPT !.enabled = TRUE]
    /\ IF cmd.start THEN Step("restart") ELSE Report("enabled")
    /\ UNCHANGED <<tokenFile, server, unitFile, unheeded, faults>>

\* "start" instead of "restart": nothing happens to a service that is active.
BadRestart ==
    /\ cmd.pc = "restart"
    /\ systemd' = [systemd EXCEPT !.state = "active"]
    /\ server' = IF systemd.state = "active" THEN server
                 ELSE [server EXCEPT ![Service] = Starting(systemd.loaded, FALSE)]
    /\ Step("wait")
    /\ UNCHANGED <<tokenFile, unitFile, unheeded, faults>>

\* systemctl restart
Restart ==
    /\ cmd.pc = "restart"
    /\ systemd' = [systemd EXCEPT !.state = "active"]
    /\ server' = [server EXCEPT ![Service] = Starting(systemd.loaded, FALSE)]
    /\ Step("wait")
    /\ UNCHANGED <<tokenFile, unitFile, unheeded, faults>>

\* Somebody listens on the port.
Answered ==
    /\ cmd.pc = "wait"
    /\ PortOpen(cmd.port)
    /\ Report("running")
    /\ UNCHANGED <<tokenFile, server, unitFile, systemd, unheeded, faults>>

\* Waited for as long as systemd has not given up.
BadNotAnswered ==
    /\ cmd.pc = "wait"
    /\ ~ PortOpen(cmd.port)
    /\ systemd.state = "failed"
    /\ Report("error")
    /\ UNCHANGED <<tokenFile, server, unitFile, systemd, unheeded, faults>>

\* is-failed, or the deadline passes (START_TIMEOUT_SECONDS).
NotAnswered ==
    /\ cmd.pc = "wait"
    /\ ~ PortOpen(cmd.port)
    /\ Report("error")
    /\ UNCHANGED <<tokenFile, server, unitFile, systemd, unheeded, faults>>

-----------------------------------------------------------------------------
(* service uninstall                                                       *)

Uninstall ==
    /\ cmd.pc = "idle"
    /\ unitFile # NoPort
    /\ cmd' = Running("disable", NoPort, TRUE, NoToken)
    /\ UNCHANGED <<tokenFile, server, unitFile, systemd, unheeded, faults>>

Disabled ==
    /\ systemd' = [loaded |-> systemd.loaded, enabled |-> FALSE,
                   state |-> "inactive"]
    /\ server' = [server EXCEPT ![Service] = Down]

\* Without --now.
BadDisable ==
    /\ cmd.pc = "disable"
    /\ systemd' = [systemd EXCEPT !.enabled = FALSE]
    /\ Step("unlink")
    /\ UNCHANGED <<tokenFile, server, unitFile, unheeded, faults>>

\* systemctl disable --now
Disable ==
    /\ cmd.pc = "disable"
    /\ Disabled
    /\ unheeded' = FALSE
    /\ Step("unlink")
    /\ UNCHANGED <<tokenFile, unitFile, faults>>

Unlink ==
    /\ cmd.pc = "unlink"
    /\ unitFile' = NoPort
    /\ Step("forget")
    /\ UNCHANGED <<tokenFile, server, systemd, unheeded, faults>>

\* daemon-reload
Forget ==
    /\ cmd.pc = "forget"
    /\ systemd' = [systemd EXCEPT !.loaded = unitFile]
    /\ Report("removed")
    /\ UNCHANGED <<tokenFile, server, unitFile, unheeded, faults>>

-----------------------------------------------------------------------------
(* Faults                                                                  *)

Fault == faults < MaxFaults /\ faults' = faults + 1

\* A command of systemd whose result is checked fails, or the `service`
\* command is interrupted.
CommandFails ==
    /\ cmd.pc \in {"unit", "reload", "enable", "restart", "wait", "disable",
                   "unlink", "forget"}
    /\ Fault
    /\ Report("error")
    /\ UNCHANGED <<tokenFile, server, unitFile, systemd, unheeded>>

\* systemctl disable --now fails; nobody looks at what it returns.
DisableFails ==
    /\ cmd.pc = "disable"
    /\ Fault
    /\ unheeded' = TRUE
    /\ Step("unlink")
    /\ UNCHANGED <<tokenFile, server, unitFile, systemd>>

\* The machine is started again: an enabled unit is started with it.
Reboot ==
    /\ Fault
    /\ LET comes == systemd.enabled /\ unitFile # NoPort
       IN /\ systemd' = [loaded |-> unitFile, enabled |-> systemd.enabled,
                         state |-> IF comes THEN "active" ELSE "inactive"]
          /\ server' = [s \in Loader |->
                          IF s = Service /\ comes
                          THEN Starting(unitFile, FALSE) ELSE Down]
    /\ IF cmd.pc = "idle" THEN UNCHANGED cmd ELSE Report("error")
    /\ UNCHANGED <<tokenFile, unitFile, unheeded>>

-----------------------------------------------------------------------------

LoadLocalToken(s) == LookForToken(s) \/ TruncateToken(s) \/ WriteToken(s)

CommandBegins ==
    \/ \E port \in Port, start \in BOOLEAN : Install(port, start)
    \/ Uninstall

CommandGoesOn ==
    \/ TokenLoaded \/ WriteUnit \/ Reload \/ Enable \/ Restart
    \/ Answered \/ NotAnswered
    \/ Disable \/ Unlink \/ Forget

ServiceNext ==
    \/ \E s \in Loader : LoadLocalToken(s)
    \/ \E s \in Server : Listen(s)
    \/ \E s \in Hand :
        \/ \E port \in HandPort, rotate \in BOOLEAN : Serve(s, port, rotate)
        \/ HandEnds(s)
    \/ ServiceFails \/ ServiceRestarts
    \/ CommandBegins \/ CommandGoesOn
    \/ CommandFails \/ DisableFails \/ Reboot

ServiceSpec == ServiceInit /\ [][ServiceNext]_serviceVars

\* A command that runs goes on.
ServiceFairSpec ==
    /\ ServiceSpec
    /\ WF_serviceVars(CommandGoesOn)
    /\ WF_serviceVars(LoadLocalToken(Installer))

-----------------------------------------------------------------------------
(* What the service and its commands guarantee.                            *)

\* What `service install` reports as running is what it installed, for as long
\* as no other command is run: the service is served by the unit on disk, and
\* a reboot or a failure brings that one back.
RunsWhatIsInstalled ==
    cmd.report = "running" =>
        /\ unitFile = cmd.port
        /\ systemd.loaded = cmd.port /\ systemd.enabled
        /\ server[Service].pc # "down" => server[Service].port = cmd.port

\* The token that `service install` prints is the one the service takes, as
\* long as nobody replaces it in the file.
PrintedTokenWorks ==
    (/\ cmd.report = "running"
     /\ tokenFile = File("whole", cmd.token)
     /\ server[Service].pc = "up")
        => server[Service].token = cmd.token

\* "Stop, disable and remove the service": once that is reported there is no
\* process, and none that a failure or a reboot would bring, unless `systemctl
\* disable` has failed: then it is reported all the same.
UninstallStops ==
    (cmd.report = "removed" /\ ~ unheeded) =>
        /\ server[Service] = Down
        /\ systemd.state \notin {"active", "restarting"}
        /\ ~ systemd.enabled

\* Wherever a command is interrupted, and whichever command of systemd is seen to
\* fail, an enabled service has its unit: it can be uninstalled.
EnabledIsInstalled == (systemd.enabled /\ ~ unheeded) => unitFile # NoPort

\* Every `service` command comes to an end, whatever becomes of the service.
CommandEnds == cmd.pc # "idle" ~> cmd.pc = "idle"

-----------------------------------------------------------------------------
(* The invariant behind them.                                              *)

\* Whoever is about to write a token has generated it: nobody else has it, it
\* is in no file, and none that was printed.
OwnToken ==
    \A s \in Loader : server[s].pc \in {"truncate", "write"} =>
        /\ \A r \in Loader \ {s} : server[r].token # server[s].token
        /\ tokenFile.token # server[s].token
        /\ cmd.token # server[s].token

\* How far `service install` has come.
InstallKnown ==
    /\ cmd.pc \in {"token", "unit", "reload", "enable", "restart", "wait"}
        => cmd.port \in Port
    /\ cmd.pc \in {"reload", "enable", "restart", "wait"} => unitFile = cmd.port
    /\ cmd.pc \in {"enable", "restart", "wait"} => systemd.loaded = cmd.port
    /\ cmd.pc \in {"restart", "wait"} => systemd.enabled
    /\ (cmd.pc = "wait" /\ server[Service].pc # "down")
        => server[Service].port = cmd.port
    /\ cmd.pc # "idle" => cmd.report = "none"

\* From the restart on, the service takes the token to be printed.
TokenKnown ==
    (/\ cmd.pc = "wait" \/ cmd.report = "running"
     /\ tokenFile = File("whole", cmd.token)
     /\ server[Service].pc \in {"bind", "up"})
        => server[Service].token = cmd.token

\* How far `service uninstall` has come.
UninstallKnown ==
    (cmd.pc \in {"unlink", "forget"} /\ ~ unheeded) =>
        /\ server[Service] = Down
        /\ systemd.state \notin {"active", "restarting"}
        /\ ~ systemd.enabled

ServiceInductive ==
    /\ ServiceTypeOK
    /\ OwnToken
    /\ InstallKnown /\ RunsWhatIsInstalled
    /\ TokenKnown
    /\ UninstallKnown /\ UninstallStops
    /\ EnabledIsInstalled
==============================================================================

--------------------------- MODULE ServiceProofs -----------------------------
(***************************************************************************)
(* The local service, for any servers, ports, tokens and faults:           *)
(* ServiceInductive is inductive, and with it the token that is printed is *)
(* the one that works, what is reported as running is what was installed,  *)
(* and what is reported as removed is gone.                                *)
(***************************************************************************)
EXTENDS LocalService, TLAPS

ServerRecord ==
    [pc : {"down", "look", "truncate", "write", "bind", "up"},
     port : Port \cup {NoPort}, token : Token \cup {NoToken},
     rotate : BOOLEAN]

TokenFile == {File("absent", NoToken), File("empty", NoToken)}
               \cup {File("whole", t) : t \in Token}

LEMMA Records ==
  /\ Down \in ServerRecord /\ Down.pc = "down" /\ Down.token = NoToken
  /\ \A port \in Port \cup {NoPort}, rotate \in BOOLEAN :
       /\ Starting(port, rotate) \in ServerRecord
       /\ Starting(port, rotate).pc = "look"
       /\ Starting(port, rotate).port = port
       /\ Starting(port, rotate).token = NoToken
BY DEF Down, Starting, ServerRecord

(* A file with a token is whole, and the two are told apart.               *)
LEMMA Files ==
  /\ \A is, token : File(is, token).is = is /\ File(is, token).token = token
  /\ \A f \in TokenFile : /\ f.token \in Token \cup {NoToken}
                          /\ f.is = "whole" => f.token \in Token
BY DEF File, TokenFile

(* A token that is generated is new.                                       *)
LEMMA TokenIsNew ==
  ASSUME ServiceTypeOK
  PROVE  /\ NewToken \in Token
         /\ \A s \in Loader : server[s].token # NewToken
         /\ tokenFile.token # NewToken
         /\ cmd.token # NewToken
<1> DEFINE f == [s \in Loader |-> server[s].token]
<1>1. f \in [Loader -> Token \cup {NoToken}]
  BY DEF ServiceTypeOK
<1>2. /\ tokenFile.token \in Token \cup {NoToken}
      /\ cmd.token \in Token \cup {NoToken}
  BY Files DEF ServiceTypeOK, TokenFile
<1>3. Loader = Hand \cup {Service, Installer}
  BY DEF Loader, Server
<1> HIDE DEF f
<1>4. \E new \in Token :
        new \notin {f[s] : s \in Loader} \cup {tokenFile.token, cmd.token}
  BY <1>1, <1>2, <1>3, TokensAreMany
<1>5. {f[s] : s \in Loader} = {server[s].token : s \in Loader}
  BY DEF f
<1>6. NewToken \in Token /\
      NewToken \notin {server[s].token : s \in Loader}
                        \cup {tokenFile.token, cmd.token}
  BY <1>4, <1>5 DEF NewToken
<1> QED BY <1>6

LEMMA ServiceInitHolds == ServiceInit => ServiceInductive
<1> SUFFICES ASSUME ServiceInit PROVE ServiceInductive
  OBVIOUS
<1> USE ServiceConstants, Records
<1>1. ServiceTypeOK
  <2>1. server \in [Loader -> ServerRecord] /\ \A s \in Loader : server[s].pc = "down"
    BY DEF ServiceInit
  <2>2. 0 \in 0 .. MaxFaults
    OBVIOUS
  <2> QED BY <2>1, <2>2 DEF ServiceInit, ServiceTypeOK, Idle, Ended, ServerRecord
<1>2. \A s \in Loader : server[s].pc = "down"
  BY DEF ServiceInit
<1>3. /\ cmd.pc = "idle" /\ cmd.report = "none"
      /\ ~ systemd.enabled
  BY DEF ServiceInit, Idle, Ended
<1>4. OwnToken /\ InstallKnown /\ TokenKnown
  BY <1>2, <1>3 DEF OwnToken, InstallKnown, TokenKnown, Loader, Server
<1>5. RunsWhatIsInstalled /\ UninstallKnown /\ UninstallStops /\ EnabledIsInstalled
  BY <1>3 DEF RunsWhatIsInstalled, UninstallKnown, UninstallStops,
              EnabledIsInstalled
<1> QED BY <1>1, <1>4, <1>5 DEF ServiceInductive

(* Loading the token.                                                      *)
LEMMA LookStep ==
  ASSUME ServiceInductive, NEW s \in Loader, LookForToken(s)
  PROVE  ServiceInductive'
<1>0. ServiceTypeOK /\ Service \in Loader
  BY DEF ServiceInductive, Loader, Server
<1>1. CASE tokenFile.is = "whole" /\ ~ server[s].rotate
  <2>1. /\ Takes(s, "bind", tokenFile.token)
        /\ tokenFile.token \in Token
        /\ UNCHANGED <<tokenFile, unitFile, systemd, cmd, unheeded, faults>>
    BY <1>0, <1>1, Files DEF LookForToken, ServiceTypeOK, TokenFile
  <2>2. ServiceTypeOK'
    BY <1>0, <2>1, ServiceConstants DEF ServiceTypeOK, Takes
  <2>3. OwnToken'
    BY <1>0, <2>1 DEF ServiceInductive, OwnToken, ServiceTypeOK, Takes
  <2>4. TokenKnown'
    BY <1>0, <2>1, Files DEF ServiceInductive, TokenKnown, ServiceTypeOK, Takes
  <2>5. InstallKnown' /\ RunsWhatIsInstalled'
    BY <1>0, <2>1
    DEF ServiceInductive, InstallKnown, RunsWhatIsInstalled, ServiceTypeOK, LookForToken, Takes
  <2>6. UninstallKnown' /\ UninstallStops' /\ EnabledIsInstalled'
    BY <1>0, <2>1, Records
    DEF ServiceInductive, UninstallKnown, UninstallStops, EnabledIsInstalled,
        ServiceTypeOK, LookForToken, Takes
  <2> QED BY <2>2, <2>3, <2>4, <2>5, <2>6 DEF ServiceInductive
<1>2. CASE ~ (tokenFile.is = "whole" /\ ~ server[s].rotate)
  <2>1. /\ Takes(s, "truncate", NewToken)
        /\ UNCHANGED <<tokenFile, unitFile, systemd, cmd, unheeded, faults>>
    BY <1>2 DEF LookForToken
  <2>2. ServiceTypeOK'
    BY <1>0, <2>1, TokenIsNew, ServiceConstants DEF ServiceTypeOK, Takes
  <2>3. OwnToken'
    BY <1>0, <2>1, TokenIsNew DEF ServiceInductive, OwnToken, ServiceTypeOK, Takes
  <2>4. TokenKnown'
    BY <1>0, <2>1 DEF ServiceInductive, TokenKnown, ServiceTypeOK, Takes
  <2>5. InstallKnown' /\ RunsWhatIsInstalled'
    BY <1>0, <2>1
    DEF ServiceInductive, InstallKnown, RunsWhatIsInstalled, ServiceTypeOK, LookForToken, Takes
  <2>6. UninstallKnown' /\ UninstallStops' /\ EnabledIsInstalled'
    BY <1>0, <2>1, Records
    DEF ServiceInductive, UninstallKnown, UninstallStops, EnabledIsInstalled,
        ServiceTypeOK, LookForToken, Takes
  <2> QED BY <2>2, <2>3, <2>4, <2>5, <2>6 DEF ServiceInductive
<1> QED BY <1>1, <1>2


LEMMA TruncateStep ==
  ASSUME ServiceInductive, NEW s \in Loader, TruncateToken(s)
  PROVE  ServiceInductive'
<1>0. /\ ServiceTypeOK /\ Service \in Loader
      /\ server[s].pc = "truncate" /\ server[s].token \in Token
      /\ tokenFile' = File("empty", NoToken)
      /\ server' = [server EXCEPT ![s].pc = "write"]
      /\ UNCHANGED <<unitFile, systemd, cmd, unheeded, faults>>
  BY DEF ServiceInductive, Loader, Server, TruncateToken, Becomes, ServiceTypeOK
<1>1. ServiceTypeOK'
  BY <1>0 DEF ServiceTypeOK
<1>2. OwnToken'
  BY <1>0, Files, ServiceConstants DEF ServiceInductive, OwnToken, ServiceTypeOK
<1>3. TokenKnown'
  BY <1>0, Files DEF TokenKnown
<1>4. InstallKnown' /\ RunsWhatIsInstalled'
  BY <1>0 DEF ServiceInductive, InstallKnown, RunsWhatIsInstalled, ServiceTypeOK
<1>5. UninstallKnown' /\ UninstallStops' /\ EnabledIsInstalled'
  BY <1>0, Records
  DEF ServiceInductive, UninstallKnown, UninstallStops, EnabledIsInstalled,
      ServiceTypeOK
<1> QED BY <1>1, <1>2, <1>3, <1>4, <1>5 DEF ServiceInductive

LEMMA WriteStep ==
  ASSUME ServiceInductive, NEW s \in Loader, WriteToken(s)
  PROVE  ServiceInductive'
<1>0. /\ ServiceTypeOK /\ Service \in Loader
      /\ server[s].pc = "write" /\ server[s].token \in Token
      /\ tokenFile' = File("whole", server[s].token)
      /\ server' = [server EXCEPT ![s].pc = "bind"]
      /\ UNCHANGED <<unitFile, systemd, cmd, unheeded, faults>>
  BY DEF ServiceInductive, Loader, Server, WriteToken, Becomes, ServiceTypeOK
<1>1. ServiceTypeOK'
  BY <1>0 DEF ServiceTypeOK
<1>2. OwnToken'
  BY <1>0, Files DEF ServiceInductive, OwnToken, ServiceTypeOK
<1>3. TokenKnown'
  <2>1. cmd.token # server[s].token
    BY <1>0 DEF ServiceInductive, OwnToken
  <2> QED BY <1>0, <2>1, Files DEF TokenKnown
<1>4. InstallKnown' /\ RunsWhatIsInstalled'
  BY <1>0 DEF ServiceInductive, InstallKnown, RunsWhatIsInstalled, ServiceTypeOK
<1>5. UninstallKnown' /\ UninstallStops' /\ EnabledIsInstalled'
  BY <1>0, Records
  DEF ServiceInductive, UninstallKnown, UninstallStops, EnabledIsInstalled,
      ServiceTypeOK
<1> QED BY <1>1, <1>2, <1>3, <1>4, <1>5 DEF ServiceInductive

(* Servers that are started, listen, end and fail, and that systemd starts *)
(* again.                                                                  *)
LEMMA ServerStep ==
  ASSUME ServiceInductive,
         \/ \E s \in Server : Listen(s)
         \/ \E s \in Hand :
             \/ \E port \in HandPort, rotate \in BOOLEAN : Serve(s, port, rotate)
             \/ HandEnds(s)
         \/ ServiceFails
         \/ ServiceRestarts
  PROVE  ServiceInductive'
<1>0. ServiceTypeOK /\ Service \in Loader /\ Service \notin Hand
      /\ Hand \subseteq Loader /\ Server \subseteq Loader
  BY ServiceConstants DEF ServiceInductive, Loader, Server
<1>1. ASSUME NEW s \in Server, Listen(s) PROVE ServiceInductive'
  <2>0. /\ server[s].pc = "bind" /\ s \in Loader
        /\ server' = [server EXCEPT ![s].pc = "up"]
        /\ UNCHANGED <<tokenFile, unitFile, systemd, cmd, unheeded, faults>>
    BY <1>0, <1>1 DEF Listen, Becomes
  <2>1. ServiceTypeOK'
    BY <1>0, <2>0 DEF ServiceTypeOK
  <2>2. OwnToken'
    BY <1>0, <2>0 DEF ServiceInductive, OwnToken, ServiceTypeOK
  <2>3. TokenKnown'
    BY <1>0, <2>0 DEF ServiceInductive, TokenKnown, ServiceTypeOK
  <2>4. InstallKnown' /\ RunsWhatIsInstalled'
    BY <1>0, <2>0 DEF ServiceInductive, InstallKnown, RunsWhatIsInstalled,
                      ServiceTypeOK
  <2>5. UninstallKnown' /\ UninstallStops' /\ EnabledIsInstalled'
    BY <1>0, <2>0, Records
    DEF ServiceInductive, UninstallKnown, UninstallStops, EnabledIsInstalled,
        ServiceTypeOK
  <2> QED BY <2>1, <2>2, <2>3, <2>4, <2>5 DEF ServiceInductive
<1>2. ASSUME NEW s \in Hand, NEW new \in ServerRecord,
             new.pc \in {"look", "down"}, new.token = NoToken,
             server' = [server EXCEPT ![s] = new],
             UNCHANGED <<tokenFile, unitFile, systemd, cmd, unheeded, faults>>
      PROVE  ServiceInductive'
  <2>0. s \in Loader /\ s # Service
    BY <1>0
  <2>1. ServiceTypeOK'
    BY <1>0, <1>2, <2>0 DEF ServiceTypeOK, ServerRecord
  <2>2. OwnToken'
    BY <1>0, <1>2, <2>0 DEF ServiceInductive, OwnToken, ServiceTypeOK
  <2>3. TokenKnown' /\ InstallKnown' /\ RunsWhatIsInstalled'
    BY <1>0, <1>2, <2>0
    DEF ServiceInductive, TokenKnown, InstallKnown, RunsWhatIsInstalled,
        ServiceTypeOK
  <2>4. UninstallKnown' /\ UninstallStops' /\ EnabledIsInstalled'
    BY <1>0, <1>2, <2>0
    DEF ServiceInductive, UninstallKnown, UninstallStops, EnabledIsInstalled,
        ServiceTypeOK
  <2> QED BY <2>1, <2>2, <2>3, <2>4 DEF ServiceInductive
<1>3. ASSUME NEW s \in Hand, NEW port \in HandPort, NEW rotate \in BOOLEAN,
             Serve(s, port, rotate)
      PROVE  ServiceInductive'
  <2>1. Starting(port, rotate) \in ServerRecord
        /\ Starting(port, rotate).pc = "look"
        /\ Starting(port, rotate).token = NoToken
    BY ServiceConstants, Records
  <2> QED BY <1>2, <1>3, <2>1 DEF Serve
<1>4. ASSUME NEW s \in Hand, HandEnds(s) PROVE ServiceInductive'
  BY <1>2, <1>4, Records DEF HandEnds
<1>5. ASSUME ServiceFails PROVE ServiceInductive'
  <2>0. PICK state \in {"restarting", "failed"} :
          /\ systemd' = [systemd EXCEPT !.state = state]
          /\ server[Service].pc # "down"
          /\ server' = [server EXCEPT ![Service] = Down]
          /\ UNCHANGED <<tokenFile, unitFile, cmd, unheeded, faults>>
    BY <1>5 DEF ServiceFails
  <2>1. ServiceTypeOK'
    BY <1>0, <2>0, Records DEF ServiceTypeOK, ServerRecord
  <2>2. OwnToken'
    BY <1>0, <2>0, Records DEF ServiceInductive, OwnToken, ServiceTypeOK
  <2>3. TokenKnown' /\ InstallKnown' /\ RunsWhatIsInstalled'
    BY <1>0, <2>0, Records
    DEF ServiceInductive, TokenKnown, InstallKnown, RunsWhatIsInstalled,
        ServiceTypeOK
  <2>4. UninstallKnown' /\ UninstallStops' /\ EnabledIsInstalled'
    BY <1>0, <2>0, Records
    DEF ServiceInductive, UninstallKnown, UninstallStops, EnabledIsInstalled,
        ServiceTypeOK
  <2> QED BY <2>1, <2>2, <2>3, <2>4 DEF ServiceInductive
<1>6. ASSUME ServiceRestarts PROVE ServiceInductive'
  <2>0. /\ systemd.state = "restarting"
        /\ systemd' = [systemd EXCEPT !.state = "active"]
        /\ UNCHANGED <<tokenFile, unitFile, cmd, unheeded, faults>>
        /\ systemd.loaded \in Port \cup {NoPort}
    BY <1>0, <1>6 DEF ServiceRestarts, ServiceTypeOK
  <2> DEFINE new == Starting(systemd.loaded, FALSE)
  <2>5. /\ new \in ServerRecord /\ new.pc = "look" /\ new.token = NoToken
        /\ new.port = systemd.loaded
        /\ server' = [server EXCEPT ![Service] = new]
    BY <1>6, <2>0, Records DEF ServiceRestarts
  <2> HIDE DEF new
  <2>1. ServiceTypeOK'
    BY <1>0, <2>0, <2>5 DEF ServiceTypeOK, ServerRecord
  <2>2. OwnToken'
    BY <1>0, <2>0, <2>5 DEF ServiceInductive, OwnToken, ServiceTypeOK
  <2>3. TokenKnown' /\ InstallKnown' /\ RunsWhatIsInstalled'
    BY <1>0, <2>0, <2>5
    DEF ServiceInductive, TokenKnown, InstallKnown, RunsWhatIsInstalled,
        ServiceTypeOK
  <2>4. UninstallKnown' /\ UninstallStops' /\ EnabledIsInstalled'
    BY <1>0, <2>0, <2>5
    DEF ServiceInductive, UninstallKnown, UninstallStops, EnabledIsInstalled,
        ServiceTypeOK
  <2> QED BY <2>1, <2>2, <2>3, <2>4 DEF ServiceInductive
<1> QED BY <1>1, <1>3, <1>4, <1>5, <1>6

CmdRecord ==
    [pc : {"idle", "token", "unit", "reload", "enable", "restart", "wait",
           "disable", "unlink", "forget"},
     port : Port \cup {NoPort}, start : BOOLEAN, token : Token \cup {NoToken},
     report : {"none", "enabled", "running", "removed", "error"}]

(* What a command reports when it ends.                                    *)
LEMMA Reports ==
  ASSUME ServiceTypeOK, NEW what \in {"enabled", "running", "removed", "error"},
         Report(what)
  PROVE  /\ cmd' \in CmdRecord /\ cmd'.pc = "idle" /\ cmd'.report = what
         /\ cmd'.token \in {NoToken, cmd.token}
         /\ what = "running" => cmd'.token = cmd.token /\ cmd'.port = cmd.port
<1>1. CASE what = "running"
  BY <1>1 DEF Report, Ended, CmdRecord, ServiceTypeOK
<1>2. CASE what # "running"
  BY <1>2 DEF Report, Ended, CmdRecord, ServiceTypeOK
<1> QED BY <1>1, <1>2

(* What a command has done when it goes on.                                *)
LEMMA Steps ==
  ASSUME ServiceTypeOK, NEW pc \in {"reload", "enable", "restart", "wait",
                                   "unlink", "forget"},
         Step(pc)
  PROVE  /\ cmd' \in CmdRecord /\ cmd'.pc = pc /\ cmd'.report = cmd.report
         /\ cmd'.token = cmd.token /\ cmd'.port = cmd.port
         /\ cmd'.start = cmd.start
BY DEF Step, CmdRecord, ServiceTypeOK

(* service install.                                                        *)
LEMMA InstallStep ==
  ASSUME ServiceInductive,
         \/ \E port \in Port, start \in BOOLEAN : Install(port, start)
         \/ TokenLoaded \/ WriteUnit \/ Reload \/ Enable \/ Restart
         \/ Answered \/ NotAnswered
  PROVE  ServiceInductive'
<1>0. /\ ServiceTypeOK /\ Service \in Loader /\ Installer \in Loader
      /\ Installer # Service
  BY ServiceConstants DEF ServiceInductive, Loader, Server
<1>1. ASSUME NEW port \in Port, NEW start \in BOOLEAN, Install(port, start) PROVE ServiceInductive'
  <2> DEFINE new == Starting(NoPort, FALSE)
  <2>0. /\ cmd.pc = "idle" /\ cmd' \in CmdRecord /\ cmd'.pc = "token"
        /\ cmd'.port = port /\ cmd'.token = NoToken /\ cmd'.report = "none"
        /\ new \in ServerRecord /\ new.pc = "look" /\ new.token = NoToken
        /\ server' = [server EXCEPT ![Installer] = new]
        /\ UNCHANGED <<tokenFile, unitFile, systemd, unheeded, faults>>
    BY <1>0, <1>1, Records DEF Install, Running, CmdRecord
  <2> HIDE DEF new
  <2>1. ServiceTypeOK'
    BY <1>0, <2>0 DEF ServiceTypeOK, ServerRecord, CmdRecord
  <2>2. OwnToken'
    BY <1>0, <2>0 DEF ServiceInductive, OwnToken, ServiceTypeOK
  <2>3. TokenKnown'
    BY <1>0, <2>0 DEF ServiceInductive, TokenKnown, ServiceTypeOK
  <2>4. InstallKnown' /\ RunsWhatIsInstalled'
    BY <1>0, <2>0 DEF ServiceInductive, InstallKnown, RunsWhatIsInstalled,
                      ServiceTypeOK
  <2>5. UninstallKnown' /\ UninstallStops' /\ EnabledIsInstalled'
    BY <1>0, <2>0, ServiceConstants
    DEF ServiceInductive, InstallKnown, UninstallKnown, UninstallStops,
        EnabledIsInstalled, ServiceTypeOK
  <2> QED BY <2>1, <2>2, <2>3, <2>4, <2>5 DEF ServiceInductive
<1>2. ASSUME TokenLoaded PROVE ServiceInductive'
  <2> DEFINE new == Down
  <2>0. /\ cmd.pc = "token" /\ cmd' \in CmdRecord /\ cmd'.pc = "unit"
        /\ cmd'.port = cmd.port /\ cmd'.report = "none"
        /\ server[Installer].pc = "bind" /\ cmd'.token = server[Installer].token
        /\ new \in ServerRecord /\ new.pc = "down" /\ new.token = NoToken
        /\ server' = [server EXCEPT ![Installer] = new]
        /\ UNCHANGED <<tokenFile, unitFile, systemd, unheeded, faults>>
    BY <1>0, <1>2, Records DEF TokenLoaded, Running, CmdRecord, ServiceTypeOK
  <2> HIDE DEF new
  <2>1. ServiceTypeOK'
    BY <1>0, <2>0 DEF ServiceTypeOK, ServerRecord, CmdRecord
  <2>2. OwnToken'
    BY <1>0, <2>0 DEF ServiceInductive, OwnToken, ServiceTypeOK
  <2>3. TokenKnown'
    BY <1>0, <2>0 DEF ServiceInductive, TokenKnown, ServiceTypeOK
  <2>4. InstallKnown' /\ RunsWhatIsInstalled'
    BY <1>0, <2>0 DEF ServiceInductive, InstallKnown, RunsWhatIsInstalled,
                      ServiceTypeOK
  <2>5. UninstallKnown' /\ UninstallStops' /\ EnabledIsInstalled'
    BY <1>0, <2>0, ServiceConstants
    DEF ServiceInductive, InstallKnown, UninstallKnown, UninstallStops,
        EnabledIsInstalled, ServiceTypeOK
  <2> QED BY <2>1, <2>2, <2>3, <2>4, <2>5 DEF ServiceInductive
<1>3. ASSUME WriteUnit PROVE ServiceInductive'
  <2>0. /\ cmd.pc = "unit" /\ cmd' \in CmdRecord /\ cmd'.pc = "reload"
        /\ cmd'.report = cmd.report /\ cmd'.token = cmd.token /\ cmd'.port = cmd.port
        /\ cmd.port \in Port /\ unitFile' = cmd.port
        /\ UNCHANGED <<tokenFile, server, systemd, unheeded, faults>>
    BY <1>0, <1>3, Steps DEF WriteUnit, ServiceInductive, InstallKnown
  <2>1. ServiceTypeOK'
    BY <1>0, <2>0 DEF ServiceTypeOK, ServerRecord, CmdRecord
  <2>2. OwnToken'
    BY <1>0, <2>0 DEF ServiceInductive, OwnToken, ServiceTypeOK
  <2>3. TokenKnown'
    BY <1>0, <2>0 DEF ServiceInductive, TokenKnown, ServiceTypeOK
  <2>4. InstallKnown' /\ RunsWhatIsInstalled'
    BY <1>0, <2>0 DEF ServiceInductive, InstallKnown, RunsWhatIsInstalled,
                      ServiceTypeOK
  <2>5. UninstallKnown' /\ UninstallStops' /\ EnabledIsInstalled'
    BY <1>0, <2>0, ServiceConstants
    DEF ServiceInductive, InstallKnown, UninstallKnown, UninstallStops,
        EnabledIsInstalled, ServiceTypeOK
  <2> QED BY <2>1, <2>2, <2>3, <2>4, <2>5 DEF ServiceInductive
<1>4. ASSUME Reload PROVE ServiceInductive'
  <2>0. /\ cmd.pc = "reload" /\ cmd' \in CmdRecord /\ cmd'.pc = "enable"
        /\ cmd'.report = cmd.report /\ cmd'.token = cmd.token /\ cmd'.port = cmd.port
        /\ systemd' = [systemd EXCEPT !.loaded = unitFile]
        /\ UNCHANGED <<tokenFile, server, unitFile, unheeded, faults>>
    BY <1>0, <1>4, Steps DEF Reload
  <2>1. ServiceTypeOK'
    BY <1>0, <2>0 DEF ServiceTypeOK, ServerRecord, CmdRecord
  <2>2. OwnToken'
    BY <1>0, <2>0 DEF ServiceInductive, OwnToken, ServiceTypeOK
  <2>3. TokenKnown'
    BY <1>0, <2>0 DEF ServiceInductive, TokenKnown, ServiceTypeOK
  <2>4. InstallKnown' /\ RunsWhatIsInstalled'
    BY <1>0, <2>0 DEF ServiceInductive, InstallKnown, RunsWhatIsInstalled,
                      ServiceTypeOK
  <2>5. UninstallKnown' /\ UninstallStops' /\ EnabledIsInstalled'
    BY <1>0, <2>0, ServiceConstants
    DEF ServiceInductive, InstallKnown, UninstallKnown, UninstallStops,
        EnabledIsInstalled, ServiceTypeOK
  <2> QED BY <2>1, <2>2, <2>3, <2>4, <2>5 DEF ServiceInductive
<1>5. ASSUME Enable PROVE ServiceInductive'
  <2>0. /\ cmd.pc = "enable" /\ cmd' \in CmdRecord
        /\ \/ /\ cmd'.pc = "restart" /\ cmd'.report = cmd.report
              /\ cmd'.token = cmd.token /\ cmd'.port = cmd.port
           \/ /\ cmd'.pc = "idle" /\ cmd'.report = "enabled"
              /\ cmd'.token \in {NoToken, cmd.token}
        /\ systemd' = [systemd EXCEPT !.enabled = TRUE]
        /\ UNCHANGED <<tokenFile, server, unitFile, unheeded, faults>>
    BY <1>0, <1>5, Steps, Reports DEF Enable
  <2>1. ServiceTypeOK'
    BY <1>0, <2>0 DEF ServiceTypeOK, ServerRecord, CmdRecord
  <2>2. OwnToken'
    BY <1>0, <2>0 DEF ServiceInductive, OwnToken, ServiceTypeOK
  <2>3. TokenKnown'
    BY <1>0, <2>0 DEF ServiceInductive, TokenKnown, ServiceTypeOK
  <2>4. InstallKnown' /\ RunsWhatIsInstalled'
    BY <1>0, <2>0 DEF ServiceInductive, InstallKnown, RunsWhatIsInstalled,
                      ServiceTypeOK
  <2>5. UninstallKnown' /\ UninstallStops' /\ EnabledIsInstalled'
    BY <1>0, <2>0, ServiceConstants
    DEF ServiceInductive, InstallKnown, UninstallKnown, UninstallStops,
        EnabledIsInstalled, ServiceTypeOK
  <2> QED BY <2>1, <2>2, <2>3, <2>4, <2>5 DEF ServiceInductive
<1>6. ASSUME Restart PROVE ServiceInductive'
  <2> DEFINE new == Starting(systemd.loaded, FALSE)
  <2>0. /\ cmd.pc = "restart" /\ cmd' \in CmdRecord /\ cmd'.pc = "wait"
        /\ cmd'.report = cmd.report /\ cmd'.token = cmd.token /\ cmd'.port = cmd.port
        /\ systemd' = [systemd EXCEPT !.state = "active"]
        /\ new \in ServerRecord /\ new.pc = "look" /\ new.token = NoToken
        /\ new.port = systemd.loaded
        /\ server' = [server EXCEPT ![Service] = new]
        /\ UNCHANGED <<tokenFile, unitFile, unheeded, faults>>
    BY <1>0, <1>6, Steps, Records DEF Restart, ServiceTypeOK
  <2> HIDE DEF new
  <2>1. ServiceTypeOK'
    BY <1>0, <2>0 DEF ServiceTypeOK, ServerRecord, CmdRecord
  <2>2. OwnToken'
    BY <1>0, <2>0 DEF ServiceInductive, OwnToken, ServiceTypeOK
  <2>3. TokenKnown'
    BY <1>0, <2>0 DEF ServiceInductive, TokenKnown, ServiceTypeOK
  <2>4. InstallKnown' /\ RunsWhatIsInstalled'
    BY <1>0, <2>0 DEF ServiceInductive, InstallKnown, RunsWhatIsInstalled,
                      ServiceTypeOK
  <2>5. UninstallKnown' /\ UninstallStops' /\ EnabledIsInstalled'
    BY <1>0, <2>0, ServiceConstants
    DEF ServiceInductive, InstallKnown, UninstallKnown, UninstallStops,
        EnabledIsInstalled, ServiceTypeOK
  <2> QED BY <2>1, <2>2, <2>3, <2>4, <2>5 DEF ServiceInductive
<1>7. ASSUME Answered PROVE ServiceInductive'
  <2>0. /\ cmd.pc = "wait" /\ cmd' \in CmdRecord /\ cmd'.pc = "idle"
        /\ cmd'.report = "running" /\ cmd'.token = cmd.token /\ cmd'.port = cmd.port
        /\ UNCHANGED <<tokenFile, server, unitFile, systemd, unheeded, faults>>
    BY <1>0, <1>7, Reports DEF Answered
  <2>1. ServiceTypeOK'
    BY <1>0, <2>0 DEF ServiceTypeOK, ServerRecord, CmdRecord
  <2>2. OwnToken'
    BY <1>0, <2>0 DEF ServiceInductive, OwnToken, ServiceTypeOK
  <2>3. TokenKnown'
    BY <1>0, <2>0 DEF ServiceInductive, TokenKnown, ServiceTypeOK
  <2>4. InstallKnown' /\ RunsWhatIsInstalled'
    BY <1>0, <2>0 DEF ServiceInductive, InstallKnown, RunsWhatIsInstalled,
                      ServiceTypeOK
  <2>5. UninstallKnown' /\ UninstallStops' /\ EnabledIsInstalled'
    BY <1>0, <2>0, ServiceConstants
    DEF ServiceInductive, InstallKnown, UninstallKnown, UninstallStops,
        EnabledIsInstalled, ServiceTypeOK
  <2> QED BY <2>1, <2>2, <2>3, <2>4, <2>5 DEF ServiceInductive
<1>8. ASSUME NotAnswered PROVE ServiceInductive'
  <2>0. /\ cmd.pc = "wait" /\ cmd' \in CmdRecord /\ cmd'.pc = "idle"
        /\ cmd'.report = "error" /\ cmd'.token \in {NoToken, cmd.token}
        /\ UNCHANGED <<tokenFile, server, unitFile, systemd, unheeded, faults>>
    BY <1>0, <1>8, Reports DEF NotAnswered
  <2>1. ServiceTypeOK'
    BY <1>0, <2>0 DEF ServiceTypeOK, ServerRecord, CmdRecord
  <2>2. OwnToken'
    BY <1>0, <2>0 DEF ServiceInductive, OwnToken, ServiceTypeOK
  <2>3. TokenKnown'
    BY <1>0, <2>0 DEF ServiceInductive, TokenKnown, ServiceTypeOK
  <2>4. InstallKnown' /\ RunsWhatIsInstalled'
    BY <1>0, <2>0 DEF ServiceInductive, InstallKnown, RunsWhatIsInstalled,
                      ServiceTypeOK
  <2>5. UninstallKnown' /\ UninstallStops' /\ EnabledIsInstalled'
    BY <1>0, <2>0, ServiceConstants
    DEF ServiceInductive, InstallKnown, UninstallKnown, UninstallStops,
        EnabledIsInstalled, ServiceTypeOK
  <2> QED BY <2>1, <2>2, <2>3, <2>4, <2>5 DEF ServiceInductive
<1> QED BY <1>1, <1>2, <1>3, <1>4, <1>5, <1>6, <1>7, <1>8

LEMMA FaultsCounted == ServiceTypeOK /\ Fault => faults' \in 0 .. MaxFaults
BY ServiceConstants DEF Fault, ServiceTypeOK

(* service uninstall.                                                      *)
LEMMA UninstallStep ==
  ASSUME ServiceInductive,
         Uninstall \/ Disable \/ Unlink \/ Forget \/ DisableFails
  PROVE  ServiceInductive'
<1>0. /\ ServiceTypeOK /\ Service \in Loader /\ Installer \in Loader
      /\ Installer # Service
  BY ServiceConstants DEF ServiceInductive, Loader, Server
<1>1. ASSUME Uninstall PROVE ServiceInductive'
  <2>0. /\ cmd.pc = "idle" /\ cmd' \in CmdRecord /\ cmd'.pc = "disable"
        /\ cmd'.token = NoToken /\ cmd'.report = "none"
        /\ UNCHANGED <<tokenFile, server, unitFile, systemd, unheeded, faults>>
    BY <1>0, <1>1 DEF Uninstall, Running, CmdRecord
  <2>1. ServiceTypeOK'
    BY <1>0, <2>0 DEF ServiceTypeOK, ServerRecord, CmdRecord
  <2>2. OwnToken'
    BY <1>0, <2>0 DEF ServiceInductive, OwnToken, ServiceTypeOK
  <2>3. TokenKnown'
    BY <1>0, <2>0 DEF ServiceInductive, TokenKnown, ServiceTypeOK
  <2>4. InstallKnown' /\ RunsWhatIsInstalled'
    BY <1>0, <2>0 DEF ServiceInductive, InstallKnown, RunsWhatIsInstalled,
                      ServiceTypeOK
  <2>5. UninstallKnown' /\ UninstallStops' /\ EnabledIsInstalled'
    BY <1>0, <2>0, ServiceConstants
    DEF ServiceInductive, InstallKnown, UninstallKnown, UninstallStops,
        EnabledIsInstalled, ServiceTypeOK
  <2> QED BY <2>1, <2>2, <2>3, <2>4, <2>5 DEF ServiceInductive
<1>2. ASSUME Disable PROVE ServiceInductive'
  <2> DEFINE new == Down
  <2>0. /\ cmd.pc = "disable" /\ cmd' \in CmdRecord /\ cmd'.pc = "unlink"
        /\ cmd'.report = cmd.report /\ cmd'.token = cmd.token /\ cmd'.port = cmd.port
        /\ new = Down /\ new \in ServerRecord /\ new.pc = "down" /\ new.token = NoToken
        /\ server' = [server EXCEPT ![Service] = new]
        /\ systemd' = [loaded |-> systemd.loaded, enabled |-> FALSE,
                       state |-> "inactive"]
        /\ ~ unheeded'
        /\ UNCHANGED <<tokenFile, unitFile, faults>>
    BY <1>0, <1>2, Steps, Records DEF Disable, Disabled
  <2> HIDE DEF new
  <2>a. server' \in [Loader -> ServerRecord]
    BY <1>0, <2>0 DEF ServiceTypeOK, ServerRecord
  <2>b. \A s \in Loader :
          server'[s].pc \in {"truncate", "write", "bind", "up"}
            => server'[s].token # NoToken
    BY <1>0, <2>0 DEF ServiceTypeOK
  <2>c. systemd' \in [loaded : Port \cup {NoPort}, enabled : BOOLEAN,
                     state : {"inactive", "active", "restarting", "failed"}]
    <3>1. systemd.loaded \in Port \cup {NoPort}
      BY <1>0 DEF ServiceTypeOK
    <3> QED BY <2>0, <3>1
  <2>d. unheeded' \in BOOLEAN
    BY <2>0, <1>2 DEF Disable
  <2>1. ServiceTypeOK'
    BY <1>0, <2>0, <2>a, <2>b, <2>c, <2>d DEF ServiceTypeOK, ServerRecord, CmdRecord
  <2>2. OwnToken'
    BY <1>0, <2>0 DEF ServiceInductive, OwnToken, ServiceTypeOK
  <2>3. TokenKnown'
    BY <1>0, <2>0 DEF ServiceInductive, TokenKnown, ServiceTypeOK
  <2>4. InstallKnown' /\ RunsWhatIsInstalled'
    BY <1>0, <2>0 DEF ServiceInductive, InstallKnown, RunsWhatIsInstalled,
                      ServiceTypeOK
  <2>5. UninstallKnown' /\ UninstallStops' /\ EnabledIsInstalled'
    BY <1>0, <2>0, ServiceConstants
    DEF ServiceInductive, InstallKnown, UninstallKnown, UninstallStops,
        EnabledIsInstalled, ServiceTypeOK
  <2> QED BY <2>1, <2>2, <2>3, <2>4, <2>5 DEF ServiceInductive
<1>3. ASSUME Unlink PROVE ServiceInductive'
  <2>0. /\ cmd.pc = "unlink" /\ cmd' \in CmdRecord /\ cmd'.pc = "forget"
        /\ cmd'.report = cmd.report /\ cmd'.token = cmd.token /\ cmd'.port = cmd.port
        /\ unitFile' = NoPort
        /\ UNCHANGED <<tokenFile, server, systemd, unheeded, faults>>
    BY <1>0, <1>3, Steps DEF Unlink
  <2>1. ServiceTypeOK'
    BY <1>0, <2>0 DEF ServiceTypeOK, ServerRecord, CmdRecord
  <2>2. OwnToken'
    BY <1>0, <2>0 DEF ServiceInductive, OwnToken, ServiceTypeOK
  <2>3. TokenKnown'
    BY <1>0, <2>0 DEF ServiceInductive, TokenKnown, ServiceTypeOK
  <2>4. InstallKnown' /\ RunsWhatIsInstalled'
    BY <1>0, <2>0 DEF ServiceInductive, InstallKnown, RunsWhatIsInstalled,
                      ServiceTypeOK
  <2>5. UninstallKnown' /\ UninstallStops' /\ EnabledIsInstalled'
    BY <1>0, <2>0, ServiceConstants
    DEF ServiceInductive, InstallKnown, UninstallKnown, UninstallStops,
        EnabledIsInstalled, ServiceTypeOK
  <2> QED BY <2>1, <2>2, <2>3, <2>4, <2>5 DEF ServiceInductive
<1>4. ASSUME Forget PROVE ServiceInductive'
  <2>0. /\ cmd.pc = "forget" /\ cmd' \in CmdRecord /\ cmd'.pc = "idle"
        /\ cmd'.report = "removed" /\ cmd'.token \in {NoToken, cmd.token}
        /\ systemd' = [systemd EXCEPT !.loaded = unitFile]
        /\ UNCHANGED <<tokenFile, server, unitFile, unheeded, faults>>
    BY <1>0, <1>4, Reports DEF Forget
  <2>1. ServiceTypeOK'
    BY <1>0, <2>0 DEF ServiceTypeOK, ServerRecord, CmdRecord
  <2>2. OwnToken'
    BY <1>0, <2>0 DEF ServiceInductive, OwnToken, ServiceTypeOK
  <2>3. TokenKnown'
    BY <1>0, <2>0 DEF ServiceInductive, TokenKnown, ServiceTypeOK
  <2>4. InstallKnown' /\ RunsWhatIsInstalled'
    BY <1>0, <2>0 DEF ServiceInductive, InstallKnown, RunsWhatIsInstalled,
                      ServiceTypeOK
  <2>5. UninstallKnown' /\ UninstallStops' /\ EnabledIsInstalled'
    BY <1>0, <2>0, ServiceConstants
    DEF ServiceInductive, InstallKnown, UninstallKnown, UninstallStops,
        EnabledIsInstalled, ServiceTypeOK
  <2> QED BY <2>1, <2>2, <2>3, <2>4, <2>5 DEF ServiceInductive
<1>5. ASSUME DisableFails PROVE ServiceInductive'
  <2>0. /\ cmd.pc = "disable" /\ cmd' \in CmdRecord /\ cmd'.pc = "unlink"
        /\ cmd'.report = cmd.report /\ cmd'.token = cmd.token /\ cmd'.port = cmd.port
        /\ unheeded' = TRUE /\ faults' \in 0 .. MaxFaults
        /\ UNCHANGED <<tokenFile, server, unitFile, systemd>>
    BY <1>0, <1>5, Steps, FaultsCounted DEF DisableFails
  <2>1. ServiceTypeOK'
    BY <1>0, <2>0 DEF ServiceTypeOK, ServerRecord, CmdRecord
  <2>2. OwnToken'
    BY <1>0, <2>0 DEF ServiceInductive, OwnToken, ServiceTypeOK
  <2>3. TokenKnown'
    BY <1>0, <2>0 DEF ServiceInductive, TokenKnown, ServiceTypeOK
  <2>4. InstallKnown' /\ RunsWhatIsInstalled'
    BY <1>0, <2>0 DEF ServiceInductive, InstallKnown, RunsWhatIsInstalled,
                      ServiceTypeOK
  <2>5. UninstallKnown' /\ UninstallStops' /\ EnabledIsInstalled'
    BY <1>0, <2>0, ServiceConstants
    DEF ServiceInductive, InstallKnown, UninstallKnown, UninstallStops,
        EnabledIsInstalled, ServiceTypeOK
  <2> QED BY <2>1, <2>2, <2>3, <2>4, <2>5 DEF ServiceInductive
<1> QED BY <1>1, <1>2, <1>3, <1>4, <1>5

(* A command is interrupted, or the machine is started again.              *)
LEMMA FaultStep ==
  ASSUME ServiceInductive, CommandFails \/ Reboot
  PROVE  ServiceInductive'
<1>0. /\ ServiceTypeOK /\ Service \in Loader /\ Installer \in Loader
      /\ Installer # Service
  BY ServiceConstants DEF ServiceInductive, Loader, Server
<1>1. ASSUME CommandFails PROVE ServiceInductive'
  <2>0. /\ cmd.pc # "idle" /\ cmd' \in CmdRecord /\ cmd'.pc = "idle"
        /\ cmd'.report = "error" /\ cmd'.token \in {NoToken, cmd.token}
        /\ faults' \in 0 .. MaxFaults
        /\ UNCHANGED <<tokenFile, server, unitFile, systemd, unheeded>>
    BY <1>0, <1>1, Reports, FaultsCounted DEF CommandFails
  <2>1. ServiceTypeOK'
    BY <1>0, <2>0 DEF ServiceTypeOK, ServerRecord, CmdRecord
  <2>2. OwnToken'
    BY <1>0, <2>0 DEF ServiceInductive, OwnToken, ServiceTypeOK
  <2>3. TokenKnown'
    BY <1>0, <2>0 DEF ServiceInductive, TokenKnown, ServiceTypeOK
  <2>4. InstallKnown' /\ RunsWhatIsInstalled'
    BY <1>0, <2>0 DEF ServiceInductive, InstallKnown, RunsWhatIsInstalled,
                      ServiceTypeOK
  <2>5. UninstallKnown' /\ UninstallStops' /\ EnabledIsInstalled'
    BY <1>0, <2>0, ServiceConstants
    DEF ServiceInductive, InstallKnown, UninstallKnown, UninstallStops,
        EnabledIsInstalled, ServiceTypeOK
  <2> QED BY <2>1, <2>2, <2>3, <2>4, <2>5 DEF ServiceInductive
<1>2. ASSUME Reboot PROVE ServiceInductive'
  <2> DEFINE comes == systemd.enabled /\ unitFile # NoPort
             new == IF comes THEN Starting(unitFile, FALSE) ELSE Down
  <2>0. /\ cmd' \in CmdRecord /\ cmd'.pc = "idle"
        /\ \/ cmd.pc = "idle" /\ cmd' = cmd
           \/ /\ cmd.pc # "idle" /\ cmd'.report = "error"
              /\ cmd'.token \in {NoToken, cmd.token}
        /\ comes \in BOOLEAN /\ (comes => systemd.enabled /\ unitFile # NoPort)
        /\ systemd.enabled /\ ~ unheeded => unitFile # NoPort
        /\ systemd' = [loaded |-> unitFile, enabled |-> systemd.enabled,
                       state |-> IF comes THEN "active" ELSE "inactive"]
        /\ new \in ServerRecord /\ new.token = NoToken /\ new.pc \in {"down", "look"}
        /\ new.pc = "look" => comes /\ new.port = unitFile
        /\ ~ comes => new = Down
        /\ server' = [s \in Loader |-> IF s = Service THEN new ELSE Down]
        /\ faults' \in 0 .. MaxFaults
        /\ UNCHANGED <<tokenFile, unitFile, unheeded>>
    <3>1. /\ comes \in BOOLEAN /\ (comes => systemd.enabled /\ unitFile # NoPort)
          /\ systemd.enabled /\ ~ unheeded => unitFile # NoPort
      BY <1>0 DEF ServiceInductive, EnabledIsInstalled, ServiceTypeOK
    <3>2. cmd \in CmdRecord /\ unitFile \in Port \cup {NoPort}
      BY <1>0 DEF ServiceTypeOK, CmdRecord
    <3>3. /\ cmd' \in CmdRecord /\ cmd'.pc = "idle"
          /\ \/ cmd.pc = "idle" /\ cmd' = cmd
             \/ /\ cmd.pc # "idle" /\ cmd'.report = "error"
                /\ cmd'.token \in {NoToken, cmd.token}
      <4>1. CASE cmd.pc = "idle"
        BY <1>2, <3>2, <4>1 DEF Reboot
      <4>2. CASE cmd.pc # "idle"
        BY <1>0, <1>2, <4>2, Reports DEF Reboot
      <4> QED BY <4>1, <4>2
    <3>4. /\ new \in ServerRecord /\ new.token = NoToken
          /\ new.pc \in {"down", "look"}
          /\ new.pc = "look" => comes /\ new.port = unitFile
          /\ ~ comes => new = Down
      <4>1. CASE comes
        BY <3>2, <4>1, Records DEF Starting
      <4>2. CASE ~ comes
        BY <4>2, Records DEF Down
      <4> QED BY <4>1, <4>2
    <3>5. server' = [s \in Loader |-> IF s = Service THEN new ELSE Down]
      BY <1>0, <1>2 DEF Reboot
    <3>6. /\ systemd' = [loaded |-> unitFile, enabled |-> systemd.enabled,
                         state |-> IF comes THEN "active" ELSE "inactive"]
          /\ UNCHANGED <<tokenFile, unitFile, unheeded>>
      BY <1>2 DEF Reboot
    <3>7. faults' \in 0 .. MaxFaults
      BY <1>0, <1>2, FaultsCounted DEF Reboot
    <3> QED BY <3>1, <3>3, <3>4, <3>5, <3>6, <3>7
  <2> HIDE DEF new, comes
  <2>a. server' \in [Loader -> ServerRecord]
    BY <1>0, <2>0, Records DEF ServiceTypeOK, ServerRecord
  <2>b. \A s \in Loader : server'[s].pc \in {"down", "look"}
                           /\ server'[s].token = NoToken
    BY <1>0, <2>0 DEF Down
  <2>c. systemd' \in [loaded : Port \cup {NoPort}, enabled : BOOLEAN,
                     state : {"inactive", "active", "restarting", "failed"}]
    <3>1. unitFile \in Port \cup {NoPort} /\ systemd.enabled \in BOOLEAN
      BY <1>0 DEF ServiceTypeOK
    <3> QED BY <2>0, <3>1
  <2>1. ServiceTypeOK'
    BY <1>0, <2>0, <2>a, <2>b, <2>c DEF ServiceTypeOK, ServerRecord, CmdRecord
  <2>2. OwnToken'
    BY <2>b DEF OwnToken
  <2>3. TokenKnown'
    BY <1>0, <2>0 DEF ServiceInductive, TokenKnown, ServiceTypeOK
  <2>4. InstallKnown' /\ RunsWhatIsInstalled'
    BY <1>0, <2>0 DEF ServiceInductive, InstallKnown, RunsWhatIsInstalled,
                      ServiceTypeOK
  <2>5. UninstallKnown' /\ UninstallStops' /\ EnabledIsInstalled'
    BY <1>0, <2>0, ServiceConstants
    DEF ServiceInductive, InstallKnown, UninstallKnown, UninstallStops,
        EnabledIsInstalled, ServiceTypeOK
  <2> QED BY <2>1, <2>2, <2>3, <2>4, <2>5 DEF ServiceInductive
<1> QED BY <1>1, <1>2

LEMMA ServiceStep ==
  ASSUME ServiceInductive, [ServiceNext]_serviceVars
  PROVE  ServiceInductive'
<1>1. CASE UNCHANGED serviceVars
  BY <1>1
  DEF serviceVars, ServiceInductive, ServiceTypeOK, OwnToken, InstallKnown,
      RunsWhatIsInstalled, TokenKnown, UninstallKnown, UninstallStops,
      EnabledIsInstalled, PortOpen
<1>2. CASE ServiceNext
  BY <1>2, LookStep, TruncateStep, WriteStep, ServerStep, InstallStep,
     UninstallStep, FaultStep
  DEF ServiceNext, LoadLocalToken, CommandBegins, CommandGoesOn
<1> QED BY <1>1, <1>2

(* Servers, tokens and `service` commands are in the states that the       *)
(* invariant describes, whatever starts, fails or is interrupted.          *)
THEOREM ServiceIsSound == ServiceSpec => []ServiceInductive
<1>1. ServiceInductive /\ [ServiceNext]_serviceVars => ServiceInductive'
  BY ServiceStep
<1> QED BY ServiceInitHolds, <1>1, PTL DEF ServiceSpec

(* The token that `service install` prints is the one that the service     *)
(* takes, as long as nobody replaces it in the file.                       *)
THEOREM PrintedTokensWork == ServiceSpec => []PrintedTokenWorks
<1>1. ServiceInductive => PrintedTokenWorks
  BY DEF ServiceInductive, TokenKnown, PrintedTokenWorks
<1> QED BY <1>1, ServiceIsSound, PTL

(* What `service uninstall` reports as removed neither runs nor comes back, *)
(* unless systemd would not disable it.                                    *)
THEOREM UninstallsStop == ServiceSpec => []UninstallStops
<1>1. ServiceInductive => UninstallStops
  BY DEF ServiceInductive
<1> QED BY <1>1, ServiceIsSound, PTL

(* What `service install` reports as running is what it installed, and a   *)
(* reboot or a failure brings that back.                                   *)
THEOREM InstallsRun == ServiceSpec => []RunsWhatIsInstalled
<1>1. ServiceInductive => RunsWhatIsInstalled
  BY DEF ServiceInductive
<1> QED BY <1>1, ServiceIsSound, PTL
==============================================================================

\* Installed, served by hand and rebooted, with one failure.
SPECIFICATION ServiceFairSpec
CONSTANTS
    h1 = h1
    service = service
    install = install
    a = a
    b = b
    Hand = {h1}
    Service = service
    Installer = install
    Port = {a, b}
    NoPort = NoPort
    HandPort = {a}
    Token = {1, 2, 3, 4, 5, 6}
    NoToken = 0
    MaxFaults = 1
INVARIANTS
    PrintedTokenWorks
    UninstallStops
    ServiceInductive
PROPERTIES
    CommandEnds

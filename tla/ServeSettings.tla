---------------------------- MODULE ServeSettings ----------------------------
(***************************************************************************)
(* What `serve` makes of --public-url, --path, --host and --auth: a server *)
(* with the URL it advertises, or an error, some of which say what to pass *)
(* instead.  The operator does what they say, until the server is up.      *)
(*                                                                         *)
(* A path is a name, or none, and whether a slash follows: "" and "/" have *)
(* no name.                                                                *)
(***************************************************************************)

CONSTANTS
    PathName,     \* names of paths
    NoPathName,
    DefaultName   \* that of DEFAULT_PATH

ASSUME SettingsConstants == DefaultName \in PathName /\ NoPathName \notin PathName

VARIABLES
    options,      \* the options given
    state,        \* whether they have been tried, and what came of it
    mounted,      \* the path that the server has its endpoint at
    resource      \* the URL that it advertises

settingsVars == <<options, state, mounted, resource>>

Path == [name : PathName \cup {NoPathName}, slash : BOOLEAN]
Root == [name |-> NoPathName, slash |-> TRUE]
DEFAULT_PATH == [name |-> DefaultName, slash |-> FALSE]

Url == [scheme : {"http", "https", "other"}, host : {"public", "loopback", "none"},
        path : Path, query : BOOLEAN]

\* Without --public-url.
NoUrl == [scheme |-> "none", host |-> "none", path |-> Root, query |-> FALSE]

\* A path that is given without its first slash is given one.
Options == [bind : {"loopback", "other"}, auth : {"oauth", "local"},
            path : Path,
            url : Url \cup {NoUrl}]

State == {"given", "up", "pass_path", "append_path", "refused"}

SettingsTypeOK ==
    /\ options \in [bind : {"loopback", "other"}, auth : {"oauth", "local"},
                    path : Path, url : Url \cup {NoUrl}]
    /\ state \in State
    /\ mounted \in Path
    /\ resource \in Url \cup {NoUrl}

SettingsInit ==
    /\ options \in Options
    /\ state = "given"
    /\ mounted = Root
    /\ resource = NoUrl

-----------------------------------------------------------------------------
(* HttpServeConfig                                                         *)

\* __post_init__ puts a slash before a path.
Served == IF options.path.name = NoPathName THEN Root ELSE options.path

\* rstrip("/")
Stripped(path) == [path EXCEPT !.slash = FALSE]
PublicPath == Stripped(options.url.path)
HasPublicPath == PublicPath.name # NoPathName

\* "--public-url is required with --auth oauth", and what is wrong with one.
UrlRefused ==
    IF options.url = NoUrl THEN options.auth = "oauth"
    ELSE \/ options.url.scheme = "other"
         \/ options.url.host = "none"
         \/ options.url.query
         \/ options.url.scheme = "http" /\ options.url.host # "loopback"

\* "--path is ... but --public-url ends in ...  Pass --path ..."
PathsDiffer == options.url # NoUrl /\ HasPublicPath /\ PublicPath # Served

\* "--public-url has no path but --path is ...  Append it to --public-url: ..."
PathMissing == options.url # NoUrl /\ ~ HasPublicPath /\ Served # DEFAULT_PATH

\* validate_runtime
RuntimeRefused ==
    /\ options.auth = "local"
    /\ options.bind # "loopback" \/ options.url.scheme = "https"

\* issuer_url, and the path with no slash after it.
ResourceUrl ==
    IF options.url = NoUrl
    THEN [NoUrl EXCEPT !.scheme = "http", !.host = options.bind, !.path = Served]
    ELSE [options.url EXCEPT !.path = IF HasPublicPath THEN PublicPath ELSE Served]

Refused(why) == state' = why /\ UNCHANGED <<mounted, resource>>

Serve ==
    /\ state = "given"
    /\ \/ UrlRefused /\ Refused("refused")
       \/ ~ UrlRefused /\ PathsDiffer /\ Refused("pass_path")
       \/ ~ UrlRefused /\ PathMissing /\ Refused("append_path")
       \/ /\ ~ (UrlRefused \/ PathsDiffer \/ PathMissing)
          /\ IF RuntimeRefused THEN Refused("refused")
             ELSE /\ state' = "up"
                  /\ mounted' = Served
                  /\ resource' = ResourceUrl
    /\ UNCHANGED options

-----------------------------------------------------------------------------
(* The operator                                                            *)

Advised == state \in {"pass_path", "append_path"}

\* The path with the slash that --public-url has.
BadAdvice ==
    IF state = "pass_path" THEN [options EXCEPT !.path = options.url.path]
    ELSE [options EXCEPT !.url.path = Served]

\* The options that the error says to pass.
Advice ==
    IF state = "pass_path" THEN [options EXCEPT !.path = PublicPath]
    ELSE [options EXCEPT !.url.path = Served]

FollowAdvice ==
    /\ Advised
    /\ options' = Advice
    /\ state' = "given"
    /\ UNCHANGED <<mounted, resource>>

\* The server is stopped, or there was no advice: the same options again.
TryAgain ==
    /\ state \in {"up", "refused"}
    /\ state' = "given"
    /\ mounted' = Root
    /\ resource' = NoUrl
    /\ UNCHANGED options

-----------------------------------------------------------------------------

SettingsNext == Serve \/ FollowAdvice \/ TryAgain

SettingsSpec == SettingsInit /\ [][SettingsNext]_settingsVars

\* An operator who wants the server does as he is told.
SettingsFairSpec ==
    /\ SettingsSpec
    /\ WF_settingsVars(Serve)
    /\ WF_settingsVars(FollowAdvice)

-----------------------------------------------------------------------------

\* "They must match, or the protected resource metadata will advertise a
\* resource your users cannot reach": the path that is advertised is the one
\* that is served, whatever slashes the options have.
ServedWhereAdvertised == state = "up" => resource.path = mounted

\* Following what an error says leads to a server, or to what is wrong besides:
\* not to the same error again and again.  To serve at "/" is the exception: that
\* slash is stripped from every --public-url it is appended to.
AdviceHelps ==
    Advised /\ Served # Root ~> state \in {"up", "refused"}

-----------------------------------------------------------------------------
(* The invariant behind it.                                                *)

\* Advice is about a --public-url that was given.
SettingsInductive ==
    /\ SettingsTypeOK
    /\ ServedWhereAdvertised
    /\ Advised => options.url # NoUrl
==============================================================================

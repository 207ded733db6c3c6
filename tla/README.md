# A verification project for odoo-mcp-multi

`odoo-mcp-multi` lets an MCP client work with Odoo.  It runs in two ways: as a
local stdio server that reads Odoo profiles from `profiles.json`, and as a
remote HTTP server (`odoo-mcp serve`) that is its own OAuth authorization
server: every user signs in to Odoo on a consent page, and the server keeps the
user's Odoo credential, encrypted, behind the tokens it issues.

This directory holds TLA+ modules that model the program, TLC configurations
that check them on small instances, and TLAPS proofs of what matters most for
every instance.  Paths below are relative to `src/odoo_mcp_multi/`.

## 1. Inventory

| Component | State it keeps | Operations | Hard behaviour |
|---|---|---|---|
| Authorization store, `http/store.py` | a SQLite database: clients, credentials, transactions, codes, grants, access and refresh tokens | one method per statement or short group of statements | several processes on one file; **each statement commits by itself** |
| OAuth provider, `http/provider.py` | none of its own (the store) | authorize, exchange code, refresh, verify, revoke, complete a login | several statements per handler; failures and revocations in between |
| Consent page, `http/consent.py` | none (the transaction it read is a local variable) | show the form, submit it, list databases | an `await` in the middle of `login_submit`, as long as Odoo takes |
| `odoo-mcp http ...`, `cli.py` | none | list, revoke, purge | a process of its own, against a running server |
| HTTP app, `http/app.py`, `http/basic_auth.py` | one event loop per process, a thread limiter | dispatch a request; run a tool in a thread | handlers interleave at awaits |
| Settings, keys, local token, `http/settings.py`, `http/crypto.py` | key file, token file | load or create; derive every URL from `--public-url` | first start of two processes; a file that is there before it is written; errors that tell the operator what to do |
| Profile registry, `config.py` | `profiles.json` | load, add, remove, rename, set default, save | read-modify-write of a whole file by independent processes |
| Profile resolution, `context.py`, `operations.py` | a context variable per request, a fallback profile per process | which profile a tool call works with | the same call means different users in different modes |
| Operations, `operations.py` | a process-wide metadata cache with a lifetime | search, write, export, import, reports, permission checks | cache shared between threads and users; checks before use |
| MCP server, `server.py` | the fallback profile | one thread per tool call | concurrent tool calls |
| Odoo clients, `client.py` | session id, method signatures, detected protocol | detect the protocol, authenticate, call | retries, caching of failures |
| Parsers, `version.py`, `parsers.py` | none | pure | boundaries |
| Service installation, `service.py` | the unit file, and what systemd knows of it | install, uninstall | commands of systemd that fail, other servers on the port, interruptions, reboots |
| Plugins and upgrade, `cli.py` | copies of the skills in directories of other programs | install, uninstall, migrate, upgrade and refresh | directories that other packages use, versions that differ, failures half-way |

How they interact: the command line starts the MCP server (`run`) or the HTTP
application (`serve`).  The HTTP application mounts the OAuth endpoints, the
consent page and the MCP endpoint; the provider and the consent page share one
`AuthStore` object per process, and the processes and commands share the
database file.  An authenticated request carries the profile that its token
resolved to; the tools find it through `context.py` and call Odoo through a
client made for that call.

## 2. Plan

The order is that of the state, the concurrency and the damage at stake.

| Step | Modules | State |
|---|---|---|
| 1. The authorization server: database, handlers, revocation, the abstract delegation they implement | `AuthStore`, `OAuthServer`, `Delegation` | done |
| 2. The profile registry: an abstract map with a default, and the file that commands read and rewrite | `ProfileConfig`, `ProfileFile`, `ProfileRegistry` | done |
| 3. Tool calls: the profile of a request, permission checks, the metadata cache | `ToolCalls` (beside `ProfileFile`) | done |
| 4. The Odoo clients: detection, secrets, names of arguments, retries, the sign-in | `OdooClient` | done |
| 5. The secret key at the first start of several processes | `SecretKey` | done |
| 6. The local service: token file, unit, systemd, servers started by hand | `LocalService` | done |
| 7. Paging of searches and exports while records come and go | `Paging` | done |
| 8. The financial report, with the version a client learns and its warning | `FinancialReport` | done |
| 9. The skills of other agents: install, uninstall, upgrade | `SkillFiles` | done |
| 10. What `serve` makes of its options | `ServeSettings` | done |

Open: an abstract specification of a tool call (the caller's operation, with the
caller's credentials, once unless a connection drops), which would compose steps
1, 3 and 4.

## 3. The modules

### 3.1 The authorization server

| Module | What it is |
|---|---|
| `AuthStore` | the database: tables as sets of rows, one action per SQL statement of `http/store.py`, with the cascades and the foreign keys of the schema |
| `OAuthServer` | the handlers of `http/provider.py` and `http/consent.py` and the commands of `cli.py`, as tasks that execute those statements one at a time; faults; the clock |
| `OAuthSafety` | the properties |
| `OAuthInvariant` | the inductive invariants behind them |
| `Delegation` | the abstract specification: sign in, delegate, serve, withdraw, erase |
| `OAuthDelegation` | the refinement mapping from `OAuthServer` to `Delegation` |
| `OAuthProofs` | the proofs, of the refinement too |
| `MCOAuth` | instances for TLC |

**State.**  `creds`, `txns`, `codes`, `grants`, `access` and `refresh` are the
tables.  A row keeps the columns that decide something: ids, references, the
client, the attempts, and whether `expires_at` has passed (`expired`), which a
step of the clock (`TimePasses`) sets at any time.  Random ids are numbered in
the order they are drawn (`minted`); their unguessability is not a subject of
the model.  `pc[t]` is the statement that task `t` executes next and `ctx[t]`
the local variables it still needs.  `dialled`, `signins` and `opened` are
history variables: no action reads them.

**Atomicity.**  `AuthStore._connect` sets `isolation_level=None`, so every
statement commits when it is executed, whether or not it stands in a
`with self._transaction()` block.  Only `consume_code` and
`rotate_refresh_token` open a transaction (`BEGIN IMMEDIATE`), and they are one
action each.  `revoke_grant` and `bump_txn_attempts` are several.

**Scheduling.**  Handlers of one process run in one event loop and give it up
only where they await a thread: a login at Odoo (`"validating"`) and a tool call
(`"serving"`).  `HasLoop` says so.  Odoo may never answer either (`MayHang`).  Handlers of different processes, and the
commands, interleave at every statement.

**Faults.**  `StatementFails` ends a handler at any statement (a lock held past
`busy_timeout`, a full disk); `ServerRestarts` kills a process with every handler
in it.  What was committed stays.  The commands are one-shot: a killed command is
a failed statement.

**Left out.**  Client registration, scopes, PKCE, redirect matching and the
checks of the form's fields come before the first state change of their handler
and change nothing when they refuse.  `touch_credential` writes a timestamp that
only `http grants` prints.  `maybe_purge` is a separate step because its
ten-minute throttle makes it one that a handler may or may not take, and its
statements read nothing of the handler's.

**Abstraction.**  `Delegation` has no tables: credentials are stored for a client,
delegated at most once, used by requests while the delegation stands, withdrawn
and only then erased.  `OAuthDelegation` reads the stored credentials off
`creds` and `signins`, the delegations off `grants`, the spent ones off `opened`
and the requests off the tasks that hold a looked-up token.

### 3.2 The profile commands

| Module | What it is |
|---|---|
| `ProfileConfig` | what `profiles.json` says: a sequence of entries, in the order of the file, and a default; the functions of `config.py` as operators on it |
| `ProfileFile` | the commands of `cli.py`, each a process that loads the file, changes what it has read, opens the file (which empties it) and writes it |
| `ProfileRegistry` | the abstract specification: a map from names to settings with a default, changed at once |
| `ProfileSafety` | the properties, the refinement mapping and the inductive invariants |
| `ProfileProofs` | the proofs |
| `MCProfiles` | constants for TLC, of the instances in `MCHost` and `MCCommands` |

**State.**  `file` is absent, empty, torn (two writers, or a shorter text over a
longer one) or whole with a configuration.  `cmd[c]` is where command `c` stands,
with the configuration that it has changed in memory.  `told[n]` is what the user
was last told to have saved under `n`, `killed` how many commands were killed,
`overlapped` the names that were saved while another command held what it had read
before; no action reads `told` and `overlapped`.  A profile is its key, its name and one value for all
that it holds (`Settings`); those in `Granting` permit everything.

**Steps.**  `load_profiles`, the function that changes the configuration,
`open(path, "w")` and the write are separate steps, since nothing locks the file.
`cmd_edit_profile` reads the profile first, then prompts and tests the connection
(`CmdEditProfile`, `SubmitEdit`, `AbandonEdit`), and saves what it read: when it
renames, as an addition followed by a removal (`AfterSave`).  `rename_profile` is
called by tests and the library only, and is modelled beside the commands
(`CallRenameProfile`).  The length of texts is not modelled, so what two writers
leave is the text of one of them or a torn file (`Landed`).

**Inputs.**  `Written` are files that a user has edited: permissions can be given
in no other way, and every command keeps the ones it reads.

### 3.3 Tool calls

| Module | What it is |
|---|---|
| `ToolCalls` | the server and its calls, one thread each, beside the commands of `ProfileFile` |
| `ToolSafety` | the properties and the inductive invariants |
| `ToolProofs` | the proofs |
| `MCTools`, `MCCommands` | instances for TLC, with `ProfileSafety` in the latter |

**State.**  `up`, `remote` and `fallback` are the process, whether it serves OAuth
users, and the profile it was started with; it may be stopped and started in
another way; `calls[t]` is where the call in thread `t` stands: at the check of the tool
(`server._check_permission`), at the one of the operation, at the resolution of
its client, or at a step of the metadata cache, which is a dictionary without a
lock; `now` is the clock.  Each step that reads `profiles.json` reads what the
commands have left of it by then.

**Tools.**  `"operation"` is every tool that resolves a client and sends a
request, `"metadata"` the cached ones (`list_models`, `list_fields`),
`"version"` is `get_version`, which resolves its profile in another way:
`ActsAsCaller` is of the others, `EveryCallActsAsCaller` of all of them.

**Time.**  An answer is at most `Delay` under way from Odoo to the cache.  The
clock stops at `MaxTime` for TLC; the proofs hold for any value of it.

### 3.4 The clients of Odoo

| Module | What it is |
|---|---|
| `OdooClient` | detection of the protocol, creation of the client, login, requests, and the sign-in of the consent page, which uses two clients |
| `ClientSafety` | the properties and the inductive invariant |
| `ClientProofs` | the proofs |
| `MCClient` | instances for TLC |

**State.**  `task` is what is done (`op_validate_credentials` or a tool call) and
how far it is; `client` the client with its `_signatures_cache`; `request` the
request, with the number of its positional arguments and the names of the other
ones; `stored` what the sign-in persists.  `proved`, `performed` and `trouble` are
history variables.  `odoo` is the version of the server: what it serves, and whom
it lets in, is external and taken from what the clients expect.

**Failures.**  Every answer may fail to come: before Odoo has done anything
(`ProbeFails`, `LoginFails`, `SignatureUnavailable`, `PostFails`) or after
(`AnswerLost`).  The clients of JSON-RPC and JSON-2 repeat the lookup of a
signature and nothing else.  XML-RPC goes through `ServerProxy` with the transport
of the standard library, whose `request` posts a second time when the connection
drops (`RemoteDisconnected`, `ECONNRESET`, `ECONNABORTED`, `EPIPE`), whatever Odoo
has done by then: `ConnectionDropped` is the first of the two posts
(`request.again`), after which the second has any of the outcomes.  The transport
repeats logins and the probe of the version as well, which read only: in the model
they are one request.

**Arguments.**  An argument is its position, a parameter its name: `Body` maps the
names of a JSON-2 request to the positions they get their values from, by the
table, by Odoo's own description of the method, or by the looks of the first
argument.  That the rows of the table are in Odoo's order is an assumption on
Odoo (`MethodAssumption`); so is that tools pass the ids of records first
(`StartRequest`).

### 3.5 The secret key

`SecretKey` is `load_or_create_key` (`http/crypto.py`), one action per call of the
operating system: look, read, create with `O_EXCL`, write.  `process[p]` is where
a process stands, `stored` the keys that secrets in the database are encrypted
with.  Any process may be killed between two steps (`Stop`), or store a secret
once it is up (`StoreSecret`).  The operator is external: `DeleteAsAdvised` does
what the error about an empty file says, and `Careful` is whether he looks again
before he does.  `HostProofs` has the proofs.

### 3.6 The local service

`LocalService` has everything that uses the file `local-token`: servers started
by hand, the service of systemd, and the installer, which loads the token to print
it.  `load_local_token` is three steps (look, truncate, write), since nothing
locks the file; `Listen` is the bind that comes after it.  `service install` and
`service uninstall` are one action per command of systemd, on `unitFile` (of the
unit's text only the port) and `systemd` (what it has loaded, whether the unit is
enabled, and the state of the service).  systemd itself is external: it serves the
unit of its last reload, and restarts it when it fails or gives up.
`CommandFails` is a command whose result is checked, or an interruption;
`systemctl disable --now` may fail without anybody looking (`DisableFails`, which
`unheeded` remembers), as in the code.  `ServiceProofs` has the proofs, `MCService`
is the instance.

### 3.7 The skills of other agents

`SkillFiles` has the directories that skills are copied to: flat ones, which other
packages use, and the plugin's own tree.  `disk[d][i]` is what there is of a skill
or the manifest: nothing, a link, a copy of a version, what a failure has left of
it, or what another package put there.  A command handles one item after the
other; `InstallFails` is an `OSError`, after which it goes on, `Interrupted` what
ends it.  `upgrade` changes the version and runs `plugins install --force` for
each directory in which it recognises copies (`CopiedSkillTargets`).  What the
installers do and print is external (`PackageIsLatest`, `PackageUpgraded`,
`UpgradeUnnoticed`).  `Installer` are the ways in which the package may be
installed, and `job.by` the one of an upgrade: pip may say "already satisfied" of a
dependency, which the command takes for the package (`unnoticed` remembers it), and
`uv pip` says nothing the command knows when there is no newer version.
`SkillProofs` has the proofs.

### 3.8 Paging

`Paging` is `op_search_read` and `op_export_records` as an agent uses them: again
with `next_offset` as long as `has_more`.  The count, the search and the export are
separate requests, between which Odoo's other users create and delete records.
Records are numbered in the order of their creation and returned in that order; in
another order a new record may come before an offset, and nothing holds that is said
of pages.  A count or a search that fails leaves the agent where it was.  An export
that fails answers with `has_more` and `next_offset` all the same, and an agent may
go by them (`ExportFails`, after which `unread` has the records of the page) or try
again (`RequestFails`).  `OdooProofs` has the proofs.

### 3.9 The financial report

`FinancialReport` is one call of `get_financial_report`: the version of the
server, the report, its options, the report itself, and perhaps once more by the
other method, against an Odoo that may be upgraded between any two of these.
`learned` is the version that the client knows and its `last_warning`.  Answers may
fail to come before or after the report was computed, and the computation may fail,
with an error that reads like that of a missing method or another one: the clients
tell them apart by words (`client.py`, 457-461 and 880-884).  JSON-2 raises another
error, so only the other protocols fall back.  Over XML-RPC a request whose
connection drops is posted again (`ComputeDropped`, `FallbackDropped`).  `begun`,
`computed` and `dropped` are history variables.  `OdooProofs` has the proofs.

### 3.10 What `serve` makes of its options

`ServeSettings` is `HttpServeConfig`: what it refuses, which errors say what to
pass instead, and the URLs it derives.  The operator does what the error says
(`FollowAdvice`) until the server is up or nothing is advised.  A path is a name
and whether a slash follows it.  `HostProofs` has the proofs.

### 3.11 Instances of several modules

`MCOdoo` (clients, pages, the report) and `MCHost` (profile commands, skills, the
secret key, the options of `serve`) are instances of modules that share no
variable: the initial state says by `part` which of them moves, and the others
stay in one of their initial states.  Letting them interleave would multiply the
states and show nothing more.  `OdooSound` and `HostSound` gather the type
invariants and the inductive invariants of those modules, so that TLC checks what
the proofs start from; `OdooProofs` and `HostProofs` prove them of the instances.
`MCCommands` has by `part` a server beside one command, or two commands at once.

## 4. What is checked

| Run | Instance | States | Shows |
|---|---|---|---|
| `two_servers` | two processes with a handler each, one command, two clients, one transaction (it can be submitted twice), an attempt limit of 1, refresh tokens that expire | 582,530 | nothing is held, redeemed or rotated twice (`CredentialStays`, `OneChain`, `RedeemedOnce`), a credential serves the client it was given for (`ServedAsSignedIn`), revocation erases and is final (`RevocationErases`, `GoneIsGone`), logins exceed the limit by at most what is in flight (`LoginsBounded`), and the refinement `Delegates` |
| `faults` | two handlers of one process and a command, an attempt limit of 2, fair; one fault, while the second handler is idle | 77,611 | the inductive invariant and what is known of logins (`ServerInductive`), whatever statement fails; handlers end or wait for Odoo (`TaskEnds`), and revocations erase unless something fails (`RevocationCompletes`) |
| `revocation_fault` | one handler, one command, one fault | violation | the stored password survives a revocation that is cut short |
| `tools_commands` | one call beside one command, of a server without OAuth or with two users of one database; or two commands at once; a command is killed or the server stopped once, at any point; two names, files written by hand | 873,570 | a call has its caller's credentials (`ActsAsCaller`, `get_version` apart) or those the server was started with (`FallbackServes`, `CallsInductive`); a file that can be read has a default that exists (`DefaultIsKnown`), and what was reported as saved without overlap (`SavedStays`) |
| `tools_cache` | two threads, two profiles, no command, a lifetime of 2, answers under way for up to 1, a clock up to 4 | 2,194,525 | a call gets its own profile's metadata (`AnswersAreOwn`), of a bounded age (`AnswersAreFresh`) |
| `tools_remote_cache` | two OAuth users of one database, metadata | violation | one user gets from the cache what Odoo answered the other |
| `tools_version` | two OAuth users of one database, `get_version` | violation | a call that names a profile of the host is answered of it |
| `odoo`, clients | Odoo 7, 18 and 19; every profile of a sign-in and five of tools; a method in the table, one of records and one of the model; two requests of two arguments, three attempts | 114,651 | requests are performed again only if a connection of XML-RPC dropped (`RepeatedOnlyIfDropped`), arguments keep their places (`ArgumentsInPlace`), sign-ins are accepted on proof and refused for cause (`AcceptedIsProved`, `RefusedForCause`), and work ends (`WorkEnds`); `OdooSound` |
| `odoo`, pages | four records at first, up to six, pages of two, deletions | 62,335 | no record is passed over but those of an export that failed (`NothingMissed`), none is returned twice, and `has_more` is right (`OdooSound`) |
| `odoo`, report | Odoo 16 to 19, upgraded at any time; three protocols, six ways to name a report, three formats | 17,880 | the report asked for, by the method that the warning names (`RightReport`), computed again for a cause only (`ComputedAgainForCause`) |
| `signin_protocol` | the instance of the clients | violation | a sign-in with `auto` on an XML-RPC server stores `auto` |
| `host`, profiles | one command at a time, three names, hand-written files with and without permissions | 56,293 | a profile is never under neither of its names while `edit-profile` renames it (`EditKeepsProfile`), and the refinement `KeepsRegistry` |
| `host`, skills | two agents with one directory, a plugin, claude; two versions, of which the second has a skill more; every way to install the package; a skill of another package, links, one fault | 176,336 | what is reported as refreshed is current (`RefreshedIsCurrent`), when nothing fails and the upgrade has noticed what was installed no copy is forgotten (`UpgradeRefreshes`), other packages' skills stay (`ForeignSurvives`), no skill is there twice (`HostSound`) |
| `host`, key | three processes, three keys, two kills, a careful operator | 3,339 | stored secrets can be read (`SecretsSurvive`), one key for all (`HostSound`), and processes start in the end (`StartsRecover`) |
| `host`, options | two names of paths, every scheme, host, slash, query and `--auth` | 3,488 | what is advertised is served (`HostSound`), following an error leads somewhere (`AdviceHelps`) |
| `upgrade_pip` | the skills, installed with pip, no fault | violation | an upgrade by pip to a new version refreshes no copy |
| `service` | one server by hand, two ports, six tokens, rotation, one fault or reboot | 903,528 | what is reported as running takes the printed token (`PrintedTokenWorks`), what is reported as removed is gone (`UninstallStops`), systemd runs what is installed and an enabled service can be uninstalled (`ServiceInductive`), commands end (`CommandEnds`) |

**Bounds of the authorization server.**  `MaxTxn` bounds the transactions opened,
`MaxRefresh` the refresh tokens a rotation may add to, `MaxFaults` the faults.  One
transaction is enough for two credentials (it is submitted twice before it is
closed), for two codes and for two grants that live at the same time; two handlers
in different processes and a command meet at every pair of statements.  In `faults`
the second handler shares a process with the first, and a fault finds it idle and
keeps it so (`FaultsAlone`): faults of several handlers are left to the proofs.  That
bound takes no step from a task that has been started, so fairness is what it was.
Swapping the processes with their handlers, and the clients, is a symmetry.

**Bounds of the profiles and the tools.**  `MaxFaults` is shared by `Kill` and by
`StopServer`.  Two commands are enough for one to overwrite what another one
wrote, and three names for a removal to choose among the others.  A server is beside
one command at a time, which saves permissions or their lack; two commands at once
start without a file and save the same settings (`Save`), and which of the two does
what is all the same (`Exchanges`).  A lifetime of 2
and a clock of 4 let an entry be stored, looked up while it is fresh, expire, be
evicted by one thread and replaced by another one.  In `tools_cache` there is one
query and two profiles: the keys differ in the part that decides whose answer it
is.  It has no command: a profile that is edited while the server runs keeps its key,
and the answers that its former credentials got are served until they expire.  So
`AnswersAreOwn` is of profiles that do not change, in the run as in the proof.

**Bounds of the clients.**  `MaxRequests`, `MaxArgs` and `Attempts` (3 in the
code).  The second request of a call is the one that finds the cache filled, or the
uid known; two arguments are needed for ids and one more.  `CallProfile` are the
profiles that tools are called with: detected with both secrets, and each protocol
with a secret that is let in or one that is not.

**Bounds of the other modules.**  Three processes let one create the key, one find
it empty and one start later; `MaxKills` of two kills the creator and one more.
`MaxKeys` is the number of keys that can be drawn.  In `service` two ports tell a
new unit from an old one; a token that nobody has any more may be drawn again, and
with six there is always one to draw, whoever has which (`TokensAreMany`).
One fault in the skills leaves a copy torn, lost or of the old version, which every
later command then meets.  Four records in pages of two have a full last page, six
a page that shifts between count and search.  The versions of the report are those
on both sides of 17 and 19.  A second name of a path is one that differs from the
default.

**Fairness.**  `OAuthServer!FairSpec` gives every task strong fairness: the event
loop comes back to each handler, and the operating system to each command; strong,
because the turn of a suspended handler is taken away whenever another handler of
its process runs.  The one exception is a thread
that waits for Odoo: the last probe of `get_server_version` (`version.py`, 90), which
every sign-in makes and `get_version` too, makes a `ServerProxy` without the transport
that sets a timeout, so neither `LOGIN_TIMEOUT_SECONDS` nor that of the client
bounds it.  `MayHang` names the states that wait, and nothing is assumed of them:
`TaskEnds` says that a task ends again and again or waits in one of them for ever, and
that it ends though another handler of its process waits (the event loop is free
then); `RevocationCompletes` holds beside handlers that hang.  Nothing is assumed of
users, of the clock, or of the purge, and no fault is assumed to occur or not.
`OdooClient!FairSpec` gives weak fairness to what a task does once it is started,
since requests have timeouts, with the same exception, which `OdooClient!MayHang`
names and `WorkEnds` excepts.
`MCHost!HostSpec` is fair as `SecretKey!KeyFairSpec` is: a process that has failed
is started again (`Restart=on-failure` in the unit of `deploy/`), a start goes on,
and the operator in the end does what he was told; kills are bounded.  It is fair as
`ServeSettings!SettingsFairSpec` is: the operator starts the server and does what
the error says.  `LocalService!ServiceFairSpec`: the command that runs goes on,
since each command of systemd returns and the wait has a deadline; nothing is
assumed of the service.

**Mutations.**  Definitions named `Bad...` are the definition that follows them
with a plausible bug in it: an off-by-one, a missing WHERE condition, a foreign
key without cascade, a cache key without the profile, a file that is not emptied, a
request that is posted again after a timeout.  Each property of a passing run is violated by the
one listed for it in `PROJECT.json`.

**Disagreements.**  The runs with a violation check what the repository says and
the code does not do; `PROJECT.json` quotes the lines.  `RevocationErases` and
`AnswersAreOwn` are in two runs: they hold when nothing fails, and without OAuth.
`EveryCallActsAsCaller` and `UpgradeRefreshesCopies` are what the documents say;
`ActsAsCaller`, of every tool but `get_version`, and `UpgradeRefreshes`, of upgrades
that have noticed what was installed, are what the code keeps of it.
Section 6 lists where else the code and what is written about it part; some
properties are conditioned on it, and say so: `SecretsSurvive` on a careful
operator (`Careful`), `UninstallStops` on systemd doing what it is told
(`unheeded`), `SavedStays` on saves that no other command overlaps (`overlapped`),
`MoreIsMore` on a limit, and `AdviceHelps` on paths with a name; the proof of
`UpgradeRefreshes` supposes besides that no skill comes back to the package after it
was dropped (`NothingReturns`).  Records that an export which failed would have
returned count as told of in `NothingMissed` and `MoreIsMore` (`unread`): its
envelope sends an agent past them.

## 5. What is proved

All theorems are for any value of the constants that satisfies the named
assumptions of the modules, which TLC evaluates in every run: any sets of clients,
handlers, commands, processes, names, threads, users and methods, any table and
signatures, any places, skills and versions, any limit of a page but 0, any bounds,
and any number of faults up to `MaxFaults`.

**The authorization server.**  `OAuthProofs`: `TypeCorrect`, `InductiveHolds`, and
from it `CredentialsHeldOnce`, `CredentialsStay`, `ChainsAreSingle`,
`AccessTokensAreSingle`, `CodesRedeemedOnce` and `ClientsServedAsSignedIn`; then
`RevocationsErase` (under `MaxFaults = 0`; the run `revocation_fault` shows that this
is needed), `GrantsStayGone`, an action property, `ServerDelegates`
(`Spec => Abstract!Spec`), and, for finitely many handlers, `ServerIsSound` and
`LoginsAreBounded`.

The argument: none of the safety properties is inductive.  That two grants never
share a credential depends on where the credential was before it had a grant: in
a code, or with a task that had deleted the code.  `Inductive` follows it:
`Custody` says that a credential, and the code minted with it, is in one of three
places (a code's row, a task that stores or redeems it, an opened grant) and in
that place once; `Openings` ties each grant, and each task that uses or revokes
one, to the history of opened grants; `Succession` says the same of the right to
issue tokens as `Custody` of credentials; `Fresh`, `Keys` and `References` are
what the random ids and the schema guarantee.  Each action moves at most one thing
from one place to the next, so each lemma of `OAuthProofs` shows the parts of the
invariant one by one for one action.

`LoginsBounded` counts, and so does its invariant `LoginsKnown`: as long as a
transaction's row is there, each login tried for it is counted in the row's
attempts, or is one that a handler has in flight (`Trying`), or was lost in a fault;
and each login from the last allowed one on belongs to a handler that is still under
way, having counted it perhaps (`Counting`).  When the row goes, the number of logins
stays.  A fault ends all the handlers of a process, so each adds the number of
handlers to the bound (`Lost`).

**The profiles.**  `ProfileProofs`: `ProfilesTypes`, `ProfilesAreSound` and
`DefaultStaysKnown`, for any number of commands.  That the file is sound depends on
what commands hold in memory, so `ProfilesInductive` says of every configuration on
its way into the file that its keys are distinct and its default is one of them;
lemmas on the sequence (`WithoutKey`, `WithKey`, `ReplacedKey`) show that each
function of `config.py` keeps it.

`SavedProfilesStay` is unconditional: any number of commands at once, killed
anywhere.  `SavesInductive` says that everything that was reported as saved, of
names that no save was overlapped on (`overlapped`), is in the file as long as it
can be read, and in whatever a command holds in memory, but for the name it is about
(`About`): a command that held something else when the save was reported has put the
name into `overlapped`, and one that reads the file later finds it there; a file
that a kill left empty lets no command past it (`Load`).

`OneCommandIsSound` and `EditsKeepProfiles` are under one command at a time
(`OneAtATime`), which may be killed anywhere.  `OneInductive` says that a renaming
edit has the old name in the file until it has saved the new one.

`CommandsKeepRegistry` and `FileIsReadableAtRest` are under one command at a time
and no kill (`Alone`).  Their invariant `AloneInductive` adds that the file is empty
only while a command writes, and that what is about to be written is what the
command made of the file as it still is.  Overlapping commands do not implement the
registry: they lose saves.

**The tools.**  `ToolProofs`: `CallsTypes`, `CallsAreKnown`, `CallersOwnCredentials`,
`FallbackStaysInUse`, `AnswersStayFresh` and `AnswersStayOwn`.  `CallsInductive`
says of each step of a call what it has passed (a check, by which profile) and what
it holds (a client, an answer and its age), and of each cache entry how much older
its data are than its stamp.  `CallersOwnCredentials` is of every tool but
`get_version` (the run `tools_version` shows why), whatever commands do and however
the server is started; `AnswersStayOwn` is without OAuth and without commands (`OwnInductive`: then a
name stands for one profile while the server runs).

**The clients.**  `ClientProofs`: `ClientsAreKnown`, `RequestsRepeatedOnlyIfDropped`,
`ArgumentsStayInPlace`, `FetchesStayBounded`, `SignInsAreProved` and
`RefusalsHaveCause`.  `ClientInductive` ties the stage of a task to what has been
performed, and whether a connection has dropped (`RequestKnown`), the attempts to the cache (`FetchesKnown`), the client
to the field its secret came from (`ClientKnown`) and, in a sign-in, the client to
the version of the server as long as nothing has failed (`SignInKnown`).
`ArgumentsStayInPlace` is a fact about every state of the right types: it rests on
`SignatureNames` (ids come first, no name comes twice) and on one lemma for each
source of names.

**Paging.**  `OdooProofs`: `PagesAreOrdered`, `PagesAreDisjoint`,
`PagesAreComplete` and `MoreIsTold`, for limits other than 0, though any request may
fail and an agent go by the envelope of an export that failed.  The proofs rest on
lemmas about the rank of a record among those that are there: a new record is
behind all of them, and a deletion makes no rank larger.  `Behind` says that what
has been told of ranks before `next_offset`, which both creation and deletion
keep; `Ahead` what `has_more` and the count of a running operation say of the
records that are still to come.

**The financial report.**  `OdooProofs`: `ReportsAreSound`, `ReportsAreRight` and
`ReportsAreComputedAgainForCause`, however Odoo is upgraded between the requests.
`ReportInductive` says that as long as a request is still to come no report has been
completed but those that a dropped connection of XML-RPC has left, and, before the
second method, none begun either; that the options are the ones of the report's
variant; and that the warning is the one for the version that was learned.

**The secret key.**  `HostProofs`: `KeysAreSafe`, `SecretsAreKept`, `KeysAgree` and
`KeyIsKept`, for a careful operator; without that assumption TLC finds the secrets
lost.  `SecretsSurvive` alone is not inductive: `KeyInductive` adds that the
file is empty while a process is about to write, that only one is, and that
whoever is up has the key in the file.

**The options of `serve`.**  `HostProofs`: `SettingsAreSound` and
`AdvertisedIsServed`, for any paths, hosts and schemes.

**The local service.**  `ServiceProofs`: `ServiceIsSound`, `PrintedTokensWork`,
`UninstallsStop` and `InstallsRun`.  That the printed token works when the command
reports is decided at the restart, after which the service may fail and be started
again: `TokenKnown` says from then on that the service, once it has
loaded a token, has the one to be printed, as long as that one is in the file.
`OwnToken` says that a token on its way into the file is in no other place, which
`TokensAreMany` (random tokens do not run out) lets every draw keep; `InstallKnown`
and `UninstallKnown` say how far systemd has followed.

**The skills.**  `SkillProofs`: `SkillsAreSound`, `SkillTypes`,
`RefreshedStaysCurrent`, `PluginsHaveNoDoubles` and `OthersSkillsSurvive`.  That a
refreshed place stays current while the next one is refreshed depends on their
being different directories: `PlacesAreApart` says so of the targets that are left,
`DoneIsCurrent` of the place at hand that whatever is no longer to be done is
current, and `CommandIsSound` which items a command may touch.

`UpgradesAreKnown` and `UpgradesForgetNothing` say that an upgrade forgets no copy,
as long as nothing has failed.  The copies of one place are recognised by some of
them, so one that is no longer recognised is forgotten by every later upgrade.
`UpgradesKnown` excludes it: each place that is not in the hands of a command
(`InHand`) is `Settled`, which is to say linked, or current and either recognised or
without copies; `ProgressKnown` says what the command at hand has already done
there, and `CopiesKnown` that copies are of versions that were installed and had the
skill. Two hypotheses are needed.  An upgrade that has taken the words of pip for
those of one that did nothing leaves every copy behind: `unnoticed`, which is part
of the property, and the run `upgrade_pip`.  A skill that is dropped from the
package and comes back turns a copy that was left behind into a stale one:
`NothingReturns`, which is assumed.

**The instances.**  `OdooIsSound` and `HostIsSound`: `OdooSound` and `HostSound`, under
the assumptions above (a limit other than 0; one profile command at a time and no kill,
a careful operator).  An instance moves one component, and implements the
specification of each: the theorems about the components carry over.

Every safety property that a passing run checks is so stated by a theorem.  Only
model-checked are the liveness properties, since fairness and ENABLED are out of the
prover's reach: `TaskEnds`, `RevocationCompletes`, `WorkEnds`, `StartsRecover`,
`AdviceHelps` and `CommandEnds`.  Proved without being named in a run: what
`ServerInductive`, `ServiceInductive`, `OdooSound` and `HostSound` contain or imply,
and `KeyIsKept`.

## 6. What is not modelled, and what was seen

Not modelled: see `PROJECT.json`, "components".  Within the modelled parts the
following is left out: the encryption of credentials and the modes of files, the
wire formats of OAuth and MCP, the HTML, the layout of answers and reports;
collisions of names with the separators of cache keys (`"_default"`, `":"`); what an
operation makes of its arguments and answers; the permission rules (a profile
permits an operation or not, which is a pure function of the profile and keeps no
state); imports, which are one request whose answer is handed on; `http grants` and
`http clients`, which only read; the parsers of arguments; the field `name` that
`rename_profile` leaves unchanged in the profile it moves is modelled, but nothing
reads it.

Seen while modelling, without a run: where the code differs from what is written,

* `load_or_create_key` tells the operator to delete a key file that was empty when
  it looked (`http/crypto.py`, 33).  Another process may have written the key since:
  with `Careful = FALSE` TLC finds secrets that nobody can read any more, though
  they "have to survive a restart" (`http/crypto.py`, 3-4).
* Two local servers that start for the first time together keep different tokens
  (`http/settings.py`, 171), of which the file has one (`docs/http-mode.md`, 29-30).
* `service install` takes whatever answers on the port for the service
  (`service.py`, 153; `CHANGELOG.md`, 59).
* `service uninstall` ignores a `systemctl disable --now` that fails, and reports a
  service as removed that runs on (`service.py`, 166; `cli.py`, 785).
* Positional arguments beyond the names of the table are dropped without an error
  (`client.py`, 722 and 694).
* With a limit of 0, which Odoo takes as none, `has_more` stays true at the same
  offset (`operations.py`, 572; `docs/index.md`, 22-23).
* A financial report in the format "compact", which is one of `VALID_FORMATS`, is an
  empty text and a success (`operations.py`, 1254 and 1404).
* A report whose name has a dot is looked for by XML id only (`operations.py`, 1263
  and 1395).
* For `--path /` and a `--public-url` without a path the advice is to append a slash,
  which is stripped again (`http/settings.py`, 119 and 128).  The slash at the end of
  any `--public-url` is: users who paste it as the operator gave it paste another URL
  than is advertised (`http/settings.py`, 5-7).
* The last probe of the version has no timeout and ignores `verify` (`version.py`,
  90): a sign-in may wait for it for ever, where "the user is better served by an
  error than by a hanging page" (`http/consent.py`, 37-39).
* The guard against DNS rebinding compares hosts as the operator spelled them
  (`http/app.py`, 72).

and what no document speaks of, or another property carries:

* The attempts of a consent form are counted after the login (`http/consent.py`,
  162): submissions in flight together exceed the limit.  `LoginsBounded` is the
  bound that the code keeps.
* A submission in flight when another one exhausts the attempts still mints a code
  (`http/consent.py`, 178): it goes on with the transaction that it read before.
* `edit-profile --new-name` on the default profile makes another profile the
  default, and on a taken name replaces the profile that has it (`cli.py`,
  459-463); `rename_profile`, which does neither, is called by no command.
* Two commands at once: one overwrites what the other has saved (`config.py`,
  335-348).
* A call that is checked while `profiles.json` is being written is not denied
  (`operations.py`, 145), and its client may find the profile afterwards.
* An install of skills without `--force` takes the rest of a copy that failed for
  an installed skill, skips it and reports success (`cli.py`, 1168).
* A copy that `plugins uninstall` has left, because the version then installed did
  not have the skill, is stale again if a later version has it, and no upgrade looks
  at it (`cli.py`, 1421 and 1528).  `NothingReturns` excludes it.
* When the copy of the skill by which copies are recognised has been lost, an
  upgrade does not refresh the other copies beside it (`cli.py`, 1528).
* While records are deleted, later pages pass over others (`operations.py`, 573),
  as offsets do.
* `service install --host ::1` prints a URL without brackets (`cli.py`, 769).
* A profile with an API key only is refused on a server older than Odoo 19,
  although that server would take the key as a password (`client.py`, 959-977).
* Over XML-RPC the transport posts a request again when the connection drops
  (`client.py`, 871-874): what is created then may be created twice.  No document
  says that it is not; `RepeatedOnlyIfDropped` is what remains.
* An `AttributeError` of Odoo while it computes a report reads like a missing method
  (`client.py`, 457-461), and the report is asked for again by the other one
  (`operations.py`, 1514).
* An export that fails has the `next_offset` of the next page (`operations.py`,
  801-809): an agent that goes by it passes over the page.

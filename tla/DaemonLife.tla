----------------------------- MODULE DaemonLife -----------------------------
(***************************************************************************)
(* The life of the daemon on a box, from its binary to its connection:     *)
(* self-update (internal/selfupdate, run by the unit before every start    *)
(* and by hand), the saved login (internal/credstore), the login from a    *)
(* token file (internal/client/tokenlogin.go, internal/login), the refresh *)
(* and reconnect loop of Run (internal/client/client.go, refresh.go), and  *)
(* the commands `login`, `logout` and `update` (main.go).                  *)
(*                                                                         *)
(* A login is named by the number of the enrolment that made it, a token   *)
(* by itself. What a connected daemon does is OperationStream's subject.   *)
(* The specification is LifeSpec, so that one module (Disk_proofs) can     *)
(* extend this one and SessionLedger, which has a Spec of its own.         *)
(***************************************************************************)
EXTENDS Naturals, FiniteSets

CONSTANTS
  Tokens,         \* enrolment tokens that come to lie in the token file
  Spent,          \* those that are expired or used from the start
  NoToken,        \* an empty or missing token file, no refusal remembered
  Commands,       \* processes of `login` or `logout`
  Unit,           \* the update the unit runs before each start
  Humans,         \* processes of `update` somebody typed
  Overlap,        \* whether one of those may run beside the unit's
  MaxEnrolments,  \* bound on the logins the platform grants
  MaxBoots,       \* bound on the boots of the box
  MaxCrashes      \* bound on the crashes of processes

ASSUME LifeAssumption ==
  /\ NoToken \notin Tokens /\ Spent \subseteq Tokens /\ Unit \notin Humans
  /\ Overlap \in BOOLEAN
  /\ MaxEnrolments \in Nat /\ MaxBoots \in Nat \ {0} /\ MaxCrashes \in Nat

VARIABLES
  tokens,       \* the platform: what each token is worth
  logins,       \* the platform: the logins it granted
  tokenFile,    \* the content of the enrolment token file
  credentials,  \* credentials.json; 0 is no file
  rejected,     \* rejected-enrolment-token: a boot and a token; boot 0 is no file
  box,          \* the boot, and the crashes so far
  daemon,       \* Run
  commands,     \* each `login` and `logout`
  updates,      \* each `update`, and the path its open file has
  binary        \* the installed binary and the partial one

lifeVars == <<tokens, logins, tokenFile, credentials, rejected, box, daemon, commands, updates, binary>>
platform == <<tokens, logins>>
saved == <<credentials, rejected>>
updating == <<updates, binary>>

-----------------------------------------------------------------------------
Numbers == 1..MaxEnrolments
Updates == Humans \cup {Unit}
Enrolling == {"look", "idle", "post", "save", "record", "retry"}
Serving == {"refresh", "up", "wait"}

LifeTypeOK ==
  /\ tokens \in [Tokens -> {"fresh", "used"}]
  /\ logins \in [Numbers -> {"none", "live", "revoked"}]
  /\ tokenFile \in Tokens \cup {NoToken}
  /\ credentials \in 0..MaxEnrolments
  /\ rejected \in [boot : 0..MaxBoots, token : Tokens \cup {NoToken}]
  /\ box \in [boot : 1..MaxBoots, crashes : 0..MaxCrashes]
  /\ daemon \in [pc : {"down", "pre", "load"} \cup Enrolling \cup Serving, login : 0..MaxEnrolments,
                 refused : Tokens \cup {NoToken}, token : Tokens \cup {NoToken}, failed : BOOLEAN]
  /\ commands \in [Commands -> [pc : {"out", "poll", "save", "revoke", "delete", "done"},
                                           login : 0..MaxEnrolments]]
  /\ updates \in [Updates -> [pc : {"out", "fetch", "open", "write", "rename", "restart", "done"},
                              file : {"none", "partial", "installed"}]]
  /\ binary \in [installed : {"whole", "torn"}, partial : {"none", "whole", "torn"}]

Down == [pc |-> "down", login |-> 0, refused |-> NoToken, token |-> NoToken, failed |-> FALSE]

LifeInit ==
  /\ tokens = [t \in Tokens |-> IF t \in Spent THEN "used" ELSE "fresh"] /\ logins = [n \in Numbers |-> "none"]
  /\ tokenFile \in Tokens \cup {NoToken} /\ credentials = 0
  /\ rejected = [boot |-> 0, token |-> NoToken]
  /\ box = [boot |-> 1, crashes |-> 0]
  /\ daemon = Down
  /\ commands = [m \in Commands |-> [pc |-> "out", login |-> 0]]
  /\ updates = [u \in Updates |-> [pc |-> "out", file |-> "none"]]
  /\ binary = [installed |-> "whole", partial |-> "none"]

-----------------------------------------------------------------------------
(***************************************************************************)
(* The platform                                                            *)
(***************************************************************************)
\* A fresh token, or a device code somebody approved, buys one login.
Grants(n) ==
  /\ \A k \in Numbers : logins[k] = "none" <=> k >= n
  /\ logins' = [logins EXCEPT ![n] = "live"]

PortalDeletes ==
  /\ \E n \in Numbers : logins[n] = "live" /\ logins' = [logins EXCEPT ![n] = "revoked"]
  /\ UNCHANGED <<tokens, tokenFile, saved, box, daemon, commands, updating>>

TokenFileChanges ==
  /\ \E t \in Tokens \cup {NoToken} : t # tokenFile /\ tokenFile' = t
  /\ UNCHANGED <<platform, saved, box, daemon, commands, updating>>

-----------------------------------------------------------------------------
(***************************************************************************)
(* Self-update                                                             *)
(***************************************************************************)
\* Other open files follow the one that is renamed or removed.
Follow(from, to) ==
  [u \in Updates |-> [updates[u] EXCEPT !.file = IF @ = from THEN to ELSE IF @ = to THEN "none" ELSE @]]

UpdateStarts(u) ==
  /\ updates[u].pc = "out"
  /\ IF u = Unit THEN daemon.pc = "pre" ELSE TRUE
  /\ Overlap \/ \A v \in Updates : updates[v].pc \in {"out", "done", "restart"}
  /\ updates' = [updates EXCEPT ![u].pc = "fetch"]
  /\ UNCHANGED <<platform, tokenFile, saved, box, daemon, commands, binary>>

\* The pointer names another version: what a killed update left is removed.
Differs(u) ==
  /\ updates[u].pc = "fetch"
  /\ updates' = [Follow("partial", "none") EXCEPT ![u].pc = "open"]
  /\ binary' = [binary EXCEPT !.partial = "none"]
  /\ UNCHANGED <<platform, tokenFile, saved, box, daemon, commands>>

\* Up to date, auto_update off, or a failure before anything is written: the
\* pointer, the download, the signature, the checksum.
EndsEarly(u) ==
  /\ updates[u].pc \in {"fetch", "open"}
  /\ updates' = [updates EXCEPT ![u].pc = "done"]
  /\ UNCHANGED <<platform, tokenFile, saved, box, daemon, commands, binary>>

\* os.WriteFile opens and truncates, then writes.
MutantOpens(u) ==
  /\ updates[u].pc = "open"
  /\ updates' = [updates EXCEPT ![u] = [pc |-> "write", file |-> "installed"]]
  /\ binary' = [installed |-> "torn", partial |-> "whole"]
  /\ UNCHANGED <<platform, tokenFile, saved, box, daemon, commands>>

Opens(u) ==
  /\ updates[u].pc = "open"
  /\ updates' = [updates EXCEPT ![u] = [pc |-> "write", file |-> "partial"]]
  /\ binary' = [binary EXCEPT !.partial = "torn"]
  /\ UNCHANGED <<platform, tokenFile, saved, box, daemon, commands>>

Writes(u) ==
  /\ updates[u].pc = "write"
  /\ updates' = [updates EXCEPT ![u] = [pc |-> "rename", file |-> "none"]]
  /\ binary' = CASE updates[u].file = "partial" -> [binary EXCEPT !.partial = "whole"]
                 [] updates[u].file = "installed" -> [binary EXCEPT !.installed = "whole"]
                 [] OTHER -> binary
  /\ UNCHANGED <<platform, tokenFile, saved, box, daemon, commands>>

\* The disk is full, or the partial file is gone when it is renamed.
WriteFails(u) ==
  /\ updates[u].pc = "write" \/ (updates[u].pc = "rename" /\ binary.partial = "none")
  /\ updates' = [Follow("partial", "none") EXCEPT ![u] = [pc |-> "done", file |-> "none"]]
  /\ binary' = [binary EXCEPT !.partial = "none"]
  /\ UNCHANGED <<platform, tokenFile, saved, box, daemon, commands>>

RenamesBinary(u) ==
  /\ updates[u].pc = "rename" /\ binary.partial # "none"
  /\ updates' = [Follow("partial", "installed") EXCEPT ![u].pc = IF u = Unit THEN "done" ELSE "restart"]
  /\ binary' = [installed |-> binary.partial, partial |-> "none"]
  /\ UNCHANGED <<platform, tokenFile, saved, box, daemon, commands>>

\* An active unit is restarted, unless --no-restart or it is not active.
Restarts(u) ==
  /\ updates[u].pc = "restart"
  /\ updates' = [updates EXCEPT ![u].pc = "done"]
  /\ daemon' \in {daemon, IF daemon.pc = "pre" THEN daemon ELSE Down}
  /\ UNCHANGED <<platform, tokenFile, saved, box, commands, binary>>

-----------------------------------------------------------------------------
(***************************************************************************)
(* Run                                                                     *)
(***************************************************************************)
Daemon(next) ==
  /\ daemon' = next
  /\ UNCHANGED <<box, commands, updating>>
Goes(pc) == Daemon([daemon EXCEPT !.pc = pc])

\* Restart=always: the unit starts again whatever ended it.
UnitStarts ==
  /\ daemon.pc = "down"
  /\ daemon' = [Down EXCEPT !.pc = "pre"]
  /\ updates' = [updates EXCEPT ![Unit] = [pc |-> "out", file |-> "none"]]
  /\ UNCHANGED <<platform, tokenFile, saved, box, commands, binary>>

ExecStart ==
  /\ daemon.pc = "pre" /\ updates[Unit].pc = "done"
  /\ Goes("load")
  /\ UNCHANGED <<platform, tokenFile, saved>>

\* The record of another boot is ignored and removed.
MutantEnrols ==
  /\ Daemon([daemon EXCEPT !.pc = "look", !.login = 0, !.refused = NoToken])
  /\ rejected' = rejected

Enrols ==
  /\ Daemon([daemon EXCEPT !.pc = "look", !.login = 0,
               !.refused = IF rejected.boot = box.boot THEN rejected.token ELSE NoToken])
  /\ rejected' = IF rejected.boot = box.boot THEN rejected ELSE [boot |-> 0, token |-> NoToken]

Loads ==
  /\ daemon.pc = "load"
  /\ \/ /\ credentials # 0
        /\ Daemon([daemon EXCEPT !.pc = "refresh", !.login = credentials])
        /\ UNCHANGED rejected
     \/ credentials = 0 /\ tokenFile = NoToken /\ Daemon(Down) /\ UNCHANGED rejected
     \/ credentials = 0 /\ tokenFile # NoToken /\ Enrols
  /\ UNCHANGED <<platform, tokenFile, credentials>>

\* The file is looked at once a minute.
MutantPresents ==
  /\ daemon.pc \in {"look", "idle", "retry"}
  /\ IF tokenFile = NoToken \/ daemon.refused # NoToken
     THEN Goes("idle")
     ELSE Daemon([daemon EXCEPT !.pc = "post", !.token = tokenFile])
  /\ UNCHANGED <<platform, tokenFile, saved>>

Presents ==
  /\ daemon.pc \in {"look", "idle", "retry"}
  /\ IF tokenFile \in {NoToken, daemon.refused}
     THEN Goes("idle")
     ELSE Daemon([daemon EXCEPT !.pc = "post", !.token = tokenFile])
  /\ UNCHANGED <<platform, tokenFile, saved>>

\* RunWithToken: the platform may take the token and its answer get lost.
Accepted ==
  /\ daemon.pc = "post" /\ tokens[daemon.token] = "fresh"
  /\ tokens' = [tokens EXCEPT ![daemon.token] = "used"]
  /\ \E n \in Numbers :
       /\ Grants(n)
       /\ \/ Daemon([daemon EXCEPT !.pc = "save", !.login = n, !.token = NoToken])
          \/ Daemon([daemon EXCEPT !.pc = "retry", !.token = NoToken])
  /\ UNCHANGED <<tokenFile, saved>>

Refused ==
  /\ daemon.pc = "post" /\ tokens[daemon.token] = "used"
  /\ Goes("record")
  /\ UNCHANGED <<platform, tokenFile, saved>>

\* No network, an ingress without a platform behind it, too many requests.
NoAnswer ==
  /\ daemon.pc = "post"
  /\ Daemon([daemon EXCEPT !.pc = "retry", !.token = NoToken])
  /\ UNCHANGED <<platform, tokenFile, saved>>

\* A record that cannot be written is kept in memory only.
RecordsRefusal ==
  /\ daemon.pc = "record"
  /\ Daemon([daemon EXCEPT !.pc = "look", !.refused = daemon.token, !.token = NoToken])
  /\ rejected' \in {rejected, [boot |-> box.boot, token |-> daemon.token]}
  /\ UNCHANGED <<platform, tokenFile, credentials>>

Saves ==
  /\ daemon.pc = "save"
  /\ credentials' = daemon.login
  /\ Daemon([daemon EXCEPT !.pc = "refresh", !.refused = NoToken])
  /\ UNCHANGED <<platform, tokenFile, rejected>>

MutantSaveFails ==
  /\ daemon.pc = "save"
  /\ Daemon([daemon EXCEPT !.pc = "refresh", !.refused = NoToken])
  /\ UNCHANGED <<platform, tokenFile, saved>>

SaveFails ==
  /\ daemon.pc = "save"
  /\ Daemon([Down EXCEPT !.failed = TRUE])
  /\ UNCHANGED <<platform, tokenFile, saved>>

\* connectOnce: an access token, the dial, the stream; then serve.
Connects ==
  /\ daemon.pc = "refresh" /\ logins[daemon.login] = "live"
  /\ Goes("up")
  /\ UNCHANGED <<platform, tokenFile, saved>>

\* The saved login is refused: the token file may replace it. Without one the
\* refusal is terminal, as an --insecure target that is not local always is.
LoginRejected ==
  /\ daemon.pc = "refresh" /\ logins[daemon.login] = "revoked"
  /\ IF tokenFile # NoToken THEN Enrols ELSE Daemon(Down) /\ UNCHANGED rejected
  /\ UNCHANGED <<platform, tokenFile, credentials>>

\* Another failure: the loop backs off, and goes on as long as it takes.
ConnectFails ==
  /\ daemon.pc = "refresh"
  /\ Goes("wait")
  /\ UNCHANGED <<platform, tokenFile, saved>>

\* The stream ends, by a Shutdown message without an error.
Reconnects ==
  /\ \/ daemon.pc = "up" /\ \E pc \in {"refresh", "wait"} : Goes(pc)
     \/ daemon.pc = "wait" /\ Goes("refresh")
  /\ UNCHANGED <<platform, tokenFile, saved>>

\* SIGTERM ends every sleep and the stream, and the request that is out when
\* its answer comes.
Stops ==
  /\ daemon.pc \in {"idle", "retry", "up", "wait"}
  /\ Daemon(Down)
  /\ UNCHANGED <<platform, tokenFile, saved>>

DaemonCrashes ==
  /\ daemon.pc \notin {"down", "pre"} /\ box.crashes < MaxCrashes
  /\ daemon' = Down
  /\ box' = [box EXCEPT !.crashes = @ + 1]
  /\ UNCHANGED <<platform, tokenFile, saved, commands, updating>>

-----------------------------------------------------------------------------
(***************************************************************************)
(* login and logout                                                        *)
(***************************************************************************)
Command(m, next) ==
  /\ commands' = [commands EXCEPT ![m] = next]
  /\ UNCHANGED <<tokens, tokenFile, rejected, box, daemon, updating>>
Ended == [pc |-> "done", login |-> 0]

\* A device code is issued and polled for until somebody approves it; the
\* token it brings is redeemed at once.
LoginStarts(m) ==
  /\ commands[m].pc = "out"
  /\ Command(m, [commands[m] EXCEPT !.pc = "poll"])
  /\ UNCHANGED <<logins, credentials>>

LoginGranted(m) ==
  /\ commands[m].pc = "poll"
  /\ \E n \in Numbers : Grants(n) /\ Command(m, [pc |-> "save", login |-> n])
  /\ UNCHANGED credentials

\* Denied, expired, no network; or the answer that granted it was lost.
LoginFails(m) ==
  /\ commands[m].pc = "poll"
  /\ UNCHANGED logins \/ \E n \in Numbers : Grants(n)
  /\ Command(m, Ended)
  /\ UNCHANGED credentials

LoginSaves(m) ==
  /\ commands[m].pc = "save"
  /\ credentials' \in {credentials, commands[m].login}
  /\ Command(m, Ended)
  /\ UNCHANGED logins

LogoutStarts(m) ==
  /\ commands[m].pc = "out"
  /\ Command(m, IF credentials = 0 THEN Ended ELSE [pc |-> "revoke", login |-> credentials])
  /\ UNCHANGED <<logins, credentials>>

\* Not being able to reach the platform does not keep the login on the box.
Revokes(m) ==
  /\ commands[m].pc = "revoke"
  /\ logins' \in {logins, [logins EXCEPT ![commands[m].login] = "revoked"]}
  /\ Command(m, [commands[m] EXCEPT !.pc = "delete"])
  /\ UNCHANGED credentials

Deletes(m) ==
  /\ commands[m].pc = "delete"
  /\ credentials' = 0
  /\ Command(m, Ended)
  /\ UNCHANGED logins

\* A command or an update is killed where it stands.
CommandDies ==
  /\ box.crashes < MaxCrashes
  /\ box' = [box EXCEPT !.crashes = @ + 1]
  /\ \/ \E m \in Commands :
          /\ commands[m].pc \notin {"out", "done"}
          /\ commands' = [commands EXCEPT ![m] = Ended]
          /\ UNCHANGED updates
     \/ \E u \in Updates :
          /\ updates[u].pc \notin {"out", "done"}
          /\ updates' = [updates EXCEPT ![u] = [pc |-> "done", file |-> "none"]]
          /\ UNCHANGED commands
  /\ UNCHANGED <<platform, tokenFile, saved, daemon, binary>>

\* What runs ends; the files stay, a half-written partial binary included.
Reboots ==
  /\ box.boot < MaxBoots
  /\ box' = [box EXCEPT !.boot = @ + 1]
  /\ daemon' = Down
  /\ commands' = [m \in Commands |-> IF commands[m].pc = "out" THEN commands[m] ELSE Ended]
  /\ updates' = [u \in Updates |-> IF updates[u].pc = "out" THEN updates[u] ELSE [pc |-> "done", file |-> "none"]]
  /\ UNCHANGED <<platform, tokenFile, saved, binary>>

-----------------------------------------------------------------------------
Update(u) ==
  \/ UpdateStarts(u) \/ Differs(u) \/ EndsEarly(u) \/ Opens(u) \/ Writes(u) \/ WriteFails(u)
  \/ RenamesBinary(u) \/ Restarts(u)

Run ==
  \/ UnitStarts \/ ExecStart \/ Loads \/ Presents \/ Accepted \/ Refused \/ NoAnswer \/ RecordsRefusal
  \/ Saves \/ SaveFails \/ Connects \/ LoginRejected \/ ConnectFails \/ Reconnects

LifeNext ==
  \/ \E u \in Updates : Update(u)
  \/ Run \/ Stops \/ DaemonCrashes
  \/ \E m \in Commands :
       \/ LoginStarts(m) \/ LoginGranted(m) \/ LoginFails(m) \/ LoginSaves(m)
       \/ LogoutStarts(m) \/ Revokes(m) \/ Deletes(m)
  \/ CommandDies \/ Reboots \/ PortalDeletes \/ TokenFileChanges

LifeSpec == LifeInit /\ [][LifeNext]_lifeVars

\* The daemon's loop and the unit go on; a platform that is asked again and
\* again answers now and then.
LifeFairSpec == LifeSpec /\ WF_lifeVars(Run) /\ WF_lifeVars(Update(Unit)) /\ SF_lifeVars(Accepted)

-----------------------------------------------------------------------------
(***************************************************************************)
(* Properties                                                              *)
(***************************************************************************)
\* A token whose refusal was recorded in this boot is not presented again, by
\* this daemon or by one that starts later, until another one is refused.
NotPresentedAgain ==
  [][daemon.pc # "post" /\ daemon'.pc = "post" /\ daemon.refused \in {NoToken, rejected.token}
       => rejected # [boot |-> box.boot, token |-> daemon'.token]]_lifeVars

\* A daemon that connects does so with the login on disk, so that a restart
\* finds it, as long as no command has changed the file.
ConnectsAsSaved ==
  daemon.pc \in Serving /\ (\A m \in Commands : commands[m].pc = "out") => daemon.login = credentials

\* Whenever an update is killed, the unit finds a whole binary to start.
InstalledIsWhole == binary.installed = "whole"

\* A daemon that waits for a login beside a token the platform would take gets
\* one, whatever other token was refused before; or the file changes.
FreshTokenEnrols ==
  \A t \in Tokens :
    daemon.pc \in Enrolling /\ tokenFile = t /\ tokens[t] = "fresh"
      ~> tokenFile # t \/ tokens[t] = "used" \/ daemon.pc \notin Enrolling

\* The login from a token file ends with a login that is saved, or because the
\* daemon is to stop, and for no other reason.
EnrolsUntilStopped == ~daemon.failed
=============================================================================

----------------------------- MODULE ManagedCLI -----------------------------
(***************************************************************************)
(* The pinned build of one CLI on a box: the pin list and its refresh      *)
(* (internal/managedcli/refresh.go, manifest.go, pinkey.go), the install   *)
(* of a build (install.go), the commands `register` and `unregister`       *)
(* (main.go, internal/cliauth) and the one app-server that rounds of the   *)
(* daemon start from it (internal/codexrpc/appserver.go).                  *)
(*                                                                         *)
(* The daemon and each command are processes: they share the files and     *)
(* nothing else, so the lock of Ensure and the list in force are each      *)
(* process's own. A pin list is named by its serial, and pins the version  *)
(* of that number; list 1 is compiled into the binary.                     *)
(***************************************************************************)
EXTENDS Naturals, FiniteSets

CONSTANTS
  Rounds,      \* goroutines of the daemon that need an app-server
  Commands,    \* processes of `register` or `unregister` for this CLI
  Daemon,      \* the daemon's process
  Nobody,      \* no holder of a lock
  Lists,       \* the serial of the last pin list published
  MaxServers,  \* bound on the app-servers started
  MaxCrashes   \* bound on the crashes of the daemon and of commands

ASSUME ManagedAssumption ==
  /\ Lists \in Nat \ {0} /\ MaxServers \in Nat \ {0} /\ MaxCrashes \in Nat
  /\ Rounds \cap Commands = {} /\ {Daemon, Nobody} \cap (Rounds \cup Commands) = {} /\ Daemon # Nobody

VARIABLES
  published,  \* the list and the signature on the update server
  saved,      \* pins.json and pins.json.sig; 0 is no file
  pins,       \* Refresher.current of each process, with the signature it came with
  daemon,     \* the daemon: its phase, its refresh with the list and the signature
              \* it has fetched, its locks, the crashes so far
  bins,       \* cli/bin: each version's binary
  staging,    \* the staging folder of each install under way
  jobs,       \* what each round and each command is doing
  login,      \* there is a login of the daemon's own for the CLI
  servers,    \* every app-server started
  running     \* codexrpc.Driver.running

vars == <<published, saved, pins, daemon, bins, staging, jobs, login, servers, running>>
files == <<bins, staging, login>>
lists == <<published, saved, pins>>
processes == <<servers, running>>

-----------------------------------------------------------------------------
Serials == 1..Lists
Installers == Rounds \cup Commands
ServerIds == 1..MaxServers
Embedded == [body |-> 1, sig |-> 1]

TypeOK ==
  /\ published \in [body : Serials, sig : Serials]
  /\ saved \in [body : 0..Lists, sig : 0..Lists]
  /\ pins \in [Commands \cup {Daemon} -> [body : Serials, sig : Serials]]
  /\ daemon \in [phase : {"down", "prune", "run"}, refresh : {"idle", "sig", "save", "savesig", "ended"},
                 body : 0..Lists, sig : 0..Lists, install : Rounds \cup {Nobody},
                 start : Rounds \cup {Nobody}, doomed : [versions : SUBSET Serials, folders : SUBSET Commands],
                 crashes : 0..MaxCrashes]
  /\ bins \in [Serials -> {"none", "bad", "good"}]
  /\ staging \in [Installers -> {"none", "empty", "bad", "good", "gone"}]
  /\ jobs \in [Installers -> [pc : {"out", "manifest", "lock", "download", "check", "rename", "got", "start", "has",
                                    "remove", "done"},
                              version : 0..Lists, again : BOOLEAN, doomed : SUBSET Serials]]
  /\ login \in BOOLEAN
  /\ servers \in [ServerIds -> [fate : {"none", "up", "dead"}, build : {"none", "bad", "good"}]]
  /\ running \in 0..MaxServers

Idle == [pc |-> "out", version |-> 0, again |-> FALSE, doomed |-> {}]
NothingDoomed == [versions |-> {}, folders |-> {}]

Init ==
  /\ published = Embedded /\ saved = [body |-> 0, sig |-> 0]
  /\ pins = [p \in Commands \cup {Daemon} |-> Embedded]
  /\ daemon = [phase |-> "down", refresh |-> "idle", body |-> 0, sig |-> 0, install |-> Nobody,
               start |-> Nobody, doomed |-> NothingDoomed, crashes |-> 0]
  /\ bins = [v \in Serials |-> "none"] /\ staging = [i \in Installers |-> "none"]
  /\ jobs = [i \in Installers |-> Idle]
  /\ login = FALSE
  /\ servers = [s \in ServerIds |-> [fate |-> "none", build |-> "none"]] /\ running = 0

-----------------------------------------------------------------------------
(***************************************************************************)
(* The pin list                                                            *)
(***************************************************************************)
\* The release pipeline replaces the list, then its signature.
PublishesList ==
  /\ published.body = published.sig /\ published.body < Lists
  /\ published' = [published EXCEPT !.body = @ + 1]
  /\ UNCHANGED <<saved, pins, daemon, jobs, files, processes>>

PublishesSignature ==
  /\ published.sig < published.body
  /\ published' = [published EXCEPT !.sig = published.body]
  /\ UNCHANGED <<saved, pins, daemon, jobs, files, processes>>

\* The release key signed exactly these bytes.
Verify(body, sig) == body = sig

\* NewRefresher: the embedded list, or the saved one when it verifies and is newer.
Loaded ==
  IF Verify(saved.body, saved.sig) /\ saved.body > Embedded.body
  THEN saved ELSE Embedded

Refreshing(step) == daemon.phase = "run" /\ daemon.refresh = step

\* At start, every six hours and when nudged.
FetchesList ==
  /\ Refreshing("idle")
  /\ daemon' = [daemon EXCEPT !.refresh = "sig", !.body = published.body]
  /\ UNCHANGED <<lists, jobs, files, processes>>

FetchFails ==
  /\ Refreshing("sig")
  /\ daemon' = [daemon EXCEPT !.refresh = "idle", !.body = 0]
  /\ UNCHANGED <<lists, jobs, files, processes>>

\* What was fetched is taken when it verifies and is newer; anything else is
\* left for the next refresh.
MutantAccepted(body, sig) == body > pins[Daemon].body

Accepted(body, sig) == Verify(body, sig) /\ body > pins[Daemon].body

MutantFetchesSignature ==
  /\ Refreshing("sig")
  /\ daemon' = IF ~Verify(daemon.body, published.sig) THEN [daemon EXCEPT !.refresh = "ended", !.body = 0]
               ELSE IF daemon.body <= pins[Daemon].body THEN [daemon EXCEPT !.refresh = "idle", !.body = 0]
               ELSE [daemon EXCEPT !.refresh = "save", !.sig = published.sig]
  /\ UNCHANGED <<lists, jobs, files, processes>>

FetchesSignature ==
  /\ Refreshing("sig")
  /\ daemon' = IF Accepted(daemon.body, published.sig)
               THEN [daemon EXCEPT !.refresh = "save", !.sig = published.sig]
               ELSE [daemon EXCEPT !.refresh = "idle", !.body = 0]
  /\ UNCHANGED <<lists, jobs, files, processes>>

\* The list is in force whether or not it could be saved; until then its mutex
\* is held, and Current waits.
InForce ==
  /\ pins' = [pins EXCEPT ![Daemon] = [body |-> daemon.body, sig |-> daemon.sig]]
  /\ daemon' = [daemon EXCEPT !.refresh = "idle", !.body = 0, !.sig = 0]

SavesList ==
  /\ Refreshing("save")
  /\ saved' = [saved EXCEPT !.body = daemon.body]
  /\ daemon' = [daemon EXCEPT !.refresh = "savesig"]
  /\ UNCHANGED <<published, pins, jobs, files, processes>>

SavesSignature ==
  /\ Refreshing("savesig")
  /\ saved' = [saved EXCEPT !.sig = daemon.sig]
  /\ InForce
  /\ UNCHANGED <<published, jobs, files, processes>>

SaveFails ==
  /\ Refreshing("save") \/ Refreshing("savesig")
  /\ InForce
  /\ UNCHANGED <<published, saved, jobs, files, processes>>

-----------------------------------------------------------------------------
(***************************************************************************)
(* The daemon's process                                                    *)
(***************************************************************************)
\* New loads the list; Run lists cli/bin: every version that is not pinned and
\* every staging folder, those of a command at work included, goes.
DaemonStarts ==
  /\ daemon.phase = "down"
  /\ pins' = [pins EXCEPT ![Daemon] = Loaded]
  /\ daemon' = [daemon EXCEPT !.phase = "prune",
                  !.doomed = [versions |-> {v \in Serials : bins[v] # "none" /\ v # Loaded.body},
                              folders |-> {m \in Commands : staging[m] \in {"empty", "bad", "good"}}]]
  /\ UNCHANGED <<published, saved, jobs, files, processes>>

PruneOldVersions ==
  /\ daemon.phase = "prune"
  /\ \/ \E v \in daemon.doomed.versions :
          /\ bins' = [bins EXCEPT ![v] = "none"]
          /\ daemon' = [daemon EXCEPT !.doomed.versions = @ \ {v}]
          /\ UNCHANGED staging
     \/ \E m \in daemon.doomed.folders :
          /\ staging' = [staging EXCEPT ![m] = IF @ = "none" THEN @ ELSE "gone"]
          /\ daemon' = [daemon EXCEPT !.doomed.folders = @ \ {m}]
          /\ UNCHANGED bins
     \/ /\ daemon.doomed = NothingDoomed
        /\ daemon' = [daemon EXCEPT !.phase = "run"]
        /\ UNCHANGED <<bins, staging>>
  /\ UNCHANGED <<lists, jobs, login, processes>>

\* What dies with the daemon: its rounds, its refresh and, by Pdeathsig, its
\* app-server. The staging folders of its installs are litter nobody reads.
Ended(crashes) ==
  /\ daemon' = [daemon EXCEPT !.phase = "down", !.refresh = "idle", !.body = 0, !.sig = 0,
                  !.install = Nobody, !.start = Nobody, !.doomed = NothingDoomed, !.crashes = crashes]
  /\ jobs' = [i \in Installers |-> IF i \in Rounds THEN Idle ELSE jobs[i]]
  /\ staging' = [i \in Installers |-> IF i \in Rounds THEN "none" ELSE staging[i]]
  /\ servers' = [s \in ServerIds |-> [servers[s] EXCEPT !.fate = IF @ = "none" THEN @ ELSE "dead"]]
  /\ running' = 0

DaemonCrashes ==
  /\ daemon.phase # "down" /\ daemon.crashes < MaxCrashes
  /\ Ended(daemon.crashes + 1)
  /\ UNCHANGED <<lists, bins, login>>

\* Run returns: Driver.Shutdown stops the app-server, and one that a late
\* round starts meanwhile ends with the process, which is part of this step.
Shutdown ==
  /\ daemon.phase = "run" /\ daemon.start = Nobody
  /\ Ended(daemon.crashes)
  /\ UNCHANGED <<lists, bins, login>>

-----------------------------------------------------------------------------
(***************************************************************************)
(* Ensure, by a round or by a command                                      *)
(***************************************************************************)
At(i, pc) == jobs[i].pc = pc /\ (i \in Rounds => daemon.phase = "run")
Goes(i, pc) == jobs' = [jobs EXCEPT ![i].pc = pc]

\* installLocks: one mutex per name in each process.
LockFree(i) == i \in Commands \/ daemon.install = Nobody
Locks(i) == daemon' = IF i \in Rounds THEN [daemon EXCEPT !.install = i] ELSE daemon
Unlocks(i) == daemon' = IF i \in Rounds THEN [daemon EXCEPT !.install = Nobody] ELSE daemon

\* The list in force is read before the lock is taken.
ReadsManifest(i) ==
  /\ At(i, "manifest")
  /\ i \in Rounds => daemon.refresh \notin {"save", "savesig"}
  /\ jobs' = [jobs EXCEPT ![i].pc = "lock",
                ![i].version = IF i \in Rounds THEN pins[Daemon].body ELSE pins[i].body]
  /\ UNCHANGED <<lists, daemon, files, processes>>

Installed(i) ==
  /\ At(i, "lock") /\ LockFree(i) /\ bins[jobs[i].version] # "none"
  /\ Goes(i, "got")
  /\ UNCHANGED <<lists, daemon, files, processes>>

MakesFolder(i) ==
  /\ At(i, "lock") /\ LockFree(i) /\ bins[jobs[i].version] = "none"
  /\ Locks(i)
  /\ staging' = [staging EXCEPT ![i] = "empty"]
  /\ Goes(i, "download")
  /\ UNCHANGED <<lists, bins, login, processes>>

Downloads(i) ==
  /\ At(i, "download") /\ staging[i] = "empty"
  /\ \E content \in {"bad", "good"} : staging' = [staging EXCEPT ![i] = content]
  /\ Goes(i, "check")
  /\ UNCHANGED <<lists, daemon, bins, login, processes>>

\* The checksum is compared before the archive is opened; what there is of the
\* version then makes room for the download.
MutantClearsVersion(i) ==
  /\ At(i, "check") /\ staging[i] \in {"bad", "good"}
  /\ bins' = [bins EXCEPT ![jobs[i].version] = "none"]
  /\ Goes(i, "rename")
  /\ UNCHANGED <<lists, daemon, staging, login, processes>>

ClearsVersion(i) ==
  /\ At(i, "check") /\ staging[i] = "good"
  /\ bins' = [bins EXCEPT ![jobs[i].version] = "none"]
  /\ Goes(i, "rename")
  /\ UNCHANGED <<lists, daemon, staging, login, processes>>

\* A folder cannot be renamed onto one that is not empty.
Renames(i) ==
  /\ At(i, "rename") /\ bins[jobs[i].version] = "none" /\ staging[i] # "gone"
  /\ bins' = [bins EXCEPT ![jobs[i].version] = staging[i]]
  /\ staging' = [staging EXCEPT ![i] = "none"]
  /\ Unlocks(i)
  /\ Goes(i, "got")
  /\ UNCHANGED <<lists, login, processes>>

\* A round may look again; a command that has ended is over.
Over == [Idle EXCEPT !.pc = "done"]
Leaves(i) == jobs' = [jobs EXCEPT ![i] = IF i \in Rounds THEN Idle ELSE Over]

\* The download, its checksum, the archive or the rename: the folder goes.
InstallFails(i) ==
  /\ \/ At(i, "download")
     \/ At(i, "check")
     \/ At(i, "rename") /\ (bins[jobs[i].version] # "none" \/ staging[i] = "gone")
  /\ staging' = [staging EXCEPT ![i] = "none"]
  /\ Unlocks(i)
  /\ Leaves(i)
  /\ UNCHANGED <<lists, bins, login, processes>>

-----------------------------------------------------------------------------
(***************************************************************************)
(* serverFor                                                               *)
(***************************************************************************)
Alive == running # 0 /\ servers[running].fate = "up"
Has(r) == jobs' = [jobs EXCEPT ![r] = [Idle EXCEPT !.pc = "has"]]

LiveServer(r) ==
  /\ At(r, "out") /\ daemon.start = Nobody
  /\ Goes(r, IF Alive THEN "has" ELSE "manifest")
  /\ UNCHANGED <<lists, daemon, files, processes>>

MutantLooksAgain(r) ==
  /\ At(r, "got") /\ daemon.start = Nobody
  /\ daemon' = [daemon EXCEPT !.start = r]
  /\ Goes(r, "start")
  /\ UNCHANGED <<lists, files, processes>>

\* Another round may have started it while this one installed the build.
LooksAgain(r) ==
  /\ At(r, "got") /\ daemon.start = Nobody
  /\ \/ Alive /\ Has(r) /\ UNCHANGED daemon
     \/ ~Alive /\ Goes(r, "start") /\ daemon' = [daemon EXCEPT !.start = r]
  /\ UNCHANGED <<lists, files, processes>>

StartServer(r) ==
  /\ At(r, "start") /\ bins[jobs[r].version] # "none"
  /\ \E s \in ServerIds :
       /\ \A t \in ServerIds : servers[t].fate = "none" <=> t >= s
       /\ servers' = [servers EXCEPT ![s] = [fate |-> "up", build |-> bins[jobs[r].version]]]
       /\ running' = s
  /\ daemon' = [daemon EXCEPT !.start = Nobody]
  /\ Has(r)
  /\ UNCHANGED <<lists, files>>

\* The build is not there any more, or does not answer initialize.
StartFails(r) ==
  /\ At(r, "start")
  /\ daemon' = [daemon EXCEPT !.start = Nobody]
  /\ Leaves(r)
  /\ UNCHANGED <<lists, files, processes>>

RoundEnds(r) ==
  /\ At(r, "has")
  /\ Leaves(r)
  /\ UNCHANGED <<lists, daemon, files, processes>>

\* The end of its output and the exit of its process, which alive() looks at
\* both, are one step.
ServerExits(s) ==
  /\ servers[s].fate = "up"
  /\ servers' = [servers EXCEPT ![s].fate = "dead"]
  /\ UNCHANGED <<lists, daemon, jobs, files, running>>

-----------------------------------------------------------------------------
(***************************************************************************)
(* register and unregister                                                 *)
(***************************************************************************)
RegisterStarts(m) ==
  /\ At(m, "out")
  /\ pins' = [pins EXCEPT ![m] = Loaded]
  /\ Goes(m, "manifest")
  /\ UNCHANGED <<published, saved, daemon, files, processes>>

\* After the first install the CLI is signed in when there is no login; Detect
\* then reads the saved list anew, and installs and probes what that one pins.
SignsIn(m) ==
  /\ At(m, "got") /\ ~jobs[m].again
  /\ \/ login' = TRUE /\ jobs' = [jobs EXCEPT ![m].pc = "manifest", ![m].again = TRUE]
          /\ pins' = [pins EXCEPT ![m] = Loaded]
     \/ ~login /\ Leaves(m) /\ UNCHANGED <<login, pins>>
  /\ UNCHANGED <<published, saved, daemon, bins, staging, processes>>

\* The probe, the model list and the platform's answer; each may fail.
Registers(m) ==
  /\ At(m, "got") /\ jobs[m].again
  /\ Leaves(m)
  /\ UNCHANGED <<lists, daemon, files, processes>>

UnregisterStarts(m) ==
  /\ At(m, "out")
  /\ login' = FALSE
  /\ jobs' = [jobs EXCEPT ![m].pc = "remove", ![m].doomed = {v \in Serials : bins[v] # "none"}]
  /\ UNCHANGED <<lists, daemon, bins, staging, processes>>

RemoveInstalled(m) ==
  /\ At(m, "remove")
  /\ \/ \E v \in jobs[m].doomed :
          /\ bins' = [bins EXCEPT ![v] = "none"]
          /\ jobs' = [jobs EXCEPT ![m].doomed = @ \ {v}]
     \/ jobs[m].doomed = {} /\ Leaves(m) /\ UNCHANGED bins
  /\ UNCHANGED <<lists, daemon, staging, login, processes>>

CommandDies(m) ==
  /\ jobs[m].pc \notin {"out", "done"} /\ daemon.crashes < MaxCrashes
  /\ daemon' = [daemon EXCEPT !.crashes = @ + 1]
  /\ staging' = [staging EXCEPT ![m] = "none"]
  /\ Leaves(m)
  /\ UNCHANGED <<lists, bins, login, processes>>

-----------------------------------------------------------------------------
Ensure(i) ==
  \/ ReadsManifest(i) \/ Installed(i) \/ MakesFolder(i) \/ Downloads(i)
  \/ ClearsVersion(i) \/ Renames(i) \/ InstallFails(i)

Refresh == FetchesList \/ FetchesSignature \/ SavesList \/ SavesSignature \/ SaveFails

Next ==
  \/ PublishesList \/ PublishesSignature
  \/ Refresh \/ FetchFails
  \/ DaemonStarts \/ PruneOldVersions \/ DaemonCrashes \/ Shutdown
  \/ \E i \in Installers : Ensure(i)
  \/ \E r \in Rounds : LiveServer(r) \/ LooksAgain(r) \/ StartServer(r) \/ StartFails(r) \/ RoundEnds(r)
  \/ \E s \in ServerIds : ServerExits(s)
  \/ \E m \in Commands :
       RegisterStarts(m) \/ SignsIn(m) \/ Registers(m) \/ UnregisterStarts(m) \/ RemoveInstalled(m) \/ CommandDies(m)

Spec == Init /\ [][Next]_vars

\* The loop of Run goes on, and a fetch that keeps being tried succeeds now and then.
FairSpec == Spec /\ WF_vars(Refresh) /\ SF_vars(FetchesSignature)

-----------------------------------------------------------------------------
(***************************************************************************)
(* Properties                                                              *)
(***************************************************************************)
\* The list and its signature are two files of the server, fetched by two
\* requests, and two files on disk, written one after the other.  Whatever was
\* uploaded between the two requests, and wherever a crash or a failed write
\* stopped, no process works by a list that came with the signature of another.
PinsAreSigned == \A p \in Commands \cup {Daemon} : Verify(pins[p].body, pins[p].sig)

\* Whatever installs, prunes, removals and crashes of several processes did to
\* the folders, an app-server that was started ran a build that was verified.
RunsVerifiedBuild == \A s \in ServerIds : servers[s].build # "bad"

\* The lock is not held while a build is installed, so two rounds find no
\* app-server and both go on; only one of them starts it.
OneServer == Cardinality({s \in ServerIds : servers[s].fate = "up"}) <= 1

\* A daemon that stays up, beside a server that keeps the whole last list, ends
\* on that list: neither a torn pair nor a failed fetch ends the refreshing.
CatchesUp ==
  <>[](daemon.phase = "run" /\ published = [body |-> Lists, sig |-> Lists]) => <>[](pins[Daemon].body = Lists)

\* Pruning deletes installed version directories only, never the folder a
\* command is installing from.
PruneSparesInstalls == \A m \in Commands : staging[m] # "gone"
=============================================================================

------------------------- MODULE ManagedCLI_proofs -------------------------
(***************************************************************************)
(* Proofs about the pinned build of a CLI for every number of rounds,      *)
(* commands, pin lists, app-servers and crashes.                           *)
(***************************************************************************)
EXTENDS ManagedCLI, FiniteSetTheorems, TLAPS

-----------------------------------------------------------------------------
(***************************************************************************)
(* The inductive invariant                                                 *)
(***************************************************************************)
Places == {"out", "manifest", "lock", "download", "check", "rename", "got", "start", "has", "remove", "done"}
JobRecord == [pc : Places, version : 0..Lists, again : BOOLEAN, doomed : SUBSET Serials]
Phases == {"down", "prune", "run"}
RefreshSteps == {"idle", "sig", "save", "savesig", "ended"}
DoomedRecord == [versions : SUBSET Serials, folders : SUBSET Commands]
DaemonRecord == [phase : Phases, refresh : RefreshSteps, body : 0..Lists, sig : 0..Lists,
                 install : Rounds \cup {Nobody}, start : Rounds \cup {Nobody}, doomed : DoomedRecord, crashes : 0..MaxCrashes]
Pair == [body : Serials, sig : Serials]
Contents == {"none", "empty", "bad", "good", "gone"}
ServerRecord == [fate : {"none", "up", "dead"}, build : {"none", "bad", "good"}]

ListTypes ==
  /\ published \in Pair
  /\ saved \in [body : 0..Lists, sig : 0..Lists]
  /\ pins \in [Commands \cup {Daemon} -> Pair]
FileTypes ==
  /\ bins \in [Serials -> {"none", "bad", "good"}]
  /\ staging \in [Installers -> Contents]
  /\ login \in BOOLEAN
ServerTypes ==
  /\ servers \in [ServerIds -> ServerRecord]
  /\ running \in 0..MaxServers

\* What is about to be saved and put in force is a list with its own signature.
Fetched == daemon.refresh \in {"save", "savesig"} =>
             daemon.body \in Serials /\ daemon.sig \in Serials /\ Verify(daemon.body, daemon.sig)

Typed ==
  /\ ListTypes /\ FileTypes /\ ServerTypes
  /\ daemon \in DaemonRecord /\ jobs \in [Installers -> JobRecord]
  /\ Fetched

\* Who installs or starts a build has read which one.
Versioned ==
  \A i \in Installers :
    jobs[i].pc \in {"lock", "download", "check", "rename", "got", "start"} => jobs[i].version \in Serials

\* Only a build whose checksum was compared is moved to its place.
Compared == \A i \in Installers : jobs[i].pc = "rename" => staging[i] \in {"good", "gone"}
NoneBad == \A v \in Serials : bins[v] # "bad"

Verified == Versioned /\ Compared /\ NoneBad /\ RunsVerifiedBuild

\* The round that starts an app-server holds the mutex since it saw that none runs.
Starting ==
  /\ \A r \in Rounds : jobs[r].pc = "start" => daemon.start = r
  /\ daemon.start # Nobody => ~Alive

\* The app-server that runs is the one the driver knows.
Known == \A s \in ServerIds : servers[s].fate = "up" => running = s

IInv == Typed /\ PinsAreSigned /\ Verified /\ Starting /\ Known

-----------------------------------------------------------------------------
(***************************************************************************)
(* Lemmas about the helpers                                                *)
(***************************************************************************)
\* The three parts of the type invariant name what TypeOK spells out.
LEMMA TypedIsTypeOK == Typed => TypeOK
BY DEF Typed, TypeOK, ListTypes, FileTypes, ServerTypes, Pair, DaemonRecord, JobRecord, Places, Phases,
       RefreshSteps, DoomedRecord, Contents, ServerRecord

\* List 1 is a list.
LEMMA EmbeddedIsPair == Embedded \in Pair /\ Verify(Embedded.body, Embedded.sig)
BY ManagedAssumption DEF Embedded, Pair, Serials, Verify

\* Whatever pair of files there is, a process starts with a signed list.
LEMMA LoadedIsSigned ==
  ASSUME ListTypes
  PROVE  Loaded \in Pair /\ Verify(Loaded.body, Loaded.sig)
<1>1. CASE Verify(saved.body, saved.sig) /\ saved.body > Embedded.body
  <2>1. saved \in Pair
    BY <1>1, ManagedAssumption DEF Verify, Embedded, Pair, Serials, ListTypes
  <2> QED BY <1>1, <2>1 DEF Loaded
<1>2. CASE ~(Verify(saved.body, saved.sig) /\ saved.body > Embedded.body)
  BY <1>2, EmbeddedIsPair DEF Loaded
<1> QED BY <1>1, <1>2

\* A job that goes on is a job.
LEMMA WentType ==
  ASSUME jobs \in [Installers -> JobRecord], NEW i \in Installers, NEW pc \in Places, Goes(i, pc)
  PROVE  jobs' \in [Installers -> JobRecord]
BY DEF Goes, JobRecord

\* Who has not started, or may start again, is a job.
LEMMA IdleType == Idle \in JobRecord
BY ManagedAssumption DEF Idle, JobRecord, Places

\* Somebody who is done, or may start again, is a job.
LEMMA LeftType ==
  ASSUME jobs \in [Installers -> JobRecord], NEW i \in Installers, Leaves(i)
  PROVE  jobs' \in [Installers -> JobRecord]
<1>1. Over \in JobRecord
  BY IdleType DEF Over, JobRecord, Places
<1> QED BY <1>1, IdleType DEF Leaves

\* A build in a place of the versions directory keeps the directory's type.
LEMMA HasType ==
  ASSUME jobs \in [Installers -> JobRecord], NEW r \in Rounds, Has(r)
  PROVE  jobs' \in [Installers -> JobRecord]
<1>1. [Idle EXCEPT !.pc = "has"] \in JobRecord
  BY IdleType DEF JobRecord, Places
<1> QED BY <1>1 DEF Has, Installers

-----------------------------------------------------------------------------
(***************************************************************************)
(* The invariant holds at the start                                        *)
(***************************************************************************)
\* What the images and the files hold at the start is signed, and nobody holds anything.
LEMMA InitIInv == Init => IInv
<1> SUFFICES ASSUME Init PROVE IInv
  OBVIOUS
<1>1. daemon \in DaemonRecord /\ Fetched
  BY ManagedAssumption DEF Init, DaemonRecord, Phases, RefreshSteps, DoomedRecord, NothingDoomed, Fetched
<1>2. Typed
  <2>1. ListTypes
    BY EmbeddedIsPair, ManagedAssumption DEF Init, ListTypes
  <2>2. FileTypes
    BY DEF Init, FileTypes, Contents
  <2>3. ServerTypes
    BY ManagedAssumption DEF Init, ServerTypes, ServerRecord
  <2> QED BY <1>1, <2>1, <2>2, <2>3, IdleType DEF Typed, Init
<1>3. PinsAreSigned
  BY EmbeddedIsPair DEF Init, PinsAreSigned
<1>4. Verified
  BY DEF Init, Verified, Versioned, Compared, NoneBad, RunsVerifiedBuild, Idle
<1>5. Starting /\ Known
  BY DEF Init, Starting, Known, Idle, Installers, Alive
<1> QED BY <1>2, <1>3, <1>4, <1>5 DEF IInv

-----------------------------------------------------------------------------
(***************************************************************************)
(* Every step keeps the types                                              *)
(***************************************************************************)
\* Steps of the refresh and of the daemon, on the pin list and its files.
LEMMA ListSteps ==
  ASSUME IInv,
         \/ PublishesList \/ PublishesSignature \/ Refresh \/ FetchFails
         \/ DaemonStarts \/ PruneOldVersions \/ DaemonCrashes \/ Shutdown
  PROVE  Typed'
<1> USE ManagedAssumption DEF IInv, Typed
<1>1. CASE PublishesList \/ PublishesSignature
  BY <1>1 DEF PublishesList, PublishesSignature, ListTypes, FileTypes, ServerTypes, Fetched, Pair, Serials,
              files, processes
<1>n. /\ Lists \in Nat /\ 0 \in 0..Lists /\ published.body \in 0..Lists /\ pins[Daemon].body \in Serials
      /\ published.sig \in Serials /\ published.sig \in 0..Lists
  BY DEF ListTypes, Pair, Serials
<1>2. CASE FetchesList \/ FetchFails
  <2>1. daemon' \in DaemonRecord /\ Fetched'
    BY <1>2, <1>n DEF FetchesList, FetchFails, DaemonRecord, RefreshSteps, Fetched
  <2> QED BY <1>2, <2>1 DEF FetchesList, FetchFails, ListTypes, FileTypes, ServerTypes, lists, files, processes
<1>7. CASE FetchesSignature
  <2>1. CASE Accepted(daemon.body, published.sig)
    <3>1. daemon.body \in Serials /\ Verify(daemon.body, published.sig)
      BY <1>n, <2>1 DEF DaemonRecord, Serials, Accepted
    <3>2. daemon' \in DaemonRecord /\ Fetched'
      BY <1>7, <1>n, <2>1, <3>1 DEF FetchesSignature, DaemonRecord, RefreshSteps, Fetched, Verify
    <3> QED BY <1>7, <3>2 DEF FetchesSignature, ListTypes, FileTypes, ServerTypes, lists, files, processes
  <2>2. CASE ~Accepted(daemon.body, published.sig)
    <3>1. daemon' \in DaemonRecord /\ Fetched'
      BY <1>7, <1>n, <2>2 DEF FetchesSignature, DaemonRecord, RefreshSteps, Fetched
    <3> QED BY <1>7, <3>1 DEF FetchesSignature, ListTypes, FileTypes, ServerTypes, lists, files, processes
  <2> QED BY <2>1, <2>2
<1>3. CASE SavesList \/ SavesSignature \/ SaveFails
  <2>1. daemon' \in DaemonRecord
    BY <1>3, <1>n DEF SavesList, SavesSignature, SaveFails, InForce, DaemonRecord, RefreshSteps
  <2>2. Fetched'
    BY <1>3 DEF Verify, SavesList, SavesSignature, SaveFails, InForce, Refreshing, Fetched, DaemonRecord
  <2>3. ListTypes'
    BY <1>3 DEF SavesList, SavesSignature, SaveFails, InForce, Refreshing, Fetched, DaemonRecord, ListTypes, Pair
  <2> QED BY <1>3, <2>1, <2>2, <2>3 DEF SavesList, SavesSignature, SaveFails, FileTypes, ServerTypes, files, processes
<1>4. CASE DaemonStarts
  <2>1. daemon' \in DaemonRecord /\ Fetched'
    <3> DEFINE doomed == [versions |-> {v \in Serials : bins[v] # "none" /\ v # Loaded.body},
                          folders |-> {m \in Commands : staging[m] \in {"empty", "bad", "good"}}]
    <3>1. doomed \in DoomedRecord
      BY DEF DoomedRecord
    <3>2. daemon' = [daemon EXCEPT !.phase = "prune", !.doomed = doomed]
      BY <1>4 DEF DaemonStarts
    <3> HIDE DEF doomed
    <3> QED BY <3>1, <3>2 DEF DaemonRecord, Phases, Fetched
  <2>2. ListTypes'
    BY <1>4, LoadedIsSigned DEF DaemonStarts, ListTypes
  <2> QED BY <1>4, <2>1, <2>2 DEF DaemonStarts, FileTypes, ServerTypes, files, processes
<1>5. CASE PruneOldVersions
  <2>1. /\ \A v : [daemon.doomed EXCEPT !.versions = @ \ {v}] \in DoomedRecord
        /\ \A m : [daemon.doomed EXCEPT !.folders = @ \ {m}] \in DoomedRecord
    BY DEF DaemonRecord, DoomedRecord
  <2>3. \/ \E v : daemon' = [daemon EXCEPT !.doomed = [daemon.doomed EXCEPT !.versions = @ \ {v}]]
        \/ \E m : daemon' = [daemon EXCEPT !.doomed = [daemon.doomed EXCEPT !.folders = @ \ {m}]]
        \/ daemon' = [daemon EXCEPT !.phase = "run"]
    BY <1>5 DEF PruneOldVersions, DaemonRecord, DoomedRecord
  <2>4. daemon' \in DaemonRecord /\ Fetched'
    <3>1. ASSUME NEW new \in DoomedRecord, daemon' = [daemon EXCEPT !.doomed = new]
          PROVE  daemon' \in DaemonRecord /\ Fetched'
      BY <3>1 DEF DaemonRecord, Fetched
    <3>2. ASSUME daemon' = [daemon EXCEPT !.phase = "run"]
          PROVE  daemon' \in DaemonRecord /\ Fetched'
      BY <3>2 DEF DaemonRecord, Fetched, Phases
    <3> QED BY <2>1, <2>3, <3>1, <3>2
  <2>2. FileTypes'
    BY <1>5 DEF PruneOldVersions, FileTypes, Contents
  <2> QED BY <1>5, <2>2, <2>4 DEF PruneOldVersions, ListTypes, ServerTypes, lists, processes
<1>6. CASE DaemonCrashes \/ Shutdown
  <2>1. PICK crashes \in 0..MaxCrashes : Ended(crashes)
    BY <1>6 DEF DaemonCrashes, Shutdown, DaemonRecord
  <2>2. daemon' \in DaemonRecord /\ Fetched'
    <3>1. NothingDoomed \in DoomedRecord
      BY DEF DoomedRecord, NothingDoomed
    <3> QED BY <1>n, <2>1, <3>1 DEF Ended, DaemonRecord, Phases, RefreshSteps, Fetched
  <2>3. jobs' \in [Installers -> JobRecord]
    BY <2>1, IdleType DEF Ended
  <2>4. FileTypes'
    BY <1>6, <2>1 DEF DaemonCrashes, Shutdown, Ended, FileTypes, Contents
  <2>5. ServerTypes'
    BY <2>1 DEF Ended, ServerTypes, ServerRecord
  <2> QED BY <1>6, <2>2, <2>3, <2>4, <2>5 DEF DaemonCrashes, Shutdown, ListTypes, lists
<1> QED BY <1>1, <1>2, <1>3, <1>4, <1>5, <1>6, <1>7 DEF Refresh

\* Steps of Ensure, the install and the prune, on the builds of the disk.
LEMMA JobSteps ==
  ASSUME IInv,
         \/ \E i \in Installers : Ensure(i)
         \/ \E r \in Rounds : LiveServer(r) \/ LooksAgain(r) \/ StartServer(r) \/ StartFails(r) \/ RoundEnds(r)
         \/ \E s \in ServerIds : ServerExits(s)
         \/ \E m \in Commands :
              \/ RegisterStarts(m) \/ SignsIn(m) \/ Registers(m)
              \/ UnregisterStarts(m) \/ RemoveInstalled(m) \/ CommandDies(m)
  PROVE  Typed'
<1> USE ManagedAssumption DEF IInv, Typed
<1>1. ASSUME NEW i \in Installers, Ensure(i)
      PROVE  Typed'
  <2>1. CASE ReadsManifest(i)
    <3>1. jobs' \in [Installers -> JobRecord]
      BY <2>1 DEF ReadsManifest, JobRecord, Places, ListTypes, Pair, Serials, Installers
    <3> QED BY <2>1, <3>1 DEF ReadsManifest, ListTypes, FileTypes, ServerTypes, Fetched, lists, files, processes
  <2>2. CASE Installed(i)
    <3>1. jobs' \in [Installers -> JobRecord]
      BY <2>2, WentType DEF Installed, Places
    <3> QED BY <2>2, <3>1 DEF Installed, ListTypes, FileTypes, ServerTypes, Fetched, lists, files, processes
  <2>3. CASE MakesFolder(i) \/ Downloads(i) \/ ClearsVersion(i)
    <3>1. jobs' \in [Installers -> JobRecord]
      BY <2>3, WentType DEF MakesFolder, Downloads, ClearsVersion, Places
    <3>2. daemon' \in DaemonRecord /\ Fetched'
      BY <2>3 DEF MakesFolder, Downloads, ClearsVersion, Locks, DaemonRecord, Fetched
    <3>3. FileTypes'
      BY <2>3 DEF MakesFolder, Downloads, ClearsVersion, FileTypes, Contents
    <3> QED BY <2>3, <3>1, <3>2, <3>3 DEF MakesFolder, Downloads, ClearsVersion, ListTypes, ServerTypes,
                                          lists, processes
  <2>4. CASE Renames(i)
    <3>1. jobs' \in [Installers -> JobRecord]
      BY <2>4, WentType DEF Renames, Places
    <3>2. daemon' \in DaemonRecord /\ Fetched'
      BY <2>4 DEF Renames, Unlocks, DaemonRecord, Fetched
    <3>3. staging[i] = "good"
      BY <2>4 DEF Renames, At, Verified, Compared
    <3>4. FileTypes'
      BY <2>4, <3>3 DEF Renames, FileTypes, Contents
    <3> QED BY <2>4, <3>1, <3>2, <3>4 DEF Renames, ListTypes, ServerTypes, lists, processes
  <2>5. CASE InstallFails(i)
    <3>1. jobs' \in [Installers -> JobRecord]
      BY <2>5, LeftType DEF InstallFails
    <3>2. daemon' \in DaemonRecord /\ Fetched'
      BY <2>5 DEF InstallFails, Unlocks, DaemonRecord, Fetched
    <3>3. FileTypes'
      BY <2>5 DEF InstallFails, FileTypes, Contents
    <3> QED BY <2>5, <3>1, <3>2, <3>3 DEF InstallFails, ListTypes, ServerTypes, lists, processes
  <2> QED BY <1>1, <2>1, <2>2, <2>3, <2>4, <2>5 DEF Ensure
<1>2. ASSUME NEW r \in Rounds, LiveServer(r) \/ LooksAgain(r) \/ StartServer(r) \/ StartFails(r) \/ RoundEnds(r)
      PROVE  Typed'
  <2>0. r \in Installers
    BY DEF Installers
  <2>1. CASE LiveServer(r) \/ RoundEnds(r)
    <3>1. jobs' \in [Installers -> JobRecord]
      BY <2>0, <2>1, WentType, LeftType DEF LiveServer, RoundEnds, Places
    <3> QED BY <2>1, <3>1 DEF LiveServer, RoundEnds, ListTypes, FileTypes, ServerTypes, Fetched, lists, files, processes
  <2>2. CASE LooksAgain(r) \/ StartFails(r)
    <3>1. jobs' \in [Installers -> JobRecord]
      BY <2>0, <2>2, WentType, LeftType, HasType DEF LooksAgain, StartFails, Places
    <3>2. daemon' \in DaemonRecord /\ Fetched'
      BY <2>2 DEF LooksAgain, StartFails, DaemonRecord, Fetched
    <3> QED BY <2>2, <3>1, <3>2 DEF LooksAgain, StartFails, ListTypes, FileTypes, ServerTypes, lists, files, processes
  <2>3. CASE StartServer(r)
    <3>1. jobs' \in [Installers -> JobRecord]
      BY <2>3, HasType DEF StartServer
    <3>2. daemon' \in DaemonRecord /\ Fetched'
      BY <2>3 DEF StartServer, DaemonRecord, Fetched
    <3>3. jobs[r].version \in Serials
      BY <2>0, <2>3 DEF StartServer, At, Verified, Versioned
    <3>4. ServerTypes'
      BY <2>3, <3>3 DEF StartServer, ServerTypes, ServerRecord, ServerIds, FileTypes
    <3> QED BY <2>3, <3>1, <3>2, <3>4 DEF StartServer, ListTypes, FileTypes, lists, files
  <2> QED BY <1>2, <2>1, <2>2, <2>3
<1>3. ASSUME NEW s \in ServerIds, ServerExits(s)
      PROVE  Typed'
  <2>1. ServerTypes'
    BY <1>3 DEF ServerExits, ServerTypes, ServerRecord
  <2> QED BY <1>3, <2>1 DEF ServerExits, ListTypes, FileTypes, Fetched, lists, files
<1>4. ASSUME NEW m \in Commands,
             \/ RegisterStarts(m) \/ SignsIn(m) \/ Registers(m)
             \/ UnregisterStarts(m) \/ RemoveInstalled(m) \/ CommandDies(m)
      PROVE  Typed'
  <2>0. m \in Installers
    BY DEF Installers
  <2>1. CASE RegisterStarts(m) \/ SignsIn(m)
    <3>1. jobs' \in [Installers -> JobRecord]
      <4>1. CASE RegisterStarts(m)
        BY <2>0, <4>1, WentType DEF RegisterStarts, Places
      <4>2. CASE SignsIn(m)
        BY <2>0, <4>2, LeftType DEF SignsIn, JobRecord, Places
      <4> QED BY <2>1, <4>1, <4>2
    <3>2. ListTypes'
      BY <2>1, LoadedIsSigned DEF RegisterStarts, SignsIn, ListTypes
    <3>3. FileTypes'
      BY <2>1 DEF RegisterStarts, SignsIn, FileTypes, files
    <3> QED BY <2>1, <3>1, <3>2, <3>3 DEF RegisterStarts, SignsIn, ServerTypes, Fetched, processes
  <2>2. CASE Registers(m)
    BY <2>0, <2>2, LeftType DEF Registers, ListTypes, FileTypes, ServerTypes, Fetched, lists, files, processes
  <2>3. CASE UnregisterStarts(m) \/ RemoveInstalled(m)
    <3>1. jobs' \in [Installers -> JobRecord]
      <4>1. CASE UnregisterStarts(m)
        <5>1. ASSUME NEW j \in JobRecord, NEW doomed \in SUBSET Serials
              PROVE  [j EXCEPT !.pc = "remove", !.doomed = doomed] \in JobRecord
          BY DEF JobRecord, Places
        <5>2. PICK doomed \in SUBSET Serials :
                jobs' = [jobs EXCEPT ![m] = [jobs[m] EXCEPT !.pc = "remove", !.doomed = doomed]]
          BY <2>0, <4>1 DEF UnregisterStarts
        <5>3. [jobs[m] EXCEPT !.pc = "remove", !.doomed = doomed] \in JobRecord
          BY <2>0, <5>1
        <5> QED BY <5>2, <5>3
      <4>2. CASE RemoveInstalled(m)
        BY <2>0, <4>2, LeftType DEF RemoveInstalled, JobRecord
      <4> QED BY <2>3, <4>1, <4>2
    <3>2. FileTypes'
      BY <2>3 DEF UnregisterStarts, RemoveInstalled, FileTypes
    <3> QED BY <2>3, <3>1, <3>2 DEF UnregisterStarts, RemoveInstalled, ListTypes, ServerTypes, Fetched, lists, processes
  <2>4. CASE CommandDies(m)
    <3>1. jobs' \in [Installers -> JobRecord]
      BY <2>0, <2>4, LeftType DEF CommandDies
    <3>2. daemon' \in DaemonRecord /\ Fetched'
      BY <2>4 DEF CommandDies, DaemonRecord, Fetched
    <3>3. FileTypes'
      BY <2>4 DEF CommandDies, FileTypes, Contents
    <3> QED BY <2>4, <3>1, <3>2, <3>3 DEF CommandDies, ListTypes, ServerTypes, lists, processes
  <2> QED BY <1>4, <2>1, <2>2, <2>3, <2>4
<1> QED BY <1>1, <1>2, <1>3, <1>4

\* The last disjuncts of Next, those of rounds, app-servers and commands.
LEMMA TypedStep ==
  ASSUME IInv, Next
  PROVE  Typed'
<1>1. CASE \/ PublishesList \/ PublishesSignature \/ Refresh \/ FetchFails
           \/ DaemonStarts \/ PruneOldVersions \/ DaemonCrashes \/ Shutdown
  BY <1>1, ListSteps
<1>2. CASE ~(\/ PublishesList \/ PublishesSignature \/ Refresh \/ FetchFails
             \/ DaemonStarts \/ PruneOldVersions \/ DaemonCrashes \/ Shutdown)
  BY <1>2, JobSteps DEF Next
<1> QED BY <1>1, <1>2

-----------------------------------------------------------------------------
(***************************************************************************)
(* Pins are signed                                                         *)
(***************************************************************************)
\* A list gets in force when it is loaded or when a refresh has verified it.
LEMMA SignedStep ==
  ASSUME IInv, Next
  PROVE  PinsAreSigned'
<1> USE DEF IInv, Typed
<1>1. CASE UNCHANGED pins
  BY <1>1 DEF PinsAreSigned
<1>2. ASSUME NEW p \in Commands \cup {Daemon}, pins' = [pins EXCEPT ![p] = Loaded]
      PROVE  PinsAreSigned'
  BY <1>2, LoadedIsSigned DEF PinsAreSigned, ListTypes
<1>3. CASE SavesSignature \/ SaveFails
  <2>1. InForce /\ Verify(daemon.body, daemon.sig)
    BY <1>3 DEF SavesSignature, SaveFails, Refreshing, Fetched
  <2> QED BY <2>1 DEF InForce, PinsAreSigned, ListTypes, Verify
<1>4. \/ UNCHANGED pins
      \/ \E p \in Commands \cup {Daemon} : pins' = [pins EXCEPT ![p] = Loaded]
      \/ SavesSignature \/ SaveFails
  BY DEF Next, PublishesList, PublishesSignature, Refresh, FetchesList, FetchesSignature, SavesList,
         SavesSignature, SaveFails, FetchFails, DaemonStarts, PruneOldVersions, DaemonCrashes, Shutdown,
         Ensure, ReadsManifest, Installed, MakesFolder, Downloads, ClearsVersion, Renames, InstallFails,
         LiveServer, LooksAgain, StartServer, StartFails, RoundEnds, ServerExits, RegisterStarts, SignsIn,
         Registers, UnregisterStarts, RemoveInstalled, CommandDies, lists
<1> QED BY <1>1, <1>2, <1>3, <1>4

-----------------------------------------------------------------------------
(***************************************************************************)
(* A build that runs was verified                                          *)
(***************************************************************************)
\* A list that gets in force changes no build and no job.
LEMMA VerifiedListSteps ==
  ASSUME IInv,
         \/ PublishesList \/ PublishesSignature \/ Refresh \/ FetchFails
         \/ DaemonStarts \/ PruneOldVersions \/ DaemonCrashes \/ Shutdown
  PROVE  Verified'
<1> USE DEF IInv, Verified
<1>1. CASE \/ PublishesList \/ PublishesSignature \/ Refresh \/ FetchFails \/ DaemonStarts
  <2>1. UNCHANGED <<jobs, bins, staging, servers>>
    BY <1>1 DEF PublishesList, PublishesSignature, Refresh, FetchesList, FetchesSignature, SavesList,
                SavesSignature, SaveFails, FetchFails, DaemonStarts, files, processes
  <2> QED BY <2>1 DEF Versioned, Compared, NoneBad, RunsVerifiedBuild
<1>2. CASE PruneOldVersions
  <2>1. UNCHANGED <<jobs, servers>>
    BY <1>2 DEF PruneOldVersions, processes
  <2>2. NoneBad'
    BY <1>2 DEF PruneOldVersions, NoneBad, Typed, FileTypes
  <2>3. \A i \in Installers : staging'[i] = staging[i] \/ staging'[i] = "gone"
    BY <1>2 DEF PruneOldVersions, Typed, FileTypes
  <2> QED BY <2>1, <2>2, <2>3 DEF Versioned, Compared, RunsVerifiedBuild
<1>3. CASE DaemonCrashes \/ Shutdown
  <2>1. PICK crashes : Ended(crashes)
    BY <1>3 DEF DaemonCrashes, Shutdown
  <2>2. UNCHANGED bins
    BY <1>3 DEF DaemonCrashes, Shutdown
  <2>3. Versioned' /\ Compared'
    BY <2>1 DEF Ended, Versioned, Compared, Idle
  <2>4. RunsVerifiedBuild'
    BY <2>1 DEF Ended, RunsVerifiedBuild, Typed, ServerTypes, ServerRecord
  <2> QED BY <2>2, <2>3, <2>4 DEF NoneBad
<1> QED BY <1>1, <1>2, <1>3

\* Ensure moves to its place only what was compared.
LEMMA VerifiedEnsure ==
  ASSUME IInv, NEW i \in Installers, Ensure(i)
  PROVE  Verified'
<1> USE DEF IInv, Verified, Typed
<1>0. RunsVerifiedBuild'
  BY DEF Ensure, ReadsManifest, Installed, MakesFolder, Downloads, ClearsVersion, Renames, InstallFails,
         processes, RunsVerifiedBuild
<1>1. CASE ReadsManifest(i)
  <2>1. Versioned'
    BY <1>1 DEF ReadsManifest, Versioned, JobRecord, ListTypes, Pair, Installers
  <2>2. Compared'
    BY <1>1 DEF ReadsManifest, Compared, JobRecord, files
  <2> QED BY <1>0, <1>1, <2>1, <2>2 DEF ReadsManifest, NoneBad, files
<1>2. CASE Installed(i)
  <2>1. Versioned' /\ Compared'
    BY <1>2 DEF Installed, Goes, At, Versioned, Compared, JobRecord, files
  <2> QED BY <1>0, <1>2, <2>1 DEF Installed, NoneBad, files
<1>3. CASE MakesFolder(i) \/ Downloads(i)
  <2>1. Versioned'
    BY <1>3 DEF MakesFolder, Downloads, Goes, At, Versioned, JobRecord
  <2>2. Compared'
    BY <1>3 DEF MakesFolder, Downloads, Goes, At, Compared, JobRecord, FileTypes
  <2> QED BY <1>0, <1>3, <2>1, <2>2 DEF MakesFolder, Downloads, NoneBad
<1>4. CASE ClearsVersion(i)
  <2>1. Versioned'
    BY <1>4 DEF ClearsVersion, Goes, At, Versioned, JobRecord
  <2>2. Compared'
    BY <1>4 DEF ClearsVersion, Goes, At, Compared, JobRecord
  <2>3. NoneBad'
    BY <1>4 DEF ClearsVersion, NoneBad, FileTypes
  <2> QED BY <1>0, <2>1, <2>2, <2>3
<1>5. CASE Renames(i)
  <2>1. staging[i] = "good"
    BY <1>5 DEF Renames, At, Compared
  <2>2. Versioned'
    BY <1>5 DEF Renames, Goes, At, Versioned, JobRecord
  <2>3. Compared'
    BY <1>5 DEF Renames, Goes, Compared, JobRecord, FileTypes
  <2>4. NoneBad'
    BY <1>5, <2>1 DEF Renames, NoneBad, FileTypes
  <2> QED BY <1>0, <2>2, <2>3, <2>4
<1>6. CASE InstallFails(i)
  <2>1. Versioned' /\ Compared'
    BY <1>6 DEF InstallFails, Leaves, Idle, Over, Versioned, Compared, FileTypes
  <2> QED BY <1>0, <1>6, <2>1 DEF InstallFails, NoneBad
<1> QED BY <1>1, <1>2, <1>3, <1>4, <1>5, <1>6 DEF Ensure

\* A round starts the build Ensure returned to it.
LEMMA VerifiedRounds ==
  ASSUME IInv, NEW r \in Rounds,
         LiveServer(r) \/ LooksAgain(r) \/ StartServer(r) \/ StartFails(r) \/ RoundEnds(r)
  PROVE  Verified'
<1> USE DEF IInv, Verified, Typed
<1>0. r \in Installers
  BY DEF Installers
<1>1. UNCHANGED <<bins, staging>>
  BY DEF LiveServer, LooksAgain, StartServer, StartFails, RoundEnds, files
<1>2. CASE LiveServer(r) \/ LooksAgain(r)
  <2>1. Versioned' /\ Compared'
    BY <1>0, <1>1, <1>2 DEF LiveServer, LooksAgain, Goes, Has, Idle, At, Versioned, Compared, JobRecord
  <2> QED BY <1>1, <1>2, <2>1 DEF LiveServer, LooksAgain, NoneBad, RunsVerifiedBuild, processes
<1>3. CASE StartFails(r) \/ RoundEnds(r)
  <2>1. Versioned' /\ Compared'
    BY <1>0, <1>1, <1>3 DEF StartFails, RoundEnds, Leaves, Idle, Over, Versioned, Compared
  <2> QED BY <1>1, <1>3, <2>1 DEF StartFails, RoundEnds, NoneBad, RunsVerifiedBuild, processes
<1>4. CASE StartServer(r)
  <2>1. Versioned' /\ Compared'
    BY <1>0, <1>1, <1>4 DEF StartServer, Has, Idle, Versioned, Compared
  <2>2. jobs[r].version \in Serials
    BY <1>0, <1>4 DEF StartServer, At, Versioned
  <2>3. RunsVerifiedBuild'
    BY <1>4, <2>2 DEF StartServer, RunsVerifiedBuild, NoneBad, ServerTypes
  <2> QED BY <1>1, <2>1, <2>3 DEF NoneBad
<1> QED BY <1>2, <1>3, <1>4

\* Removals, and processes that die, leave what was compared as it was.
LEMMA VerifiedCommands ==
  ASSUME IInv, NEW m \in Commands,
         \/ RegisterStarts(m) \/ SignsIn(m) \/ Registers(m)
         \/ UnregisterStarts(m) \/ RemoveInstalled(m) \/ CommandDies(m)
  PROVE  Verified'
<1> USE DEF IInv, Verified, Typed
<1>0. m \in Installers
  BY DEF Installers
<1>1. RunsVerifiedBuild'
  BY DEF RegisterStarts, SignsIn, Registers, UnregisterStarts, RemoveInstalled, CommandDies, processes,
         RunsVerifiedBuild
<1>2. CASE RegisterStarts(m) \/ UnregisterStarts(m)
  <2>1. Versioned' /\ Compared'
    BY <1>0, <1>2 DEF RegisterStarts, UnregisterStarts, Goes, Versioned, Compared, JobRecord, files
  <2> QED BY <1>1, <1>2, <2>1 DEF RegisterStarts, UnregisterStarts, NoneBad, files
<1>3. CASE SignsIn(m) \/ Registers(m)
  <2>1. Versioned' /\ Compared'
    BY <1>0, <1>3 DEF SignsIn, Registers, Leaves, Idle, Over, Versioned, Compared, JobRecord, files
  <2> QED BY <1>1, <1>3, <2>1 DEF SignsIn, Registers, NoneBad, files
<1>4. CASE RemoveInstalled(m)
  <2>1. Versioned' /\ Compared'
    BY <1>0, <1>4 DEF RemoveInstalled, At, Leaves, Idle, Over, Versioned, Compared, JobRecord
  <2>2. NoneBad'
    BY <1>4 DEF RemoveInstalled, NoneBad, FileTypes
  <2> QED BY <1>1, <2>1, <2>2
<1>5. CASE CommandDies(m)
  <2>1. Versioned' /\ Compared'
    BY <1>0, <1>5 DEF CommandDies, Leaves, Idle, Over, Versioned, Compared, FileTypes
  <2> QED BY <1>1, <1>5, <2>1 DEF CommandDies, NoneBad
<1> QED BY <1>2, <1>3, <1>4, <1>5

-----------------------------------------------------------------------------
(***************************************************************************)
(* One app-server                                                          *)
(***************************************************************************)
\* Steps that neither start an app-server nor let a round start one.
LEMMA NobodyStarts ==
  ASSUME IInv, UNCHANGED <<servers, running>>, daemon'.start = daemon.start,
         \A r \in Rounds : jobs'[r].pc = "start" => jobs[r].pc = "start"
  PROVE  Starting' /\ Known'
BY DEF IInv, Starting, Known, Alive

\* A daemon that dies takes its app-server and its rounds along.
LEMMA StartingListSteps ==
  ASSUME IInv,
         \/ PublishesList \/ PublishesSignature \/ Refresh \/ FetchFails
         \/ DaemonStarts \/ PruneOldVersions \/ DaemonCrashes \/ Shutdown
  PROVE  Starting' /\ Known'
<1> USE DEF IInv, Typed
<1>1. CASE \/ PublishesList \/ PublishesSignature \/ Refresh \/ FetchFails
           \/ DaemonStarts \/ PruneOldVersions
  <2>1. UNCHANGED <<jobs, servers, running>>
    BY <1>1 DEF PublishesList, PublishesSignature, Refresh, FetchesList, FetchesSignature, SavesList,
                SavesSignature, SaveFails, FetchFails, DaemonStarts, PruneOldVersions, processes
  <2>2. daemon'.start = daemon.start
    BY <1>1 DEF PublishesList, PublishesSignature, Refresh, FetchesList, FetchesSignature, SavesList,
                SavesSignature, SaveFails, InForce, FetchFails, DaemonStarts, PruneOldVersions, DaemonRecord
  <2> QED BY <2>1, <2>2, NobodyStarts
<1>2. CASE DaemonCrashes \/ Shutdown
  <2>1. PICK crashes : Ended(crashes)
    BY <1>2 DEF DaemonCrashes, Shutdown
  <2>2. Starting'
    BY <2>1 DEF Ended, Starting, Idle, Installers, DaemonRecord
  <2>3. Known'
    BY <2>1 DEF Ended, Known, ServerTypes, ServerRecord
  <2> QED BY <2>2, <2>3
<1> QED BY <1>1, <1>2

\* Ensure is called with the mutex held or without it, and starts nothing.
LEMMA StartingJobSteps ==
  ASSUME IInv,
         \/ \E i \in Installers : Ensure(i)
         \/ \E m \in Commands :
              \/ RegisterStarts(m) \/ SignsIn(m) \/ Registers(m)
              \/ UnregisterStarts(m) \/ RemoveInstalled(m) \/ CommandDies(m)
  PROVE  Starting' /\ Known'
<1> USE DEF IInv, Typed
<1>1. ASSUME NEW i \in Installers, Ensure(i)
      PROVE  Starting' /\ Known'
  <2>1. UNCHANGED <<servers, running>>
    BY <1>1 DEF Ensure, ReadsManifest, Installed, MakesFolder, Downloads, ClearsVersion, Renames, InstallFails,
                processes
  <2>2. daemon'.start = daemon.start
    BY <1>1 DEF Ensure, ReadsManifest, Installed, MakesFolder, Downloads, ClearsVersion, Renames, InstallFails,
                Locks, Unlocks, DaemonRecord
  <2>3. \A r \in Rounds : jobs'[r].pc = "start" => jobs[r].pc = "start"
    BY <1>1 DEF Ensure, ReadsManifest, Installed, MakesFolder, Downloads, ClearsVersion, Renames, InstallFails,
                Goes, Leaves, Idle, Over, JobRecord, Installers
  <2> QED BY <2>1, <2>2, <2>3, NobodyStarts
<1>2. ASSUME NEW m \in Commands,
             \/ RegisterStarts(m) \/ SignsIn(m) \/ Registers(m)
             \/ UnregisterStarts(m) \/ RemoveInstalled(m) \/ CommandDies(m)
      PROVE  Starting' /\ Known'
  <2>1. UNCHANGED <<servers, running>>
    BY <1>2 DEF RegisterStarts, SignsIn, Registers, UnregisterStarts, RemoveInstalled, CommandDies, processes
  <2>2. daemon'.start = daemon.start
    BY <1>2 DEF RegisterStarts, SignsIn, Registers, UnregisterStarts, RemoveInstalled, CommandDies, DaemonRecord
  <2>3. \A r \in Rounds : jobs'[r] = jobs[r]
    BY <1>2, ManagedAssumption DEF RegisterStarts, SignsIn, Registers, UnregisterStarts, RemoveInstalled,
       CommandDies, Goes, Leaves, Installers
  <2> QED BY <2>1, <2>2, <2>3, NobodyStarts
<1> QED BY <1>1, <1>2

\* A round that starts an app-server is alone at it, and none runs.
LEMMA StartingRounds ==
  ASSUME IInv, NEW r \in Rounds,
         LiveServer(r) \/ LooksAgain(r) \/ StartServer(r) \/ StartFails(r) \/ RoundEnds(r)
  PROVE  Starting' /\ Known'
<1> USE ManagedAssumption DEF IInv, Typed
<1>0. r \in Installers /\ r # Nobody
  BY DEF Installers
<1>1. CASE LiveServer(r) \/ RoundEnds(r)
  BY <1>0, <1>1, NobodyStarts DEF LiveServer, RoundEnds, Goes, Leaves, Idle, JobRecord, processes, Installers
<1>2. CASE LooksAgain(r)
  <2>1. CASE Alive /\ Has(r) /\ UNCHANGED daemon
    BY <1>0, <1>2, <2>1, NobodyStarts DEF LooksAgain, Has, Idle, processes, Installers
  <2>2. CASE ~Alive /\ Goes(r, "start") /\ daemon' = [daemon EXCEPT !.start = r]
    <3>1. \A q \in Rounds : jobs[q].pc # "start"
      BY <1>2 DEF LooksAgain, Starting
    <3> QED BY <1>0, <1>2, <2>2, <3>1 DEF LooksAgain, Goes, Starting, Known, Alive, processes, Installers,
               DaemonRecord, JobRecord
  <2> QED BY <1>2, <2>1, <2>2 DEF LooksAgain
<1>3. CASE StartServer(r) \/ StartFails(r)
  <2>1. daemon.start = r /\ ~Alive
    BY <1>0, <1>3 DEF StartServer, StartFails, At, Starting
  <2>2. \A q \in Rounds : jobs'[q].pc # "start"
    BY <1>0, <1>3, <2>1 DEF StartServer, StartFails, Has, Leaves, Idle, Starting, Installers
  <2>3. daemon'.start = Nobody
    BY <1>3 DEF StartServer, StartFails, DaemonRecord
  <2>4. \A s \in ServerIds : servers[s].fate # "up"
    BY <2>1 DEF Known, Alive, ServerIds, ServerTypes
  <2>5. Known'
    BY <1>3, <2>4 DEF StartServer, StartFails, Known, ServerTypes, processes
  <2> QED BY <2>2, <2>3, <2>5 DEF Starting
<1> QED BY <1>1, <1>2, <1>3

\* All steps together, for the mutex and the live server.
LEMMA StartingStep ==
  ASSUME IInv, Next
  PROVE  Starting' /\ Known'
<1>1. ASSUME NEW s \in ServerIds, ServerExits(s)
      PROVE  Starting' /\ Known'
  <2>1. UNCHANGED <<daemon, jobs, running>>
    BY <1>1 DEF ServerExits
  <2>2. \A t \in ServerIds : servers'[t].fate = "up" => servers[t].fate = "up"
    BY <1>1 DEF ServerExits, IInv, Typed, ServerTypes, ServerRecord
  <2>3. Alive' => Alive
    BY <2>1, <2>2 DEF Alive, IInv, Typed, ServerTypes, ServerIds
  <2> QED BY <2>1, <2>2, <2>3 DEF IInv, Starting, Known
<1> QED BY <1>1, StartingListSteps, StartingJobSteps, StartingRounds DEF Next

-----------------------------------------------------------------------------
(***************************************************************************)
(* Theorems                                                                *)
(***************************************************************************)
\* The invariant is inductive.
LEMMA IInvStep == IInv /\ [Next]_vars => IInv'
<1> SUFFICES ASSUME IInv, [Next]_vars PROVE IInv'
  OBVIOUS
<1>1. CASE Next
  <2>1. Verified'
    <3>1. CASE \/ PublishesList \/ PublishesSignature \/ Refresh \/ FetchFails
               \/ DaemonStarts \/ PruneOldVersions \/ DaemonCrashes \/ Shutdown
      BY <3>1, VerifiedListSteps
    <3>2. ASSUME NEW s \in ServerIds, ServerExits(s)
          PROVE  Verified'
      BY <3>2 DEF ServerExits, IInv, Typed, ServerTypes, Verified, Versioned, Compared, NoneBad,
                  RunsVerifiedBuild, files
    <3> QED BY <1>1, <3>1, <3>2, VerifiedEnsure, VerifiedRounds, VerifiedCommands DEF Next
  <2> QED BY <1>1, <2>1, TypedStep, SignedStep, StartingStep DEF IInv
<1>2. CASE UNCHANGED vars
  BY <1>2 DEF IInv, Typed, ListTypes, FileTypes, ServerTypes, Fetched, PinsAreSigned, Verified, Versioned,
              Compared, NoneBad, RunsVerifiedBuild, Starting, Known, Alive, vars, files, lists, processes
<1> QED BY <1>1, <1>2

\* The invariant holds in every state.
LEMMA Invariance == Spec => []IInv
BY InitIInv, IInvStep, PTL DEF Spec

\* Every variable keeps its type.
THEOREM TypeCorrect == Spec => []TypeOK
<1>1. IInv => TypeOK
  BY TypedIsTypeOK DEF IInv
<1> QED BY <1>1, Invariance, PTL

\* The list and the signature are fetched by two requests, between which the
\* server may have changed, and saved in two files, between which a crash or a
\* failed write may come; the list in force in every process came with its own
\* signature, as fetched or as found on disk (refresh.go).
THEOREM OnlySignedPins == Spec => []PinsAreSigned
<1>1. IInv => PinsAreSigned
  BY DEF IInv
<1> QED BY <1>1, Invariance, PTL

\* However many processes install, prune and remove builds beside each other
\* and die at it, every app-server runs a build whose checksum was compared
\* (install.go).
THEOREM OnlyVerifiedBuilds == Spec => []RunsVerifiedBuild
<1>1. IInv => RunsVerifiedBuild
  BY DEF IInv, Verified
<1> QED BY <1>1, Invariance, PTL

\* However many rounds install the build at once without the mutex, at most one
\* app-server runs (serverFor of appserver.go).
THEOREM OneServerRuns == Spec => []OneServer
<1>1. IInv => OneServer
  <2> SUFFICES ASSUME IInv PROVE OneServer
    OBVIOUS
  <2> DEFINE up == {s \in ServerIds : servers[s].fate = "up"}
  <2>1. up \subseteq {running}
    BY DEF IInv, Known
  <2>2. IsFiniteSet({running}) /\ Cardinality({running}) = 1
    BY FS_Singleton
  <2>3. Cardinality(up) \in Nat /\ Cardinality(up) <= Cardinality({running})
    BY <2>1, <2>2, FS_Subset, FS_CardinalityType
  <2> QED BY <2>2, <2>3 DEF OneServer
<1> QED BY <1>1, Invariance, PTL
=============================================================================

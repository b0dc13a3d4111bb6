-------------------------- MODULE DesktopUpdateProofs --------------------------
(***************************************************************************)
(* What the updater guarantees for any versions, failures and restarts:    *)
(* types, and that what the banner offers to install is the installer the  *)
(* driver has fetched, whole.                                              *)
(***************************************************************************)
EXTENDS DesktopUpdate, TLAPS

Pages == [phase : Phases, version : {None} \cup Versions, userInitiated : BOOLEAN]

(***************************************************************************)
(* The inductive invariant.                                                *)
(***************************************************************************)

\* The version the manager announces is the last one the feed told of, a later one than the
\* running one; whatever is fetched, or was, lies between the two.
Announced ==
    /\ latestManifest <= latest
    /\ pendingVersion # None => pendingVersion = latestManifest /\ current < latestManifest
    /\ {downloading, downloadedInstaller} \subseteq {None} \cup (current + 1 .. latest)

\* Nothing is fetched, offered or asked for before it was announced.
Follows ==
    /\ downloading # None \/ downloadedInstaller # None => pendingVersion # None
    /\ page.phase = "available" \/ "download" \in asked => pendingVersion # None
    /\ \/ downloadComplete \/ page.phase \in {"ready", "installing"}
       \/ "install" \in asked \/ installing \/ ~running
       => downloadedInstaller # None

\* With no other version found, what is fetched is what was announced: once it is there, it is
\* whole and nothing else is being fetched.
AtHandIsAnnounced ==
    ~moved =>
        /\ downloading # None => downloading = latestManifest
        /\ downloadedInstaller # None => /\ downloadedInstaller = latestManifest
                                         /\ downloading = None
                                         /\ file[downloadedInstaller] = "whole"

ReadyIsAtHand == page.phase \in {"ready", "installing"} /\ ~moved => page.version = downloadedInstaller

IInv == TypeOK /\ Announced /\ Follows /\ AtHandIsAnnounced /\ ReadyIsAtHand

LEMMA Versioned == MaxVersion \in Nat /\ \A v \in Versions : v \in Nat /\ v # None
  BY UpdateConstants DEF Versions, None

LEMMA Parts == IInv => TypeOK /\ Announced /\ Follows /\ AtHandIsAnnounced /\ ReadyIsAtHand
  BY Zenon DEF IInv

(***************************************************************************)
(* What the page shows of the events it is sent.                           *)
(***************************************************************************)

LEMMA HeardPage ==
    ASSUME NEW p \in Pages, NEW phase \in Phases
    PROVE  Heard(p, phase) \in Pages /\ Heard(p, phase).phase = phase
  BY DEF Pages, Heard

LEMMA DownloadedPage ==
    ASSUME NEW p \in Pages, NEW v \in {None} \cup Versions
    PROVE  Downloaded(p, v) \in Pages /\ Downloaded(p, v).phase = "ready" /\ Downloaded(p, v).version = v
  BY DEF Pages, Phases, Heard, Downloaded

LEMMA AvailablePage ==
    ASSUME NEW p \in Pages, NEW v \in {None} \cup Versions
    PROVE  Available(p, v) \in Pages /\ Available(p, v).phase = "available"
  BY DEF Pages, Phases, Heard, Available

LEMMA CheckingPage ==
    ASSUME NEW p \in Pages
    PROVE  Checking(p) \in Pages /\ (Checking(p) = p \/ Checking(p).phase = "checking")
  BY DEF Pages, Phases, Checking

(***************************************************************************)
(* The steps.                                                              *)
(***************************************************************************)

\* What the types come to.
LEMMA Types ==
    ASSUME IInv
    PROVE  /\ {current, latest, pendingVersion, latestManifest, downloading, downloadedInstaller} \subseteq Nat
           /\ {current, latest, pendingVersion, latestManifest, downloading, downloadedInstaller}
                 \subseteq {None} \cup Versions
           /\ page \in Pages /\ current <= latest /\ latest <= MaxVersion /\ MaxVersion \in Nat
  BY Parts, Versioned DEF TypeOK, Pages, Versions, None

\* A step that changes the page alone, and what was asked for, keeps the invariant if the
\* banner offers nothing new.
LEMMA PageKeeps ==
    ASSUME IInv, UNCHANGED <<checks, manager, driver, world, moved>>, page' \in Pages,
           asked' \subseteq asked \cup {"check", "download", "install"},
           page'.phase = "available" \/ "download" \in asked' => pendingVersion # None,
           "install" \in asked' => downloadedInstaller # None,
           page'.phase \in {"ready", "installing"} =>
               page.phase \in {"ready", "installing"} /\ page'.version = page.version
    PROVE  IInv'
  <1>0. TypeOK /\ Announced /\ Follows /\ AtHandIsAnnounced /\ ReadyIsAtHand
    BY Parts
  <1>1. /\ UNCHANGED <<userInitiatedCheck, checkInProgress, timer, downloadMode, pendingVersion,
                       downloadComplete, progressed, latestManifest, downloading, file, moved,
                       downloadedInstaller, current, latest, installing, running, fails, restarts>>
    BY DEF checks, manager, driver, world
  <1>2. TypeOK'
    BY <1>0, <1>1 DEF TypeOK, Pages
  <1>3. Announced' /\ AtHandIsAnnounced'
    BY <1>0, <1>1 DEF Announced, AtHandIsAnnounced
  <1>4. Follows'
    BY <1>0, <1>1 DEF Follows
  <1>5. ReadyIsAtHand'
    BY <1>0, <1>1 DEF ReadyIsAtHand
  <1> QED
    BY <1>2, <1>3, <1>4, <1>5 DEF IInv

LEMMA ClicksKeep == ASSUME IInv, Page PROVE IInv'
  <1>0. TypeOK /\ Follows /\ page \in Pages
    BY Parts, Types
  <1>1. ASSUME NEW phase \in Phases
        PROVE  /\ [page EXCEPT !.phase = phase] \in Pages
               /\ [page EXCEPT !.phase = phase].phase = phase
               /\ [page EXCEPT !.phase = phase].version = page.version
    BY <1>0 DEF Pages
  <1>2. CASE ClickCheck
    <2>1. /\ page' \in Pages /\ page'.phase = "checking" /\ asked' = asked \cup {"check"}
          /\ UNCHANGED <<checks, manager, driver, world, moved>>
      BY <1>0, <1>2 DEF ClickCheck, Asks, Pages, Phases
    <2> QED
      BY <1>0, <2>1, PageKeeps DEF Follows
  <1>3. CASE ClickDownload
    <2>1. /\ page' \in Pages /\ page'.phase = "downloading" /\ asked' = asked \cup {"download"}
          /\ page.phase = "available"
          /\ UNCHANGED <<checks, manager, driver, world, moved>>
      BY <1>1, <1>3 DEF ClickDownload, Asks, Phases
    <2> QED
      BY <1>0, <2>1, PageKeeps DEF Follows
  <1>4. CASE ClickInstall
    <2>1. /\ page' \in Pages /\ page'.phase = "installing" /\ asked' = asked \cup {"install"}
          /\ page.phase = "ready" /\ page'.version = page.version
          /\ UNCHANGED <<checks, manager, driver, world, moved>>
      BY <1>1, <1>4 DEF ClickInstall, Asks, Phases
    <2> QED
      BY <1>0, <2>1, PageKeeps DEF Follows
  <1>5. CASE UpToDateFades
    <2>1. /\ page' \in Pages /\ page'.phase = "idle" /\ asked' = asked
          /\ UNCHANGED <<checks, manager, driver, world, moved>>
      BY <1>0, <1>5, HeardPage DEF UpToDateFades, Phases
    <2> QED
      BY <1>0, <2>1, PageKeeps DEF Follows
  <1> QED
    BY <1>2, <1>3, <1>4, <1>5 DEF Page

\* A check that asks the feed, or shows again what is there.
LEMMA CheckNowKeeps ==
    ASSUME IInv, NEW byUser \in BOOLEAN, CheckNow(byUser), asked' \subseteq asked,
           UNCHANGED <<world, moved>>
    PROVE  IInv'
  <1>0. TypeOK /\ Announced /\ Follows /\ AtHandIsAnnounced /\ ReadyIsAtHand /\ page \in Pages
        /\ pendingVersion \in {None} \cup Versions
    BY Parts, Types
  <1>1. /\ UNCHANGED <<timer, downloadMode, pendingVersion, downloadComplete, progressed, latestManifest,
                       downloading, file, downloadedInstaller, current, latest, installing, running,
                       fails, restarts, moved>>
        /\ userInitiatedCheck' \in BOOLEAN /\ checkInProgress' \in BOOLEAN
    BY <1>0 DEF CheckNow, manager, driver, world, TypeOK
  <1>2. /\ page' \in Pages
        /\ \/ page'.phase = "checking" \/ page' = page
           \/ page'.phase = "available" /\ downloadMode = "background"
           \/ page'.phase = "ready" /\ downloadComplete /\ page'.version = pendingVersion
    BY <1>0, CheckingPage, DownloadedPage, AvailablePage DEF CheckNow
  <1>3. TypeOK'
    BY <1>0, <1>1, <1>2 DEF TypeOK, Pages
  <1>4. Announced' /\ AtHandIsAnnounced'
    BY <1>0, <1>1 DEF Announced, AtHandIsAnnounced
  <1>5. Follows'
    BY <1>0, <1>1, <1>2 DEF Follows, TypeOK
  <1>6. ReadyIsAtHand'
    BY <1>0, <1>1, <1>2 DEF ReadyIsAtHand, Follows, Announced, AtHandIsAnnounced
  <1> QED
    BY <1>3, <1>4, <1>5, <1>6 DEF IInv

\* The driver is asked for version v, which the manager has announced.
LEMMA DriverKeeps ==
    ASSUME IInv, NEW v \in Versions, NEW mode \in {"background", "foreground"},
           DriverDownloads(v, mode), NEW shown \in Pages,
           pendingVersion' = v, latestManifest' = v, v <= latest, current < v,
           moved' \in BOOLEAN, ~moved' => ~moved /\ AtHand \in {None, v},
           page' \in Pages, page' = Told(shown, v) \/ page'.phase = "available",
           shown = page \/ shown.phase \notin {"ready", "installing", "available"},
           {userInitiatedCheck', checkInProgress', progressed', timer'} \subseteq BOOLEAN,
           asked' \subseteq asked, UNCHANGED world
    PROVE  IInv'
  <1>0. /\ TypeOK /\ Announced /\ Follows /\ AtHandIsAnnounced /\ ReadyIsAtHand
        /\ v \in Nat /\ v # None /\ current \in Nat /\ latest \in Nat
    BY Parts, Types, Versioned
  <1>1. UNCHANGED <<current, latest, installing, running, fails, restarts>>
    BY DEF world
  <1>2. \/ /\ downloading = None /\ file[v] = "whole" /\ ReadyToUse(v)
           /\ downloadedInstaller' = v /\ downloadMode' = "idle" /\ downloadComplete' = TRUE
           /\ UNCHANGED <<downloading, file>>
        \/ /\ downloading = None /\ file[v] # "whole" /\ ~ReadyToUse(v)
           /\ downloading' = v /\ file' = [file EXCEPT ![v] = "absent"] /\ downloadMode' = mode
           /\ UNCHANGED <<downloadedInstaller, downloadComplete>>
        \/ /\ downloading # None /\ ~ReadyToUse(v)
           /\ downloadMode' = mode
           /\ UNCHANGED <<downloading, file, downloadedInstaller, downloadComplete>>
    BY DEF DriverDownloads, ReadyToUse
  <1>3. \/ page'.phase = "available"
        \/ ReadyToUse(v) /\ page'.phase = "ready" /\ page'.version = v
        \/ ~ReadyToUse(v) /\ page' = page
        \/ ~ReadyToUse(v) /\ page'.phase \notin {"ready", "installing", "available"}
    BY DownloadedPage DEF Told
  <1>4. TypeOK'
    <2>1. /\ {current', latest', pendingVersion', latestManifest', downloading', downloadedInstaller'}
                \subseteq {None} \cup Versions
          /\ current' <= latest' /\ pendingVersion' # None
          /\ downloadMode' \in {"idle", "background", "foreground"}
      BY <1>0, <1>1, <1>2 DEF TypeOK
    <2>2. /\ downloadComplete' \in BOOLEAN /\ installing' \in BOOLEAN /\ running' \in BOOLEAN
          /\ userInitiatedCheck' \in BOOLEAN /\ checkInProgress' \in BOOLEAN
          /\ progressed' \in BOOLEAN /\ timer' \in BOOLEAN
      BY <1>0, <1>1, <1>2 DEF TypeOK
    <2>3. file' \in [Versions -> {"absent", "part", "whole"}]
      BY <1>0, <1>2 DEF TypeOK
    <2>4. /\ page' \in [phase : Phases, version : {None} \cup Versions, userInitiated : BOOLEAN]
          /\ asked' \subseteq {"check", "download", "install"}
          /\ fails' \in 0 .. MaxFails /\ restarts' \in 0 .. MaxRestarts
      BY <1>0, <1>1 DEF TypeOK, Pages
    <2> QED
      BY <2>1, <2>2, <2>3, <2>4 DEF TypeOK
  <1>5. Announced'
    BY <1>0, <1>1, <1>2 DEF Announced
  <1>6. Follows'
    BY <1>0, <1>1, <1>2, <1>3 DEF Follows
  <1>7. AtHandIsAnnounced'
    <2> SUFFICES ASSUME ~moved' PROVE AtHandIsAnnounced'
      BY DEF AtHandIsAnnounced
    <2>1. ~moved /\ (downloading # None => downloading = v)
          /\ (downloading = None => downloadedInstaller \in {None, v})
      BY DEF AtHand
    <2>2. downloadedInstaller # None => downloadedInstaller = v /\ downloading = None /\ file[v] = "whole"
      BY <1>0, <2>1 DEF AtHandIsAnnounced
    <2> QED
      BY <1>0, <1>2, <2>1, <2>2 DEF AtHandIsAnnounced
  <1>8. ReadyIsAtHand'
    <2> SUFFICES ASSUME ~moved', page'.phase \in {"ready", "installing"}
                 PROVE  page'.version = downloadedInstaller'
      BY DEF ReadyIsAtHand
    <2>1. CASE ReadyToUse(v) /\ page'.version = v
      BY <1>2, <2>1
    <2>2. CASE ~ReadyToUse(v) /\ page' = page
      <3>1. downloadedInstaller' = downloadedInstaller
        BY <1>2, <2>2
      <3> QED
        BY <1>0, <2>2, <3>1 DEF ReadyIsAtHand
    <2> QED
      BY <1>3, <2>1, <2>2
  <1> QED
    BY <1>4, <1>5, <1>6, <1>7, <1>8 DEF IInv

LEMMA ManifestArrivesKeeps == ASSUME IInv, ManifestArrives PROVE IInv'
  <1>0. /\ TypeOK /\ Announced /\ Follows /\ AtHandIsAnnounced /\ ReadyIsAtHand /\ page \in Pages
        /\ {current, latest, latestManifest, pendingVersion} \subseteq Nat
        /\ latest \in {None} \cup Versions
    BY Parts, Types
  <1>1. /\ checkInProgress' = FALSE /\ userInitiatedCheck' = FALSE /\ latestManifest' = latest
        /\ UNCHANGED <<timer, progressed, world, asked>>
    BY DEF ManifestArrives, CheckEnds
  <1>2. CASE latest > current /\ OnAvailable(latest) /\ moved' = (moved \/ AtHand \notin {None, latest})
    <2>1. latest \in Versions /\ current < latest /\ pendingVersion' = latest /\ moved' \in BOOLEAN
      BY <1>0, <1>2 DEF OnAvailable, TypeOK, None
    <2>2. DriverDownloads(latest, "background")
      BY <1>2 DEF OnAvailable
    <2>3. Told(page, latest) \in Pages
      BY <1>0, DownloadedPage DEF Told
    <2>4. page' \in Pages /\ (page' = Told(page, latest) \/ page'.phase = "available")
      BY <1>0, <1>2, <2>3, AvailablePage DEF OnAvailable
    <2>5. /\ {userInitiatedCheck', checkInProgress', progressed', timer'} \subseteq BOOLEAN
          /\ asked' \subseteq asked /\ UNCHANGED world /\ latest <= latest
      <3>1. timer' \in BOOLEAN /\ progressed' \in BOOLEAN
        BY <1>0, <1>1 DEF TypeOK
      <3>2. latest <= latest
        BY <1>0
      <3> QED
        BY <1>1, <3>1, <3>2
    <2>6. ~moved' => ~moved /\ AtHand \in {None, latest}
      BY <1>2
    <2> QED
      BY <1>0, <1>1, <2>1, <2>2, <2>4, <2>5, <2>6, DriverKeeps
  <1>3. CASE /\ latest = current /\ page' = UpToDate(page)
             /\ UNCHANGED <<downloadMode, pendingVersion, downloadComplete, downloading, file,
                            downloadedInstaller, moved>>
    <2>1. page' \in Pages /\ page'.phase \in {"up-to-date", "idle"}
      BY <1>0, <1>3, HeardPage DEF UpToDate, Phases
    <2>2. pendingVersion = None /\ downloading = None /\ downloadedInstaller = None
      BY <1>0, <1>3 DEF Announced, Follows
    <2>3. TypeOK'
      <3>1. /\ {current', latest', pendingVersion', latestManifest', downloading', downloadedInstaller'}
                  \subseteq {None} \cup Versions
            /\ current' <= latest' /\ downloadMode' \in {"idle", "background", "foreground"}
            /\ downloadMode' = "background" \/ downloadComplete' => pendingVersion' # None
        BY <1>0, <1>1, <1>3 DEF TypeOK, world
      <3>2. /\ downloadComplete' \in BOOLEAN /\ installing' \in BOOLEAN /\ running' \in BOOLEAN
            /\ userInitiatedCheck' \in BOOLEAN /\ checkInProgress' \in BOOLEAN
            /\ progressed' \in BOOLEAN /\ timer' \in BOOLEAN /\ moved' \in BOOLEAN
        BY <1>0, <1>1, <1>3 DEF TypeOK, world
      <3>3. file' \in [Versions -> {"absent", "part", "whole"}]
        BY <1>0, <1>3 DEF TypeOK
      <3>4. /\ page' \in [phase : Phases, version : {None} \cup Versions, userInitiated : BOOLEAN]
            /\ asked' \subseteq {"check", "download", "install"}
            /\ fails' \in 0 .. MaxFails /\ restarts' \in 0 .. MaxRestarts
        BY <1>0, <1>1, <2>1 DEF TypeOK, Pages, world
      <3> QED
        BY <3>1, <3>2, <3>3, <3>4 DEF TypeOK
    <2>4. Announced' /\ Follows' /\ AtHandIsAnnounced' /\ ReadyIsAtHand'
      BY <1>0, <1>1, <1>3, <2>1, <2>2 DEF Announced, Follows, AtHandIsAnnounced,
         ReadyIsAtHand, world
    <2> QED
      BY <2>3, <2>4 DEF IInv
  <1> QED
    BY <1>2, <1>3 DEF ManifestArrives

LEMMA UserDownloadsKeeps == ASSUME IInv, UserDownloads PROVE IInv'
  <1>0. /\ TypeOK /\ Announced /\ Follows /\ AtHandIsAnnounced /\ page \in Pages
        /\ pendingVersion \in {None} \cup Versions
    BY Parts, Types
  <1>1. /\ pendingVersion \in Versions /\ pendingVersion = latestManifest
        /\ current < latestManifest /\ latestManifest <= latest
    BY <1>0 DEF UserDownloads, Follows, Announced
  <1> DEFINE shown == IF progressed THEN Heard(page, "downloading") ELSE page
  <1>2. shown \in Pages /\ (shown = page \/ shown.phase = "downloading")
    BY <1>0, HeardPage DEF Phases
  <1> HIDE DEF shown
  <1>3. /\ DriverDownloads(latestManifest, "foreground") /\ page' = Told(shown, latestManifest)
        /\ UNCHANGED <<checks, pendingVersion, progressed, latestManifest, world, moved>>
        /\ asked' \subseteq asked
    BY DEF UserDownloads, shown
  <1>4. page' \in Pages
    BY <1>1, <1>2, <1>3, DownloadedPage DEF Told
  <1>5. ~moved => AtHand \in {None, latestManifest}
    BY <1>0 DEF AtHandIsAnnounced, AtHand
  <1>6. /\ {userInitiatedCheck', checkInProgress', progressed', timer'} \subseteq BOOLEAN
        /\ moved' \in BOOLEAN
    BY <1>0, <1>3 DEF TypeOK, checks
  <1> QED
    BY <1>1, <1>2, <1>3, <1>4, <1>5, <1>6, DriverKeeps

\* A failure that leaves what was fetched before.
LEMMA FailureKeeps ==
    ASSUME IInv, OnError, fails' \in 0 .. MaxFails,
           {userInitiatedCheck', checkInProgress'} \subseteq BOOLEAN,
           UNCHANGED <<timer, pendingVersion, downloadComplete, progressed, latestManifest,
                       downloadedInstaller, current, latest, installing, running, restarts, asked, moved>>,
           downloading' \in {None, downloading},
           file' \in [Versions -> {"absent", "part", "whole"}],
           \A v \in Versions : v = downloading \/ file'[v] = file[v]
    PROVE  IInv'
  <1>0. /\ TypeOK /\ Announced /\ Follows /\ AtHandIsAnnounced /\ ReadyIsAtHand /\ page \in Pages
        /\ downloadedInstaller \in {None} \cup Versions
    BY Parts, Types
  <1>1. /\ page' \in Pages /\ (page'.phase = "error" \/ page' = page)
        /\ downloadMode' \in {"idle", "foreground"} \/ downloadMode' = downloadMode
    BY <1>0, HeardPage DEF OnError, Phases, TypeOK
  <1>2. TypeOK'
    BY <1>0, <1>1 DEF TypeOK, Pages
  <1>3. Announced' /\ Follows'
    BY <1>0, <1>1 DEF Announced, Follows
  <1>4. AtHandIsAnnounced'
    BY <1>0 DEF AtHandIsAnnounced
  <1>5. ReadyIsAtHand'
    BY <1>0, <1>1 DEF ReadyIsAtHand
  <1> QED
    BY <1>2, <1>3, <1>4, <1>5 DEF IInv

LEMMA FailsKeep == ASSUME IInv, CheckFails \/ DownloadFails PROVE IInv'
  <1>0. TypeOK
    BY Parts
  <1>1. CASE CheckFails
    <2>1. /\ fails' \in 0 .. MaxFails /\ userInitiatedCheck' = FALSE /\ checkInProgress' = FALSE
          /\ file' = file /\ downloading' = downloading
      BY <1>0, <1>1, UpdateConstants DEF CheckFails, CheckEnds, driver, TypeOK
    <2>2. file' \in [Versions -> {"absent", "part", "whole"}]
      BY <1>0, <2>1 DEF TypeOK
    <2> QED
      BY <1>1, <2>1, <2>2, FailureKeeps DEF CheckFails, driver
  <1>2. CASE DownloadFails
    <2>1. PICK left \in {"absent", file[downloading]} : file' = [file EXCEPT ![downloading] = left]
      BY <1>2 DEF DownloadFails
    <2>2. downloading \in Versions
      BY <1>0, <1>2 DEF DownloadFails, TypeOK
    <2>3. /\ file' \in [Versions -> {"absent", "part", "whole"}]
          /\ \A v \in Versions : v = downloading \/ file'[v] = file[v]
      BY <1>0, <2>1, <2>2 DEF TypeOK
    <2>4. /\ fails' \in 0 .. MaxFails /\ {userInitiatedCheck', checkInProgress'} \subseteq BOOLEAN
      BY <1>0, <1>2, UpdateConstants DEF DownloadFails, checks, TypeOK
    <2> QED
      BY <1>2, <2>3, <2>4, FailureKeeps DEF DownloadFails, checks
  <1> QED
    BY <1>1, <1>2

LEMMA DownloadAdvancesKeeps == ASSUME IInv, DownloadAdvances PROVE IInv'
  <1>0. /\ TypeOK /\ Announced /\ Follows /\ AtHandIsAnnounced /\ ReadyIsAtHand /\ page \in Pages
        /\ downloading \in Versions
    BY Parts, Types DEF DownloadAdvances
  <1>1. /\ page' \in Pages /\ (page'.phase = "downloading" \/ page' = page)
        /\ progressed' = TRUE /\ file' = [file EXCEPT ![downloading] = "part"]
    BY <1>0, HeardPage DEF DownloadAdvances, Advances, Phases
  <1>2. UNCHANGED <<userInitiatedCheck, checkInProgress, timer, downloadMode, pendingVersion,
                    downloadComplete, latestManifest, downloading, downloadedInstaller, current,
                    latest, installing, running, fails, restarts, asked, moved>>
    BY DEF DownloadAdvances, checks, world
  <1>3. TypeOK'
    BY <1>0, <1>1, <1>2 DEF TypeOK, Pages
  <1>4. Announced' /\ Follows'
    BY <1>0, <1>1, <1>2 DEF Announced, Follows
  <1>5. AtHandIsAnnounced'
    BY <1>0, <1>1, <1>2 DEF AtHandIsAnnounced
  <1>6. ReadyIsAtHand'
    BY <1>0, <1>1, <1>2 DEF ReadyIsAtHand
  <1> QED
    BY <1>3, <1>4, <1>5, <1>6 DEF IInv

LEMMA DownloadEndsKeeps == ASSUME IInv, DownloadEnds PROVE IInv'
  <1>0. /\ TypeOK /\ Announced /\ Follows /\ AtHandIsAnnounced /\ ReadyIsAtHand /\ page \in Pages
        /\ downloading \in Versions /\ downloading # None /\ pendingVersion # None
    BY Parts, Types, Versioned DEF DownloadEnds, Follows
  <1>1. /\ page' \in Pages /\ page'.phase = "ready" /\ page'.version = downloading
        /\ file' = [file EXCEPT ![downloading] = "whole"]
        /\ downloadedInstaller' = downloading /\ downloading' = None
        /\ downloadMode' = "idle" /\ downloadComplete' = TRUE /\ progressed' = TRUE
    BY <1>0, DownloadedPage DEF DownloadEnds
  <1>2. UNCHANGED <<userInitiatedCheck, checkInProgress, timer, pendingVersion, latestManifest,
                    current, latest, installing, running, fails, restarts, asked, moved>>
    BY DEF DownloadEnds, checks, world
  <1>3. TypeOK'
    BY <1>0, <1>1, <1>2 DEF TypeOK, Pages
  <1>4. Announced' /\ Follows'
    BY <1>0, <1>1, <1>2 DEF Announced, Follows
  <1>5. AtHandIsAnnounced'
    BY <1>0, <1>1, <1>2 DEF AtHandIsAnnounced, TypeOK
  <1>6. ReadyIsAtHand'
    BY <1>1 DEF ReadyIsAtHand
  <1> QED
    BY <1>3, <1>4, <1>5, <1>6 DEF IInv

LEMMA InstallsKeep == ASSUME IInv, UserInstalls \/ AppliesUpdate PROVE IInv'
  <1>0. /\ TypeOK /\ Announced /\ Follows /\ AtHandIsAnnounced /\ ReadyIsAtHand /\ page \in Pages
    BY Parts, Types
  <1>1. /\ UNCHANGED <<userInitiatedCheck, checkInProgress, manager, driver, current, latest,
                       fails, restarts, moved>>
        /\ timer' \in BOOLEAN /\ running' \in BOOLEAN /\ installing' \in BOOLEAN
        /\ asked' \subseteq asked
        /\ installing' => installing \/ "install" \in asked
    BY <1>0 DEF UserInstalls, AppliesUpdate, checks, TypeOK
  <1>2. \/ page' = page
        \/ page.phase = "installing" /\ page' = [page EXCEPT !.phase = "ready"]
    BY DEF UserInstalls, AppliesUpdate
  <1>3. /\ page' \in Pages /\ page'.version = page.version
        /\ page' = page \/ (page.phase = "installing" /\ page'.phase = "ready")
    <2>1. CASE page' = page
      BY <1>0, <2>1
    <2>2. CASE page.phase = "installing" /\ page' = [page EXCEPT !.phase = "ready"]
      BY <1>0, <2>2 DEF Pages, Phases
    <2> QED
      BY <1>2, <2>1, <2>2
  <1>4. TypeOK'
    BY <1>0, <1>1, <1>3 DEF TypeOK, Pages, manager, driver
  <1>5. Announced' /\ AtHandIsAnnounced'
    BY <1>0, <1>1 DEF Announced, AtHandIsAnnounced, manager, driver
  <1>6. ~running' => ~running \/ installing
    BY DEF UserInstalls, AppliesUpdate
  <1>7. Follows'
    BY <1>0, <1>1, <1>3, <1>6 DEF Follows, manager, driver
  <1>8. ReadyIsAtHand'
    BY <1>0, <1>1, <1>3 DEF ReadyIsAtHand, driver
  <1> QED
    BY <1>4, <1>5, <1>7, <1>8 DEF IInv

LEMMA PublishKeeps == ASSUME IInv, Publish PROVE IInv'
  <1>0. /\ TypeOK /\ Announced /\ Follows /\ AtHandIsAnnounced /\ ReadyIsAtHand
        /\ {current, latest, latestManifest, downloading, downloadedInstaller} \subseteq Nat
        /\ MaxVersion \in Nat
    BY Parts, Types
  <1>1. /\ latest < MaxVersion /\ latest' = latest + 1
        /\ UNCHANGED <<checks, manager, driver, current, installing, running, fails, restarts, page,
                       asked, moved>>
    BY DEF Publish
  <1>2. latest' \in Versions
    BY <1>0, <1>1 DEF Versions
  <1>3. TypeOK'
    BY <1>0, <1>1, <1>2 DEF TypeOK, checks, manager, driver
  <1>4. Announced'
    BY <1>0, <1>1 DEF Announced, manager, driver
  <1>5. Follows' /\ AtHandIsAnnounced' /\ ReadyIsAtHand'
    BY <1>0, <1>1 DEF Follows, AtHandIsAnnounced, ReadyIsAtHand, manager, driver
  <1> QED
    BY <1>3, <1>4, <1>5 DEF IInv

LEMMA TempEmptiedKeeps == ASSUME IInv, TempEmptied PROVE IInv'
  <1>0. TypeOK /\ Announced /\ Follows
    BY Parts
  <1>1. /\ moved' = TRUE /\ fails' \in 0 .. MaxFails
        /\ file' \in [Versions -> {"absent", "part", "whole"}]
        /\ UNCHANGED <<checks, manager, latestManifest, downloading, downloadedInstaller, current,
                       latest, installing, running, restarts, page, asked>>
    BY <1>0, UpdateConstants DEF TempEmptied, TypeOK
  <1>2. TypeOK'
    BY <1>0, <1>1 DEF TypeOK, checks, manager
  <1>3. Announced' /\ Follows' /\ AtHandIsAnnounced' /\ ReadyIsAtHand'
    BY <1>0, <1>1 DEF Announced, Follows, AtHandIsAnnounced, ReadyIsAtHand, manager
  <1> QED
    BY <1>2, <1>3 DEF IInv

LEMMA RestartKeeps == ASSUME IInv, Restart PROVE IInv'
  <1>0. /\ TypeOK /\ Announced
        /\ {current, latest, downloadedInstaller} \subseteq Nat
    BY Parts, Types
  <1>1. /\ running' = TRUE /\ timer' = TRUE
        /\ downloadMode' = "idle" /\ pendingVersion' = None /\ downloadComplete' = FALSE
        /\ userInitiatedCheck' = FALSE /\ checkInProgress' = FALSE /\ progressed' = FALSE
        /\ installing' = FALSE /\ moved' = FALSE
        /\ latestManifest' = None /\ downloading' = None /\ downloadedInstaller' = None
        /\ page' = NewPage /\ asked' = {}
        /\ UNCHANGED <<file, latest, fails>>
    BY DEF Restart
  <1>2. /\ current' \in {None} \cup Versions /\ current' <= latest /\ restarts' \in 0 .. MaxRestarts
    <2>1. current' \in {current, downloadedInstaller}
      BY DEF Restart
    <2>2. current' \in {None} \cup Versions /\ current' <= latest
      BY <1>0, <2>1 DEF TypeOK, Announced, None
    <2>3. restarts' = restarts \/ (restarts < MaxRestarts /\ restarts' = restarts + 1)
      BY DEF Restart
    <2>4. restarts' \in 0 .. MaxRestarts
      BY <1>0, <2>3, UpdateConstants DEF TypeOK
    <2> QED
      BY <2>2, <2>4
  <1>3. page' \in Pages /\ page'.phase = "idle"
    BY <1>1 DEF NewPage, Pages, Phases
  <1>4. TypeOK'
    <2>1. /\ {current', latest', pendingVersion', latestManifest', downloading', downloadedInstaller'}
                \subseteq {None} \cup Versions
          /\ file' \in [Versions -> {"absent", "part", "whole"}] /\ fails' \in 0 .. MaxFails
      BY <1>0, <1>1, <1>2 DEF TypeOK
    <2>2. {downloadComplete', userInitiatedCheck', checkInProgress', progressed', timer', installing',
           running', moved'} \subseteq BOOLEAN
      BY <1>1
    <2> QED
      BY <1>1, <1>2, <1>3, <2>1, <2>2 DEF TypeOK, Pages
  <1>5. Announced' /\ Follows' /\ AtHandIsAnnounced' /\ ReadyIsAtHand'
    BY <1>0, <1>1, <1>3 DEF Announced, Follows, AtHandIsAnnounced, ReadyIsAtHand, None
  <1> QED
    BY <1>4, <1>5 DEF IInv

(***************************************************************************)
(* The theorems.                                                           *)
(***************************************************************************)

LEMMA IInvInit == Init => IInv
  <1> SUFFICES ASSUME Init PROVE IInv
    OBVIOUS
  <1>1. page \in Pages /\ page.phase = "idle"
    BY DEF Init, NewPage, Pages, Phases
  <1>2. TypeOK
    <2>1. /\ {downloadComplete, userInitiatedCheck, checkInProgress, progressed, timer, installing,
              running, moved} \subseteq BOOLEAN
          /\ downloadMode = "idle" /\ downloadComplete = FALSE
      BY DEF Init
    <2>2. /\ {current, latest, pendingVersion, latestManifest, downloading, downloadedInstaller}
                \subseteq {None} \cup Versions
          /\ current <= latest
      BY DEF Init, None
    <2>3. /\ file \in [Versions -> {"absent", "part", "whole"}] /\ asked = {}
          /\ fails \in 0 .. MaxFails /\ restarts \in 0 .. MaxRestarts
      BY UpdateConstants DEF Init
    <2> QED
      BY <1>1, <2>1, <2>2, <2>3 DEF TypeOK, Pages
  <1>3. Announced /\ Follows /\ AtHandIsAnnounced /\ ReadyIsAtHand
    BY <1>1 DEF Init, Announced, Follows, AtHandIsAnnounced, ReadyIsAtHand, None
  <1> QED
    BY <1>2, <1>3 DEF IInv

LEMMA IInvStep == ASSUME IInv, [Next]_vars PROVE IInv'
  <1>1. CASE Manager
    <2>1. CASE TimerChecks
      BY <2>1, CheckNowKeeps DEF TimerChecks
    <2>2. CASE UserChecks
      BY <2>2, CheckNowKeeps DEF UserChecks
    <2> QED
      BY <1>1, <2>1, <2>2, UserDownloadsKeeps, InstallsKeep DEF Manager
  <1>2. CASE Feed
    BY <1>2, ManifestArrivesKeeps, FailsKeep DEF Feed
  <1>3. CASE Download
    BY <1>3, DownloadAdvancesKeeps, DownloadEndsKeeps, FailsKeep DEF Download
  <1>4. CASE Page \/ TempEmptied \/ Publish \/ Restart
    BY <1>4, ClicksKeep, TempEmptiedKeeps, PublishKeeps, RestartKeeps
  <1>5. CASE UNCHANGED vars
    <2>1. UNCHANGED <<checks, manager, driver, world, page, asked, moved>>
      BY <1>5 DEF vars
    <2>2. Follows /\ page \in Pages
      BY Parts, Types
    <2> QED
      BY <2>1, <2>2, PageKeeps DEF Follows
  <1> QED
    BY <1>1, <1>2, <1>3, <1>4, <1>5 DEF Next

\* The invariant holds of every state the updater reaches.
THEOREM Invariance == Spec => []IInv
  <1>1. IInv /\ [Next]_vars => IInv'
    BY IInvStep
  <1> QED
    BY IInvInit, <1>1, PTL DEF Spec

\* The manager, the driver and the page hold versions, modes and phases the code knows; a
\* background download and a finished one are of a version the manager remembers.
THEOREM TypeCorrect == Spec => []TypeOK
  <1>1. IInv => TypeOK
    BY Parts
  <1> QED
    BY Invariance, <1>1, PTL

\* Whatever fails, crashes or is asked for, the installer the banner offers is the one the
\* driver has fetched and checked, unless a check found another version meanwhile.
THEOREM OffersTheInstaller == Spec => []ReadyIsTheInstaller
  <1>1. IInv => ReadyIsTheInstaller
    BY Parts DEF ReadyIsTheInstaller, ReadyIsAtHand, Follows, AtHandIsAnnounced
  <1> QED
    BY Invariance, <1>1, PTL

\* The running version changes only by the installer that was fetched, which is of a later one:
\* no crash, failure or declined installer takes the application back.
THEOREM OnlyForward ==
    Spec => [][current' # current => /\ ~running /\ current' = downloadedInstaller
                                     /\ current < current' /\ current' <= latest]_vars
  <1>1. ASSUME IInv, [Next]_vars, current' # current
        PROVE  ~running /\ current' = downloadedInstaller /\ current < current' /\ current' <= latest
    <2>1. Restart
      BY <1>1 DEF Next, Manager, Feed, Download, Page, TimerChecks, UserChecks, UserDownloads,
         UserInstalls, AppliesUpdate, ManifestArrives, CheckFails, DownloadAdvances, DownloadEnds,
         DownloadFails, ClickCheck, ClickDownload, ClickInstall, UpToDateFades, Asks, Publish,
         TempEmptied, world, vars
    <2>2. ~running /\ current' = downloadedInstaller
      BY <1>1, <2>1 DEF Restart
    <2>3. downloadedInstaller \in current + 1 .. latest /\ current \in Nat /\ latest \in Nat
      BY <1>1, <2>2, Parts, Types DEF Follows, Announced
    <2> QED
      BY <2>2, <2>3
  <1> QED
    BY Invariance, <1>1, PTL DEF Spec

\* The installer the application quits for is whole: one that a failure or a crash cut short is
\* not run, unless the installers were taken away, or another version found, meanwhile
\* (quitAndInstall(), which asks only whether the file exists).
THEOREM InstallsTheWhole ==
    Spec => [][running /\ ~running' /\ ~moved => file[downloadedInstaller] = "whole"]_vars
  <1>1. ASSUME IInv, [Next]_vars, running, ~running', ~moved
        PROVE  file[downloadedInstaller] = "whole"
    <2>1. installing
      BY <1>1 DEF Next, Manager, Feed, Download, Page, TimerChecks, UserChecks, UserDownloads,
         UserInstalls, AppliesUpdate, ManifestArrives, CheckFails, DownloadAdvances, DownloadEnds,
         DownloadFails, ClickCheck, ClickDownload, ClickInstall, UpToDateFades, Asks, Publish,
         TempEmptied, Restart, world, vars
    <2> QED
      BY <1>1, <2>1, Parts DEF Follows, AtHandIsAnnounced
  <1> QED
    BY Invariance, <1>1, PTL DEF Spec

================================================================================

---------------------------- MODULE DesktopUpdate ----------------------------
(***************************************************************************)
(* Updates of the desktop application on Windows, downloaded on their own: *)
(* UpdateManager, its WindowsUpdateDriver and the banner that shows what   *)
(* they tell it.                                                           *)
(*                                                                         *)
(* A version is its number, 0 stands for none; the installer of a version  *)
(* is a file of its own, absent, in part or whole.  A manifest always has  *)
(* the checksum the release script puts there.  What the manager sends     *)
(* reaches the page at once; what the page asks for is handled later.      *)
(* Rates, percentages, redirects, the dismissed banner, the choice of the  *)
(* feed and the other page, which asks for the status, are left out.       *)
(***************************************************************************)
EXTENDS Naturals

CONSTANTS
    MaxVersion,             \* bound: versions that are ever published
    MaxFails, MaxRestarts   \* bounds on what the environment does

ASSUME UpdateConstants ==
    MaxVersion \in Nat \ {0} /\ MaxFails \in Nat /\ MaxRestarts \in Nat

None == 0
Versions == 1 .. MaxVersion

VARIABLES
    current, latest,    \* the version that runs, the one in the feed
    downloadMode, pendingVersion, downloadComplete, userInitiatedCheck,
    checkInProgress, progressed,    \* is lastProgress set?
    timer,              \* are the periodic checks armed?
    installing,         \* quitAndInstall() is taking the services down
    latestManifest, downloading, downloadedInstaller,   \* the driver; downloading: of which version
    file,               \* the installers in the temporary directory
    page,               \* the banner: phase, version, userInitiated
    asked,              \* what the page has asked for and nobody has handled yet
    running,            \* is the application running?
    fails, restarts,
    moved               \* history: a check found another version than the one at hand, or the
                        \* installers were taken away

checks == <<userInitiatedCheck, checkInProgress, timer>>
manager == <<downloadMode, pendingVersion, downloadComplete, progressed>>
driver == <<latestManifest, downloading, downloadedInstaller, file>>
world == <<current, latest, installing, running, fails, restarts>>
vars == <<checks, manager, driver, world, page, asked, moved>>

Phases == {"idle", "checking", "up-to-date", "available", "downloading", "installing",
           "ready", "error"}

TypeOK ==
    /\ {current, latest, pendingVersion, latestManifest, downloading, downloadedInstaller}
          \subseteq {None} \cup Versions
    /\ current <= latest
    /\ downloadMode \in {"idle", "background", "foreground"}
    /\ downloadMode = "background" \/ downloadComplete => pendingVersion # None
    /\ {downloadComplete, userInitiatedCheck, checkInProgress, progressed, timer, installing,
        running, moved} \subseteq BOOLEAN
    /\ file \in [Versions -> {"absent", "part", "whole"}]
    /\ page \in [phase : Phases, version : {None} \cup Versions, userInitiated : BOOLEAN]
    /\ asked \subseteq {"check", "download", "install"}
    /\ fails \in 0 .. MaxFails /\ restarts \in 0 .. MaxRestarts

NewPage == [phase |-> "idle", version |-> None, userInitiated |-> FALSE]

Init ==
    /\ current = None /\ latest = None
    /\ downloadMode = "idle" /\ pendingVersion = None /\ downloadComplete = FALSE
    /\ userInitiatedCheck = FALSE /\ checkInProgress = FALSE /\ progressed = FALSE
    /\ timer = TRUE /\ installing = FALSE
    /\ latestManifest = None /\ downloading = None /\ downloadedInstaller = None
    /\ file = [v \in Versions |-> "absent"]
    /\ page = NewPage /\ asked = {}
    /\ running = TRUE /\ fails = 0 /\ restarts = 0 /\ moved = FALSE

(***************************************************************************)
(* What the page makes of the events it is sent.                           *)
(***************************************************************************)

Checking(p) ==
    IF p.userInitiated /\ p.phase # "installing" THEN [p EXCEPT !.phase = "checking"] ELSE p
Heard(p, phase) == [p EXCEPT !.phase = phase, !.userInitiated = FALSE]
Available(p, v) == [Heard(p, "available") EXCEPT !.version = v]
Downloaded(p, v) == [Heard(p, "ready") EXCEPT !.version = v]
UpToDate(p) == Heard(p, IF p.userInitiated THEN "up-to-date" ELSE "idle")

(***************************************************************************)
(* A check.                                                                *)
(***************************************************************************)

\* Mutant: an update that is there is not shown again.
CheckNowUnshown(byUser) ==
    /\ userInitiatedCheck' = byUser
    /\ checkInProgress' = (checkInProgress \/ ~(downloadComplete \/ downloadMode = "background"))
    /\ page' = IF checkInProgress THEN page ELSE Checking(page)
    /\ UNCHANGED <<manager, driver, timer>>

\* checkNow(): an update that is there, or being fetched, is shown again; else the feed is asked,
\* once.  Whose check it is the last caller says.
CheckNow(byUser) ==
    /\ userInitiatedCheck' = byUser
    /\ \/ /\ downloadComplete
          /\ page' = Downloaded(Checking(page), pendingVersion)
          /\ UNCHANGED checkInProgress
       \/ /\ ~downloadComplete /\ downloadMode = "background"
          /\ page' = Available(Checking(page), pendingVersion)
          /\ UNCHANGED checkInProgress
       \/ /\ ~downloadComplete /\ downloadMode # "background"
          /\ checkInProgress' = TRUE
          /\ page' = IF checkInProgress THEN page ELSE Checking(page)
    /\ UNCHANGED <<manager, driver, timer>>

TimerChecks ==
    timer /\ CheckNow(FALSE) /\ UNCHANGED <<world, asked, moved>>

UserChecks ==
    /\ "check" \in asked /\ asked' = asked \ {"check"}
    /\ CheckNow(TRUE) /\ UNCHANGED <<world, moved>>

\* Mutant: an installer that is there is taken without its checksum.
ReadyToUseUnchecked(v) == downloading = None /\ file[v] # "absent"

\* downloadUpdate() of the driver: an installer that is there and verifies is used.
ReadyToUse(v) == downloading = None /\ file[v] = "whole"

\* Else a download under way is joined, whatever its version, or one starts from nothing; mode is
\* what the caller has just set.
DriverDownloads(v, mode) ==
    \/ /\ ReadyToUse(v)
       /\ downloadedInstaller' = v /\ downloadMode' = "idle" /\ downloadComplete' = TRUE
       /\ UNCHANGED <<downloading, file>>
    \/ /\ downloading = None /\ ~ReadyToUse(v)
       /\ downloading' = v /\ file' = [file EXCEPT ![v] = "absent"] /\ downloadMode' = mode
       /\ UNCHANGED <<downloadedInstaller, downloadComplete>>
    \/ /\ downloading # None
       /\ downloadMode' = mode
       /\ UNCHANGED <<downloading, file, downloadedInstaller, downloadComplete>>

\* What the driver tells the page, which shows p, meanwhile.
Told(p, v) == IF ReadyToUse(v) THEN Downloaded(p, v) ELSE p

\* The download starts in the background, and a user who asked is told of the version.
OnAvailable(v) ==
    /\ pendingVersion' = v
    /\ DriverDownloads(v, "background")
    /\ page' = IF userInitiatedCheck THEN Available(Told(page, v), v) ELSE Told(page, v)

CheckEnds == checkInProgress' = FALSE /\ userInitiatedCheck' = FALSE

\* The version being fetched, or fetched before.
AtHand == IF downloading # None THEN downloading ELSE downloadedInstaller

\* The manifest arrives.
ManifestArrives ==
    /\ checkInProgress /\ CheckEnds
    /\ latestManifest' = latest
    /\ \/ /\ latest > current /\ OnAvailable(latest)
          /\ moved' = (moved \/ AtHand \notin {None, latest})
       \/ /\ latest = current /\ page' = UpToDate(page)
          /\ UNCHANGED <<downloadMode, pendingVersion, downloadComplete, downloading, file,
                         downloadedInstaller, moved>>
    /\ UNCHANGED <<timer, progressed, world, asked>>

\* Mutant: a failure in the background leaves the mode.
OnErrorKept ==
    /\ UNCHANGED downloadMode
    /\ page' = IF downloadMode = "background" /\ ~userInitiatedCheck
               THEN page ELSE Heard(page, "error")

\* onError: nothing is shown of a failure in the background, unless the last check was the user's.
OnError ==
    /\ downloadMode' = IF downloadMode = "background" THEN "idle" ELSE downloadMode
    /\ page' = IF downloadMode = "background" /\ ~userInitiatedCheck
               THEN page ELSE Heard(page, "error")

CheckFails ==
    /\ checkInProgress /\ fails < MaxFails /\ fails' = fails + 1
    /\ CheckEnds /\ OnError
    /\ UNCHANGED <<timer, pendingVersion, downloadComplete, progressed, driver, current, latest,
                   installing, running, restarts, asked, moved>>

(***************************************************************************)
(* A download.                                                             *)
(***************************************************************************)

\* The page moves to the progress of a download that is not in the background.
Advances ==
    progressed' = TRUE /\ page' = IF downloadMode = "background" THEN page
                                  ELSE Heard(page, "downloading")

\* The first bytes are in the file.
DownloadAdvances ==
    /\ downloading # None /\ file[downloading] = "absent"
    /\ file' = [file EXCEPT ![downloading] = "part"]
    /\ Advances
    /\ UNCHANGED <<checks, downloadMode, pendingVersion, downloadComplete, latestManifest,
                   downloading, downloadedInstaller, world, asked, moved>>

\* The checksum is right: onDownloaded.
DownloadEnds ==
    /\ downloading # None /\ file[downloading] = "part"
    /\ file' = [file EXCEPT ![downloading] = "whole"]
    /\ downloadedInstaller' = downloading /\ downloading' = None
    /\ downloadMode' = "idle" /\ downloadComplete' = TRUE /\ progressed' = TRUE
    /\ page' = Downloaded(page, downloading)
    /\ UNCHANGED <<checks, pendingVersion, latestManifest, world, asked, moved>>

\* The connection or the checksum fails; the file may be too busy to be removed.
DownloadFails ==
    /\ downloading # None /\ fails < MaxFails /\ fails' = fails + 1
    /\ downloading' = None
    /\ \E left \in {"absent", file[downloading]} : file' = [file EXCEPT ![downloading] = left]
    /\ OnError
    /\ UNCHANGED <<checks, pendingVersion, downloadComplete, progressed, latestManifest,
                   downloadedInstaller, current, latest, installing, running, restarts, asked, moved>>

\* downloadUpdate(): the mode changes and the page is shown how far the download has come.
UserDownloads ==
    /\ "download" \in asked /\ asked' = asked \ {"download"}
    /\ DriverDownloads(latestManifest, "foreground")
    /\ page' = Told(IF progressed THEN Heard(page, "downloading") ELSE page, latestManifest)
    /\ UNCHANGED <<checks, pendingVersion, progressed, latestManifest, world, moved>>

(***************************************************************************)
(* Installing.                                                             *)
(***************************************************************************)

UserInstalls ==
    /\ "install" \in asked /\ asked' = asked \ {"install"}
    /\ timer' = FALSE /\ installing' = TRUE
    /\ UNCHANGED <<userInitiatedCheck, checkInProgress, manager, driver, current, latest, running,
                   fails, restarts, page, moved>>

\* The services are down: the installer is run and the application quits, or the browser is sent
\* to fetch it, and the page is as before.
AppliesUpdate ==
    /\ installing /\ installing' = FALSE
    /\ \/ /\ file[downloadedInstaller] # "absent"
          /\ running' = FALSE
          /\ UNCHANGED page
       \/ /\ file[downloadedInstaller] = "absent"
          /\ page' = IF page.phase = "installing" THEN [page EXCEPT !.phase = "ready"] ELSE page
          /\ UNCHANGED running
    /\ UNCHANGED <<checks, manager, driver, current, latest, fails, restarts, asked, moved>>

(***************************************************************************)
(* The page.                                                               *)
(***************************************************************************)

Asks(what) == asked' = asked \cup {what} /\ UNCHANGED <<checks, manager, driver, world, moved>>

\* The menu offers it at any time.
ClickCheck ==
    /\ page' = [page EXCEPT !.phase = "checking", !.userInitiated = TRUE]
    /\ Asks("check")

ClickDownload ==
    /\ page.phase = "available" /\ page' = [page EXCEPT !.phase = "downloading"]
    /\ Asks("download")

ClickInstall ==
    /\ page.phase = "ready" /\ page' = [page EXCEPT !.phase = "installing"]
    /\ Asks("install")

\* 2.8 seconds later.
UpToDateFades ==
    /\ page.phase = "up-to-date" /\ page' = Heard(page, "idle")
    /\ UNCHANGED <<checks, manager, driver, world, asked, moved>>

(***************************************************************************)
(* The environment.                                                        *)
(***************************************************************************)

Publish ==
    /\ latest < MaxVersion /\ latest' = latest + 1
    /\ UNCHANGED <<checks, manager, driver, current, installing, running, fails, restarts, page,
                   asked, moved>>

\* Someone empties the temporary directory.
TempEmptied ==
    /\ downloading = None /\ fails < MaxFails /\ fails' = fails + 1
    /\ file' = [v \in Versions |-> "absent"] /\ moved' = TRUE
    /\ UNCHANGED <<checks, manager, latestManifest, downloading, downloadedInstaller, current, latest,
                   installing, running, restarts, page, asked>>

\* The application starts again, after a crash or the installer, which may have been declined;
\* only the installers in the temporary directory are left.
Restart ==
    /\ \/ /\ ~running /\ current' \in {current, downloadedInstaller}
          /\ UNCHANGED restarts
       \/ /\ running /\ restarts < MaxRestarts /\ restarts' = restarts + 1
          /\ UNCHANGED current
    /\ running' = TRUE
    /\ downloadMode' = "idle" /\ pendingVersion' = None /\ downloadComplete' = FALSE
    /\ userInitiatedCheck' = FALSE /\ checkInProgress' = FALSE /\ progressed' = FALSE
    /\ timer' = TRUE /\ installing' = FALSE
    /\ latestManifest' = None /\ downloading' = None /\ downloadedInstaller' = None
    /\ page' = NewPage /\ asked' = {}
    /\ moved' = FALSE
    /\ UNCHANGED <<file, latest, fails>>

Manager == TimerChecks \/ UserChecks \/ UserDownloads \/ UserInstalls \/ AppliesUpdate
Feed == ManifestArrives \/ CheckFails
Download == DownloadAdvances \/ DownloadEnds \/ DownloadFails
Page == ClickCheck \/ ClickDownload \/ ClickInstall \/ UpToDateFades

Next ==
    \/ running /\ (Manager \/ Feed \/ Download \/ Page \/ TempEmptied)
    \/ Publish
    \/ Restart

Spec == Init /\ [][Next]_vars

\* The interval fires, requests of the page are handled, and a request to the feed or for the
\* installer ends: neither has a time-out of its own, so the connection is assumed to.
Fairness ==
    /\ WF_vars(running /\ TimerChecks) /\ WF_vars(running /\ UserChecks)
    /\ WF_vars(running /\ UserDownloads) /\ WF_vars(running /\ UserInstalls)
    /\ WF_vars(running /\ AppliesUpdate) /\ WF_vars(running /\ Feed)
    /\ WF_vars(running /\ Download)

FairSpec == Spec /\ Fairness

-------------------------------------------------------------------------------

\* What the banner offers to install is what the driver has fetched, whole: an installer that a
\* crash or a failure cut short is never taken for one.  This needs that no check found another
\* version meanwhile: the driver joins a download of any version, and the manager goes on to
\* announce the version it heard of last.
ReadyIsTheInstaller ==
    page.phase \in {"ready", "installing"} /\ ~moved =>
        page.version = downloadedInstaller /\ file[downloadedInstaller] = "whole"

\* The banner does not check, download or install for ever.  A check of the timer's that takes over
\* one of the user's, or turns their download into one of the background, keeps its outcome from
\* the banner; the next one shows it.  There is none after an install that found no installer.
Waits == running /\ page.phase \in {"checking", "downloading", "installing"}
WaitEnds == Waits ~> ~Waits \/ moved

\* A version that is published is downloaded, whatever fails or is cut short on the way.
UpdateArrives == latest > current ~> downloadComplete \/ latest = current

\* Until the user asks, the banner shows nothing but an update that is ready.
UnaskedIsSilent == [][page.phase = "idle" /\ ~page.userInitiated /\ page' # page
                        => page'.phase \in {"ready", "checking", "idle"}]_vars

===============================================================================

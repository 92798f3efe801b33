------------------------------ MODULE AppUpdates ------------------------------
(***************************************************************************)
(* Updating the PurrivacyApp mobile app from a GitHub release              *)
(* (src/apps/mobile/src/features/updates; Android).                        *)
(*                                                                         *)
(* A check reads the latest release, then the signed manifest among its    *)
(* assets, and binds the two; the user may wait for hours with the offer   *)
(* on the screen; the install then downloads the asset, compares it with   *)
(* the manifest of the check and hands it to the installer of the system.  *)
(* Meanwhile the release on GitHub changes: a newer one is published, the  *)
(* assets of an old one are uploaded anew, one before the other.           *)
(*                                                                         *)
(* External: GitHub, the signing script that makes a manifest for the      *)
(* asset of the moment, and the installer.                                 *)
(***************************************************************************)
EXTENDS Naturals

CONSTANTS
    Current,     \* getCurrentVersion
    LastVersion, \* bound: the versions that are published
    LastBuild    \* bound: the uploads of one asset

ASSUME UpdatesAssumption == {Current, LastVersion, LastBuild} \subseteq Nat

VARIABLES
    github,   \* what is published: the latest version and, of each, the APK and its manifest
    check,    \* checkForUpdates: [pc, found]
    display,  \* status and latestRelease as the modal shows them
    modal,    \* modalVisible
    skipped,  \* the skipped release tag on the device
    install,  \* downloadAndInstallApk: [pc, release]
    file,     \* the build in the download directory, or 0
    handed    \* history: what the installer was given

updateVars == <<github, check, display, modal, skipped, install, file, handed>>

Version == 1..LastVersion
Build == 1..LastBuild
\* Builds of one size are not told apart by the release's metadata.
Size(b) == b % 2
NoRelease == [version |-> 0, manifest |-> 0]
NoCheck == [pc |-> "rest", startup |-> FALSE, version |-> 0, size |-> 0, found |-> NoRelease]
NoInstall == [pc |-> "rest", release |-> NoRelease]
Cards == {"idle", "checking", "available", "current", "not_found", "error"}

UpdatesInit ==
    /\ github = [latest |-> 0, apk |-> [v \in Version |-> 1], manifest |-> [v \in Version |-> 0]]
    /\ check = NoCheck
    /\ display = [status |-> "idle", release |-> NoRelease]
    /\ modal = FALSE /\ skipped = 0
    /\ install = NoInstall /\ file = 0 /\ handed = {}

-----------------------------------------------------------------------------
(* GitHub.                                                                 *)

Publish ==
    /\ github.latest < LastVersion
    /\ github' = [github EXCEPT !.latest = @ + 1]
    /\ UNCHANGED <<check, display, modal, skipped, install, file, handed>>

UploadApk(v) ==
    /\ v <= github.latest /\ github.apk[v] < LastBuild
    /\ github' = [github EXCEPT !.apk[v] = @ + 1]
    /\ UNCHANGED <<check, display, modal, skipped, install, file, handed>>

\* sign-update-manifest.cjs, and the upload of what it made.
UploadManifest(v) ==
    /\ v <= github.latest /\ github.manifest[v] # github.apk[v]
    /\ github' = [github EXCEPT !.manifest[v] = github.apk[v]]
    /\ UNCHANGED <<check, display, modal, skipped, install, file, handed>>

-----------------------------------------------------------------------------
(* The check.                                                              *)

\* checkForUpdates, at the start, from the settings or with "Check Again"; none of them can
\* be reached while the modal shows an offer.
BeginCheck(startup) ==
    /\ check.pc = "rest" /\ install.pc = "rest"
    /\ startup => display.status = "idle"
    /\ modal => display.status # "available"
    /\ check' = [NoCheck EXCEPT !.pc = "release", !.startup = startup]
    /\ display' = [display EXCEPT !.status = "checking"]
    /\ UNCHANGED <<github, modal, skipped, install, file, handed>>

\* fetchLatestRelease: the metadata of the release.
ReleaseRead ==
    /\ check.pc = "release" /\ github.latest # 0
    /\ check' = [check EXCEPT !.pc = "manifest", !.version = github.latest,
                              !.size = Size(github.apk[github.latest])]
    /\ UNCHANGED <<github, display, modal, skipped, install, file, handed>>

\* fetchVerifiedUpdateManifest: the manifest there is now, if it can be had, names an asset
\* of that size.
ManifestRead ==
    /\ check.pc = "manifest"
    /\ LET m == github.manifest[check.version]
       IN  check' = [check EXCEPT !.pc = "skipped",
              !.found = [version |-> check.version,
                         manifest |-> IF m # 0 /\ Size(m) = check.size THEN m ELSE 0]]
    /\ UNCHANGED <<github, display, modal, skipped, install, file, handed>>

ManifestMissed ==
    /\ check.pc = "manifest"
    /\ check' = [check EXCEPT !.pc = "skipped",
                              !.found = [version |-> check.version, manifest |-> 0]]
    /\ UNCHANGED <<github, display, modal, skipped, install, file, handed>>

\* The skipped tag is read last.
CheckEnds ==
    LET newer == check.found.version > Current IN
    /\ check.pc = "skipped"
    /\ check' = NoCheck
    /\ display' = [status |-> IF newer THEN "available" ELSE "current", release |-> check.found]
    /\ modal' = CASE check.startup -> (modal \/ (newer /\ skipped # check.found.version))
                  [] OTHER -> TRUE
    /\ UNCHANGED <<github, skipped, install, file, handed>>

CheckFails ==
    /\ check.pc # "rest"
    /\ check' = NoCheck
    /\ display' = [status |-> IF check.pc = "release" /\ github.latest = 0 THEN "not_found" ELSE "error",
                   release |-> NoRelease]
    /\ modal' = (modal \/ ~check.startup)
    /\ UNCHANGED <<github, skipped, install, file, handed>>

-----------------------------------------------------------------------------
(* The modal.                                                              *)

\* "Later", "Close" and the back button; not while a download shows its progress.
CloseModal ==
    /\ modal /\ install.pc = "rest"
    /\ modal' = FALSE
    /\ UNCHANGED <<github, check, display, skipped, install, file, handed>>

SkipLatestRelease ==
    /\ modal /\ display.status = "available" /\ install.pc = "rest"
    /\ skipped' = display.release.version
    /\ modal' = FALSE
    /\ UNCHANGED <<github, check, display, install, file, handed>>

\* installUpdate of the release on display; without a manifest the browser opens instead.
BeginInstall ==
    /\ modal /\ display.status = "available" /\ install.pc = "rest"
    /\ display.release.manifest # 0
    /\ install' = [pc |-> "permission", release |-> display.release]
    /\ UNCHANGED <<github, check, display, modal, skipped, file, handed>>

\* Allowed: earlier downloads go and the task starts; else the settings open.
PermissionAnswered(allowed) ==
    /\ install.pc = "permission"
    /\ install' = IF allowed THEN [install EXCEPT !.pc = "download"] ELSE NoInstall
    /\ file' = IF allowed THEN 0 ELSE file
    /\ UNCHANGED <<github, check, display, modal, skipped, handed>>

\* downloadAsync: the asset as it is now.
Downloaded ==
    /\ install.pc = "download"
    /\ install' = [install EXCEPT !.pc = "verify"]
    /\ file' = github.apk[install.release.version]
    /\ UNCHANGED <<github, check, display, modal, skipped, handed>>

\* verifyDownloadedApk: size, then checksum.
\* Mutant: the size alone.
SizeMatches(release) == Size(file) = Size(release.manifest)
Verified(release) == file = release.manifest

\* installApk resolves when the installer has been started.
Verify ==
    LET r == install.release IN
    /\ install.pc = "verify"
    /\ install' = NoInstall
    /\ \/ /\ Verified(r)
          /\ handed' = handed \cup {[version |-> r.version, build |-> file, offered |-> display.release]}
          /\ UNCHANGED file
       \/ file' = 0 /\ UNCHANGED handed
    /\ UNCHANGED <<github, check, display, modal, skipped>>

\* The download is cancelled or breaks off.
InstallFails ==
    /\ install.pc = "download"
    /\ install' = NoInstall /\ file' = 0
    /\ UNCHANGED <<github, check, display, modal, skipped, handed>>

\* The app comes to the foreground: what was downloaded goes, unless it is being installed.
BecomesActive ==
    /\ install.pc = "rest"
    /\ file # 0 /\ file' = 0
    /\ UNCHANGED <<github, check, display, modal, skipped, install, handed>>

\* The process dies and starts again: the provider mounts and cleans up.
Relaunch ==
    /\ check' = NoCheck /\ install' = NoInstall
    /\ display' = [status |-> "idle", release |-> NoRelease]
    /\ modal' = FALSE /\ file' = 0
    /\ UNCHANGED <<github, skipped, handed>>

UpdatesNext ==
    \/ Publish \/ (\E v \in Version : UploadApk(v) \/ UploadManifest(v))
    \/ \E startup \in BOOLEAN : BeginCheck(startup)
    \/ ReleaseRead \/ ManifestRead \/ ManifestMissed \/ CheckEnds \/ CheckFails
    \/ CloseModal \/ SkipLatestRelease \/ BeginInstall
    \/ \E allowed \in BOOLEAN : PermissionAnswered(allowed)
    \/ Downloaded \/ Verify \/ InstallFails \/ BecomesActive \/ Relaunch

UpdatesSpec == UpdatesInit /\ [][UpdatesNext]_updateVars

-----------------------------------------------------------------------------
UpdatesTypeOK ==
    /\ github.latest \in 0..LastVersion
    /\ display.status \in Cards
    /\ check.found.version \in 0..LastVersion
    /\ install.pc \in {"rest", "permission", "download", "verify"}
    /\ file \in 0..LastBuild

\* appUpdateService.ts:304 - "Never install anything that does not match": whatever becomes
\* of the release between the check, the offer and the download, the installer is given the
\* build the manifest of the offered release was signed for, and that release is newer.
InstallsWhatWasSigned ==
    \A h \in handed :
        /\ h.version = h.offered.version /\ h.build = h.offered.manifest
        /\ h.version > Current
=============================================================================

------------------------------ MODULE Release ------------------------------
(***************************************************************************)
(* How a release of devdash is published and installed.  The workflow runs *)
(* publish-release.sh for a commit of main that touched the version, one   *)
(* run at a time; a run may fail or be cancelled after any step and is     *)
(* then run again.  Meanwhile users run install.sh, whose two downloads    *)
(* are separate requests, or devdash update, which downloads install.sh    *)
(* from main and runs it over the running executable.  Two builds of one   *)
(* commit give archives of different checksums (tar records the build      *)
(* time).                                                                  *)
(***************************************************************************)
EXTENDS Naturals

CONSTANTS
    Commits, Versions,
    VersionOf,    \* the version a commit reports; commits may share one
    Archives,     \* the archives of a release, one per platform
    Installers,   \* the runs of install.sh, which share the install directory
    MaxBuilds,    \* bound on the builds considered
    Latest,       \* the version to install when none is asked for
    Damaged, NULL

ASSUME ReleaseAssumption ==
    /\ VersionOf \in [Commits -> Versions]
    /\ MaxBuilds \in Nat
    /\ NULL \notin Commits \cup Versions

VARIABLES
    tags,        \* the commit of each tag of the remote
    releases,    \* the releases and drafts, and their assets
    published,   \* the versions whose release is no draft
    latest,      \* the version releases/latest leads to
    builds,      \* the number of builds so far
    publisher,   \* the running publication
    installer,   \* the running installations
    installed    \* the file <install directory>/devdash

release == <<tags, releases, published, latest, builds, publisher, installer, installed>>

Assets == Archives \cup {"checksums.txt"}

Build == [commit : Commits, number : 1 .. MaxBuilds]

Publication == [pc : {"checked_out", "build", "tag", "create", "upload", "publish", "done"},
                commit : Commits, tag : Commits \cup {NULL}, exists : BOOLEAN,
                build : Build \cup {NULL}, todo : SUBSET Assets]

Installation == [pc : {"update", "archive", "verified", "copied"},
                 platform : Archives \cup {NULL}, version : Versions \cup {Latest},
                 archive : Build \cup {Damaged, NULL}]

ASSUME AbsenceAssumption ==
    /\ NULL \notin Build \cup Publication \cup Installation
    /\ NULL \notin [Assets -> Build \cup {NULL}]
    /\ Damaged \notin Build \cup {NULL}

Init ==
    /\ tags = [v \in Versions |-> NULL]
    /\ releases = [v \in Versions |-> NULL]
    /\ published = {}
    /\ latest = NULL
    /\ builds = 0
    /\ publisher = NULL
    /\ installer = [i \in Installers |-> NULL]
    /\ installed = NULL

-----------------------------------------------------------------------------
(* scripts/publish-release.sh *)

Publishing(pc) == publisher # NULL /\ publisher.pc = pc

Version == VersionOf[publisher.commit]

UnchangedInstalls == UNCHANGED <<installer, installed>>

(* The workflow checks out a commit with all tags.                         *)
CheckOut(commit) ==
    /\ publisher = NULL
    /\ publisher' = [pc |-> "checked_out", commit |-> commit, tag |-> tags[VersionOf[commit]],
                     exists |-> FALSE, build |-> NULL, todo |-> {}]
    /\ UNCHANGED <<tags, releases, published, latest, builds>> /\ UnchangedInstalls

(* Fault: an existing tag of another commit is not noticed.                *)
ViewReleaseOnly ==
    /\ Publishing("checked_out")
    /\ publisher' = [publisher EXCEPT !.pc = "build", !.exists = releases[Version] # NULL]
    /\ UNCHANGED <<tags, releases, published, latest, builds>> /\ UnchangedInstalls

(* gh release view, which finds drafts too.  A tag of another commit ends  *)
(* the run, well when its release exists and with an error when it does    *)
(* not.                                                                    *)
ViewRelease ==
    /\ Publishing("checked_out")
    /\ publisher' = IF publisher.tag \in {NULL, publisher.commit}
                    THEN [publisher EXCEPT !.pc = "build", !.exists = releases[Version] # NULL]
                    ELSE NULL
    /\ UNCHANGED <<tags, releases, published, latest, builds>> /\ UnchangedInstalls

(* Fault: to a published release that lacks an asset only what it lacks is *)
(* uploaded.                                                               *)
BuildMissing ==
    /\ Publishing("build")
    /\ builds < MaxBuilds
    /\ builds' = builds + 1
    /\ publisher' = [publisher EXCEPT !.build = [commit |-> publisher.commit, number |-> builds'],
         !.todo = {a \in Assets :
              (Version \in published /\ \E b \in Assets : releases[Version][b] = NULL)
                => releases[Version][a] = NULL},
         !.pc = IF publisher.tag = NULL THEN "tag"
                ELSE IF publisher.exists THEN "upload" ELSE "create"]
    /\ UNCHANGED <<tags, releases, published, latest>> /\ UnchangedInstalls

(* scripts/release.sh tests, builds, packs and installs the artifacts.     *)
BuildArtifacts ==
    /\ Publishing("build")
    /\ builds < MaxBuilds
    /\ builds' = builds + 1
    /\ publisher' = [publisher EXCEPT !.build = [commit |-> publisher.commit, number |-> builds'],
         !.todo = Assets,
         !.pc = IF publisher.tag = NULL THEN "tag"
                ELSE IF publisher.exists THEN "upload" ELSE "create"]
    /\ UNCHANGED <<tags, releases, published, latest>> /\ UnchangedInstalls

(* git tag, git push.                                                      *)
PushTag ==
    /\ Publishing("tag")
    /\ tags[Version] = NULL
    /\ tags' = [tags EXCEPT ![Version] = publisher.commit]
    /\ publisher' = [publisher EXCEPT !.pc = "create"]
    /\ UNCHANGED <<releases, published, latest, builds>> /\ UnchangedInstalls

(* gh release create makes a draft, uploads the assets to it and publishes *)
(* it.                                                                     *)
CreateDraft ==
    /\ Publishing("create")
    /\ releases[Version] = NULL
    /\ releases' = [releases EXCEPT ![Version] = [a \in Assets |-> NULL]]
    /\ publisher' = [publisher EXCEPT !.pc = "upload"]
    /\ UNCHANGED <<tags, published, latest, builds>> /\ UnchangedInstalls

(* gh release upload --clobber removes an asset before it uploads the      *)
(* replacement.  Several assets are on their way at a time.                *)
RemoveAsset(a) ==
    /\ Publishing("upload") /\ publisher.exists
    /\ a \in publisher.todo /\ releases[Version][a] # NULL
    /\ releases' = [releases EXCEPT ![Version][a] = NULL]
    /\ UNCHANGED <<tags, published, latest, builds, publisher>> /\ UnchangedInstalls

UploadAsset(a) ==
    /\ Publishing("upload")
    /\ a \in publisher.todo /\ releases[Version][a] = NULL
    /\ releases' = [releases EXCEPT ![Version][a] = publisher.build]
    /\ publisher' = [publisher EXCEPT !.todo = @ \ {a},
         !.pc = IF publisher.todo # {a} THEN "upload"
                ELSE IF publisher.exists THEN "done" ELSE "publish"]
    /\ UNCHANGED <<tags, published, latest, builds>> /\ UnchangedInstalls

(* GitHub decides by date and version whether it becomes the latest.       *)
PublishDraft ==
    /\ Publishing("publish")
    /\ published' = published \cup {Version}
    /\ latest' \in {Version} \cup ({latest} \ {NULL})
    /\ publisher' = [publisher EXCEPT !.pc = "done"]
    /\ UNCHANGED <<tags, releases, builds>> /\ UnchangedInstalls

(* gh release create deletes its draft when an upload fails; when it is    *)
(* cancelled the draft stays (StopPublishing).                             *)
DiscardDraft ==
    /\ Publishing("upload") \/ Publishing("publish")
    /\ ~publisher.exists
    /\ releases' = [releases EXCEPT ![Version] = NULL]
    /\ publisher' = NULL
    /\ UNCHANGED <<tags, published, latest, builds>> /\ UnchangedInstalls

(* Fault: a run that fails deletes its tag.                                *)
StopDeletingTag ==
    /\ publisher # NULL
    /\ publisher' = NULL
    /\ tags' = [tags EXCEPT ![Version] = NULL]
    /\ UNCHANGED <<releases, published, latest, builds>> /\ UnchangedInstalls

(* The run is over, or it fails or is cancelled.                           *)
StopPublishing ==
    /\ publisher # NULL
    /\ publisher' = NULL
    /\ UNCHANGED <<tags, releases, published, latest, builds>> /\ UnchangedInstalls

Publish ==
    \/ \E commit \in Commits : CheckOut(commit)
    \/ ViewRelease \/ BuildArtifacts \/ PushTag \/ CreateDraft
    \/ \E a \in Assets : RemoveAsset(a) \/ UploadAsset(a)
    \/ PublishDraft \/ DiscardDraft \/ StopPublishing

-----------------------------------------------------------------------------
(* install.sh and devdash update *)

Installing(i, pc) == installer[i] # NULL /\ installer[i].pc = pc

UnchangedReleases == UNCHANGED <<tags, releases, published, latest, builds, publisher>>

(* The assets of a draft cannot be downloaded.                             *)
Asset(version, a) ==
    LET v == IF version = Latest THEN latest ELSE version
    IN  IF v \in published THEN releases[v][a] ELSE NULL

(* devdash update: install.sh of main, for the directory of the executable *)
(* and the latest release, whatever the user's variables say.              *)
BeginUpdate(i) ==
    /\ installer[i] = NULL
    /\ installed # NULL
    /\ installer' = [installer EXCEPT ![i] =
         [pc |-> "update", platform |-> NULL, version |-> Latest, archive |-> NULL]]
    /\ UNCHANGED installed /\ UnchangedReleases

(* A transfer may damage the archive without curl noticing.                *)
DownloadArchive(i, platform, version) ==
    /\ installer[i] = NULL \/ (Installing(i, "update") /\ version = installer[i].version)
    /\ Asset(version, platform) # NULL
    /\ \E archive \in {Asset(version, platform), Damaged} :
          installer' = [installer EXCEPT ![i] =
            [pc |-> "archive", platform |-> platform, version |-> version, archive |-> archive]]
    /\ UNCHANGED installed /\ UnchangedReleases

(* Fault: the checksum is not compared.                                    *)
SkipVerification(i) ==
    /\ Installing(i, "archive")
    /\ installer' = [installer EXCEPT ![i].pc = "verified"]
    /\ UNCHANGED installed /\ UnchangedReleases

(* checksums.txt, downloaded after the archive, lists the checksums of the *)
(* build that uploaded it; then the archive is unpacked and tried.         *)
VerifyArchive(i) ==
    /\ Installing(i, "archive")
    /\ installer[i].archive = Asset(installer[i].version, "checksums.txt")
    /\ installer' = [installer EXCEPT ![i].pc = "verified"]
    /\ UNCHANGED installed /\ UnchangedReleases

(* cp to a temporary file of this run in the install directory.            *)
CopyCandidate(i) ==
    /\ Installing(i, "verified")
    /\ installer' = [installer EXCEPT ![i].pc = "copied"]
    /\ UNCHANGED installed /\ UnchangedReleases

(* mv -f over the installed file.                                          *)
MoveIntoPlace(i) ==
    /\ Installing(i, "copied")
    /\ installed' = installer[i].archive
    /\ installer' = [installer EXCEPT ![i] = NULL]
    /\ UnchangedReleases

(* An error, a signal, a killed shell: what is in place stays.             *)
StopInstalling(i) ==
    /\ installer[i] # NULL
    /\ installer' = [installer EXCEPT ![i] = NULL]
    /\ UNCHANGED installed /\ UnchangedReleases

Install(i) ==
    \/ BeginUpdate(i)
    \/ \E platform \in Archives, version \in Versions \cup {Latest} :
          DownloadArchive(i, platform, version)
    \/ VerifyArchive(i) \/ CopyCandidate(i) \/ MoveIntoPlace(i) \/ StopInstalling(i)

Next == Publish \/ \E i \in Installers : Install(i)

Spec == Init /\ [][Next]_release

-----------------------------------------------------------------------------
(* Properties. *)

(* The remote, the running publication and the installations have their types. *)
ReleaseTypeOK ==
    /\ tags \in [Versions -> Commits \cup {NULL}]
    /\ releases \in [Versions -> [Assets -> Build \cup {NULL}] \cup {NULL}]
    /\ published \subseteq Versions
    /\ latest \in Versions \cup {NULL}
    /\ builds \in 0 .. MaxBuilds
    /\ publisher \in Publication \cup {NULL}
    /\ installer \in [Installers -> Installation \cup {NULL}]
    /\ installed \in Build \cup {NULL, Damaged}

(* Release tags are immutable, and every asset of a release was built from *)
(* the commit of its tag, even when several commits report one version and *)
(* runs fail and are repeated in any order.                                *)
TagsImmutable ==
    [][ \A v \in Versions : tags[v] # NULL => tags'[v] = tags[v] ]_release

AssetsFromTag ==
    /\ ReleaseTypeOK
    /\ \A v \in Versions : releases[v] # NULL =>
         \A a \in Assets : releases[v][a] # NULL => releases[v][a].commit = tags[v]

(* A publication that succeeds leaves a complete release of one build,     *)
(* also when it repairs what an interrupted upload left, and the release   *)
(* is published unless the run found a draft that a cancelled create left: *)
(* such a draft it completes, and nothing in the script publishes it.      *)
PublishedComplete ==
    Publishing("done") =>
        /\ releases[Version] # NULL
        /\ \A a \in Assets : releases[Version][a] = publisher.build
        /\ ~publisher.exists => Version \in published

(* What is installed was built from the commit of its tag: an archive that *)
(* was damaged on the way is never put in place.                           *)
InstalledFromTag ==
    installed # NULL =>
        /\ installed # Damaged
        /\ tags[VersionOf[installed.commit]] = installed.commit
=============================================================================

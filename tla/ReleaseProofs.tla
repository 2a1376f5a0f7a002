---------------------------- MODULE ReleaseProofs ----------------------------
(***************************************************************************)
(* The release properties for every set of commits, versions, archives and *)
(* installations, and any number of builds.  The inductive invariant says  *)
(* what a publication knows at each step of the script: since one run      *)
(* publishes at a time, the tag it saw at the checkout is still the tag.   *)
(***************************************************************************)
EXTENDS Release, TLAPS

(* What was built from the commit of a tag stays so, since tags stay.      *)
FromTag(build) ==
    /\ build \in Build
    /\ tags[VersionOf[build.commit]] = build.commit

(* A tag names a commit of its version, a release or draft has a tag, and  *)
(* what is published is there.                                             *)
TagsSound ==
    \A v \in Versions :
        /\ tags[v] # NULL => VersionOf[tags[v]] = v
        /\ releases[v] # NULL => tags[v] # NULL
        /\ v \in published => releases[v] # NULL

AssetsSound ==
    \A v \in Versions : releases[v] # NULL =>
        \A a \in Assets : releases[v][a] # NULL => releases[v][a].commit = tags[v]

(* The build of the running publication is of its commit and, once the tag *)
(* is there, of the tag.                                                   *)
BuildSound ==
    /\ publisher.build \in Build
    /\ publisher.build.commit = publisher.commit

(* What the running publication knows.                                     *)
PublisherSound ==
    /\ Publishing("checked_out") => publisher.tag = tags[Version]
    /\ Publishing("build") =>
         /\ publisher.tag = tags[Version]
         /\ publisher.tag \in {NULL, publisher.commit}
         /\ publisher.exists => releases[Version] # NULL
    /\ Publishing("tag") => BuildSound /\ publisher.todo = Assets
    /\ Publishing("create") =>
         BuildSound /\ tags[Version] = publisher.commit /\ publisher.todo = Assets
    /\ Publishing("upload") =>
         /\ BuildSound /\ tags[Version] = publisher.commit /\ releases[Version] # NULL
         /\ \A a \in Assets \ publisher.todo : releases[Version][a] = publisher.build
         /\ ~publisher.exists => Version \notin published
    /\ Publishing("publish") =>
         /\ BuildSound /\ tags[Version] = publisher.commit /\ releases[Version] # NULL
         /\ \A a \in Assets : releases[Version][a] = publisher.build
         /\ ~publisher.exists /\ Version \notin published
    /\ PublishedComplete

(* What was downloaded or is installed was built from a tag, or damaged.   *)
InstallersSound ==
    /\ \A i \in Installers :
         /\ Installing(i, "archive") =>
              installer[i].archive = Damaged \/ FromTag(installer[i].archive)
         /\ Installing(i, "verified") \/ Installing(i, "copied") => FromTag(installer[i].archive)
    /\ installed # NULL => FromTag(installed)

ReleaseInv ==
    /\ ReleaseTypeOK
    /\ TagsSound
    /\ AssetsSound
    /\ PublisherSound
    /\ InstallersSound

-----------------------------------------------------------------------------
LEMMA InitReleaseInv == Init => ReleaseInv
  BY ReleaseAssumption
     DEF Init, ReleaseInv, ReleaseTypeOK, TagsSound, AssetsSound, PublisherSound, PublishedComplete,
         InstallersSound, Publishing, Installing

(* The commit of the running publication reports a version.                *)
LEMMA VersionTyped ==
    ASSUME ReleaseTypeOK, publisher # NULL
    PROVE  /\ publisher \in Publication
           /\ publisher.commit \in Commits
           /\ Version \in Versions
  BY ReleaseAssumption DEF ReleaseTypeOK, Publication, Version

(* Whatever asset an installation finds was built from a tag.              *)
LEMMA AssetFromTag ==
    ASSUME ReleaseTypeOK, TagsSound, AssetsSound,
           NEW version, version \in Versions \cup {Latest}, NEW a \in Assets, Asset(version, a) # NULL
    PROVE  FromTag(Asset(version, a))
  <1> DEFINE v == IF version = Latest THEN latest ELSE version
  <1>1. v \in Versions /\ releases[v] # NULL /\ Asset(version, a) = releases[v][a]
    BY DEF Asset, ReleaseTypeOK, TagsSound
  <1> HIDE DEF v
  <1>2. releases[v] \in [Assets -> Build \cup {NULL}]
    BY <1>1 DEF ReleaseTypeOK
  <1>3. releases[v][a] \in Build
    BY <1>1, <1>2
  <1>4. releases[v][a].commit = tags[v] /\ tags[v] # NULL /\ VersionOf[tags[v]] = v
    BY <1>1 DEF AssetsSound, TagsSound
  <1> QED BY <1>1, <1>3, <1>4 DEF FromTag

-----------------------------------------------------------------------------
(* A step of a publication keeps every tag.                                *)
LEMMA PublishKeepsTags ==
    ASSUME ReleaseTypeOK, Publish, NEW v \in Versions, tags[v] # NULL
    PROVE  tags'[v] = tags[v]
  <1>1. CASE PushTag
    BY SMTT(30), <1>1 DEF PushTag, ReleaseTypeOK
  <1> QED
    BY <1>1 DEF Publish, CheckOut, ViewRelease, BuildArtifacts, CreateDraft, RemoveAsset,
                UploadAsset, PublishDraft, DiscardDraft, StopPublishing

LEMMA PublishPreserves ==
    ASSUME ReleaseInv, Publish
    PROVE  ReleaseTypeOK' /\ TagsSound' /\ AssetsSound' /\ PublisherSound'
  <1> USE ReleaseAssumption, AbsenceAssumption
      DEF ReleaseInv, ReleaseTypeOK, TagsSound, AssetsSound, PublisherSound, PublishedComplete,
          BuildSound, Publishing, Version, UnchangedInstalls
  <1>1. ASSUME NEW commit \in Commits, CheckOut(commit)
        PROVE  ReleaseTypeOK' /\ TagsSound' /\ AssetsSound' /\ PublisherSound'
    BY <1>1 DEF CheckOut, Publication
  <1>2. CASE ViewRelease
    BY ZenonT(60), <1>2 DEF ViewRelease, Publication
  <1>3. CASE BuildArtifacts
    <2>1. publisher \in Publication /\ publisher.commit \in Commits /\ Version \in Versions
      BY <1>3, VersionTyped DEF BuildArtifacts
    <2>2. builds' \in 1 .. MaxBuilds
      BY <1>3 DEF BuildArtifacts
    <2>3. [commit |-> publisher.commit, number |-> builds'] \in Build
      BY <2>1, <2>2 DEF Build
    <2> DEFINE pc == IF publisher.tag = NULL THEN "tag"
                     ELSE IF publisher.exists THEN "upload" ELSE "create"
    <2>4. /\ pc \in {"tag", "create", "upload"}
          /\ pc = "upload" => publisher.tag # NULL /\ publisher.exists
          /\ pc = "create" => publisher.tag # NULL
      OBVIOUS
    <2>5. publisher' = [publisher EXCEPT
            !.build = [commit |-> publisher.commit, number |-> builds'], !.todo = Assets, !.pc = pc]
      BY <1>3 DEF BuildArtifacts
    <2> HIDE DEF pc
    <2>6. /\ publisher' \in Publication /\ publisher'.pc = pc
          /\ publisher'.build = [commit |-> publisher.commit, number |-> builds']
          /\ publisher'.commit = publisher.commit
          /\ publisher'.todo = Assets /\ publisher'.exists = publisher.exists
      BY <2>1, <2>3, <2>4, <2>5 DEF Publication
    <2>7. UNCHANGED <<tags, releases, published, latest, installer, installed>>
      BY <1>3 DEF BuildArtifacts
    <2>8. ReleaseTypeOK' /\ TagsSound' /\ AssetsSound'
      BY <1>3, <2>2, <2>6, <2>7
    <2>9. /\ publisher # NULL /\ publisher' # NULL /\ Version' = Version
          /\ publisher.tag = tags[Version]
          /\ publisher.tag \in {NULL, publisher.commit}
          /\ publisher.exists => releases[Version] # NULL
      BY ZenonT(60), <1>3, <2>1, <2>6 DEF BuildArtifacts, Publication
    <2>10. BuildSound'
      BY <2>3, <2>6
    <2> QED BY <2>4, <2>6, <2>7, <2>8, <2>9, <2>10
  <1>4. CASE PushTag
    BY <1>4 DEF PushTag, Publication
  <1>5. CASE CreateDraft
    <2>1. publisher \in Publication /\ Version \in Versions
      BY <1>5, VersionTyped DEF CreateDraft
    <2>2. /\ publisher' \in Publication /\ publisher'.pc = "upload"
          /\ publisher'.build = publisher.build /\ publisher'.commit = publisher.commit
          /\ publisher'.todo = publisher.todo /\ publisher'.exists = publisher.exists
      BY <1>5, <2>1 DEF CreateDraft, Publication
    <2>3. /\ releases' \in [Versions -> [Assets -> Build \cup {NULL}] \cup {NULL}]
          /\ \A v \in Versions \ {Version} : releases'[v] = releases[v]
          /\ releases'[Version] # NULL /\ \A a \in Assets : releases'[Version][a] = NULL
      BY <1>5, <2>1 DEF CreateDraft
    <2>4. /\ publisher # NULL /\ publisher' # NULL /\ Version' = Version
          /\ UNCHANGED <<tags, published, latest, builds, installer, installed>>
          /\ releases[Version] = NULL /\ Version \notin published
      BY <1>5, <2>1, <2>2 DEF CreateDraft
    <2>5. ReleaseTypeOK'
      BY <2>2, <2>3, <2>4
    <2>6. /\ publisher.build \in Build /\ publisher.build.commit = publisher.commit
          /\ tags[Version] = publisher.commit /\ publisher.commit \in Commits
      BY <1>5, <2>1 DEF CreateDraft, Publication
    <2>7. TagsSound' /\ AssetsSound'
      BY <2>3, <2>4, <2>6
    <2>8. PublisherSound'
      <3>1. /\ ~Publishing("checked_out")' /\ ~Publishing("build")' /\ ~Publishing("tag")'
            /\ ~Publishing("create")' /\ ~Publishing("publish")' /\ ~Publishing("done")'
        BY <2>2
      <3>2. BuildSound' /\ tags'[Version'] = publisher'.commit /\ Version' \notin published'
        BY <2>2, <2>4, <2>6
      <3>3. releases'[Version'] # NULL
        BY <2>3, <2>4
      <3>4. publisher'.todo = Assets
        BY <1>5, <2>2 DEF CreateDraft
      <3> QED BY Zenon, <3>1, <3>2, <3>3, <3>4
    <2> QED BY <2>5, <2>7, <2>8
  <1>6. ASSUME NEW a \in Assets, RemoveAsset(a)
        PROVE  ReleaseTypeOK' /\ TagsSound' /\ AssetsSound' /\ PublisherSound'
    BY <1>6 DEF RemoveAsset, Publication
  <1>7. ASSUME NEW a \in Assets, UploadAsset(a)
        PROVE  ReleaseTypeOK' /\ TagsSound' /\ AssetsSound' /\ PublisherSound'
    <2>1. publisher \in Publication /\ Version \in Versions
      BY <1>7, VersionTyped DEF UploadAsset
    <2>2. releases[Version] \in [Assets -> Build \cup {NULL}] /\ publisher.build \in Build
      BY <1>7, <2>1 DEF UploadAsset, Publication
    <2>3. releases' = [releases EXCEPT ![Version] = [releases[Version] EXCEPT ![a] = publisher.build]]
      BY <1>7, <2>1, <2>2 DEF UploadAsset
    <2>4. /\ publisher' \in Publication /\ publisher'.pc \in {"done", "publish", "upload"}
          /\ publisher'.build = publisher.build /\ publisher'.commit = publisher.commit
          /\ publisher'.todo = publisher.todo \ {a} /\ publisher'.exists = publisher.exists
          /\ publisher'.pc # "upload" => publisher'.todo = {}
          /\ publisher'.pc = "done" => publisher.exists
          /\ publisher'.pc = "publish" => ~publisher.exists
      BY <1>7, <2>1, <2>2 DEF UploadAsset, Publication
    <2>5. /\ publisher # NULL /\ publisher' # NULL /\ Version' = Version
          /\ releases[Version] # NULL
          /\ UNCHANGED <<tags, published, latest, builds, installer, installed>>
          /\ ~publisher.exists => Version \notin published
      BY <1>7, <2>1, <2>2, <2>4 DEF UploadAsset
    <2>6. /\ releases' \in [Versions -> [Assets -> Build \cup {NULL}] \cup {NULL}]
          /\ \A v \in Versions \ {Version} : releases'[v] = releases[v]
          /\ releases'[Version] # NULL
          /\ releases'[Version][a] = publisher.build
          /\ \A b \in Assets \ {a} : releases'[Version][b] = releases[Version][b]
      BY <2>1, <2>2, <2>3
    <2>7. ReleaseTypeOK'
      BY <2>4, <2>5, <2>6
    <2>8. /\ publisher.build.commit = publisher.commit /\ tags[Version] = publisher.commit
          /\ \A b \in Assets \ publisher.todo : releases[Version][b] = publisher.build
      BY <1>7 DEF UploadAsset
    <2>9. TagsSound'
      BY <2>5, <2>6, <2>8
    <2>10. AssetsSound'
      BY <2>5, <2>6, <2>8
    <2>11. \A b \in Assets \ publisher'.todo : releases'[Version][b] = publisher.build
      BY <2>4, <2>6, <2>8
    <2>12. PublisherSound'
      BY <2>2, <2>4, <2>5, <2>6, <2>8, <2>11
    <2> QED BY <2>7, <2>9, <2>10, <2>12
  <1>8. CASE PublishDraft
    <2>1. publisher \in Publication /\ Version \in Versions
      BY <1>8, VersionTyped DEF PublishDraft
    <2>2. /\ publisher' \in Publication /\ publisher'.pc = "done"
          /\ publisher'.build = publisher.build /\ publisher'.commit = publisher.commit
          /\ publisher'.exists = publisher.exists
      BY <1>8, <2>1 DEF PublishDraft, Publication
    <2>3. /\ publisher # NULL /\ publisher' # NULL /\ Version' = Version
          /\ published' = published \cup {Version} /\ latest' \in Versions \cup {NULL}
          /\ releases[Version] # NULL /\ \A a \in Assets : releases[Version][a] = publisher.build
          /\ UNCHANGED <<tags, releases, builds, installer, installed>>
      BY <1>8, <2>1, <2>2 DEF PublishDraft
    <2>4. ReleaseTypeOK' /\ TagsSound' /\ AssetsSound'
      BY <2>1, <2>2, <2>3
    <2> QED BY <2>2, <2>3, <2>4
  <1>9. CASE DiscardDraft
    <2>1. publisher \in Publication /\ Version \in Versions
      BY <1>9, VersionTyped DEF DiscardDraft
    <2>2. /\ publisher' = NULL /\ Version \notin published
          /\ UNCHANGED <<tags, published, latest, builds, installer, installed>>
          /\ releases' \in [Versions -> [Assets -> Build \cup {NULL}] \cup {NULL}]
          /\ \A v \in Versions \ {Version} : releases'[v] = releases[v]
          /\ releases'[Version] = NULL
      BY <1>9, <2>1 DEF DiscardDraft
    <2> QED BY <2>2
  <1>10. CASE StopPublishing
    BY <1>10 DEF StopPublishing
  <1> QED BY <1>1, <1>2, <1>3, <1>4, <1>5, <1>6, <1>7, <1>8, <1>9, <1>10 DEF Publish

(* Tags stay, so what was built from one remains so.                       *)
LEMMA FromTagStays ==
    ASSUME ReleaseTypeOK, Publish \/ UNCHANGED tags, NEW build, FromTag(build)
    PROVE  FromTag(build)'
  <1>1. build.commit \in Commits /\ VersionOf[build.commit] \in Versions
    BY ReleaseAssumption DEF FromTag, Build
  <1>2. tags[VersionOf[build.commit]] # NULL
    BY <1>1, ReleaseAssumption DEF FromTag
  <1>3. tags'[VersionOf[build.commit]] = tags[VersionOf[build.commit]]
    BY <1>1, <1>2, PublishKeepsTags
  <1> QED BY <1>3 DEF FromTag

LEMMA PublishKeepsInstallers ==
    ASSUME ReleaseInv, Publish
    PROVE  InstallersSound'
  <1>1. UNCHANGED <<installer, installed>>
    BY DEF Publish, CheckOut, ViewRelease, BuildArtifacts, PushTag, CreateDraft, RemoveAsset,
           UploadAsset, PublishDraft, DiscardDraft, StopPublishing, UnchangedInstalls
  <1>2. ASSUME NEW build, FromTag(build)
        PROVE  FromTag(build)'
    BY <1>2, FromTagStays DEF ReleaseInv
  <1> QED BY <1>1, <1>2 DEF ReleaseInv, InstallersSound, Installing

(* What one installation does to itself and to the installed file.         *)
LEMMA InstallPreserves ==
    ASSUME ReleaseInv, NEW i \in Installers, Install(i)
    PROVE  ReleaseInv'
  <1>0. UnchangedReleases
    BY DEF Install, BeginUpdate, DownloadArchive, VerifyArchive, CopyCandidate, MoveIntoPlace,
           StopInstalling
  <1>1. ASSUME NEW build, FromTag(build)
        PROVE  FromTag(build)'
    BY <1>0, <1>1, FromTagStays DEF ReleaseInv, UnchangedReleases
  <1>2. ASSUME installer' \in [Installers -> Installation \cup {NULL}],
               installed' \in Build \cup {NULL, Damaged}, InstallersSound'
        PROVE  ReleaseInv'
    BY <1>0, <1>2 DEF ReleaseInv, ReleaseTypeOK, TagsSound, AssetsSound, PublisherSound,
                      PublishedComplete, BuildSound, Publishing, Version, UnchangedReleases
  <1>3. CASE BeginUpdate(i)
    <2>1. [pc |-> "update", platform |-> NULL, version |-> Latest, archive |-> NULL] \in Installation
      BY DEF Installation
    <2> QED
      BY <1>1, <1>2, <1>3, <2>1 DEF BeginUpdate, ReleaseInv, ReleaseTypeOK, InstallersSound, Installing
  <1>4. ASSUME NEW platform \in Archives, NEW version \in Versions \cup {Latest},
               DownloadArchive(i, platform, version)
        PROVE  ReleaseInv'
    <2>1. FromTag(Asset(version, platform))
      BY <1>4, AssetFromTag DEF DownloadArchive, ReleaseInv, Assets
    <2>2. PICK archive \in {Asset(version, platform), Damaged} :
            installer' = [installer EXCEPT ![i] =
              [pc |-> "archive", platform |-> platform, version |-> version, archive |-> archive]]
      BY <1>4 DEF DownloadArchive
    <2>3. archive \in Build \cup {Damaged} /\ (archive = Damaged \/ FromTag(archive))
      BY <2>1, <2>2 DEF FromTag
    <2>4. [pc |-> "archive", platform |-> platform, version |-> version, archive |-> archive]
            \in Installation
      BY <2>3 DEF Installation
    <2> QED
      BY <1>1, <1>2, <1>4, <2>2, <2>3, <2>4
         DEF DownloadArchive, ReleaseInv, ReleaseTypeOK, InstallersSound, Installing
  <1>5. CASE VerifyArchive(i)
    <2>1. installer[i] \in Installation /\ installer[i].pc = "archive"
      BY <1>5 DEF VerifyArchive, Installing, ReleaseInv, ReleaseTypeOK
    <2>2. FromTag(installer[i].archive)
      <3>1. installer[i].archive = Damaged \/ FromTag(installer[i].archive)
        BY <1>5 DEF VerifyArchive, ReleaseInv, InstallersSound
      <3>2. installer[i].archive = Asset(installer[i].version, "checksums.txt")
        BY <1>5 DEF VerifyArchive
      <3>3. CASE installer[i].archive = Damaged
        <4>1. Asset(installer[i].version, "checksums.txt") # NULL
              /\ installer[i].version \in Versions \cup {Latest}
          BY <2>1, <3>2, <3>3, AbsenceAssumption DEF Installation
        <4> QED BY <3>2, <4>1, AssetFromTag DEF ReleaseInv, Assets
      <3> QED BY <3>1, <3>3
    <2>3. [installer[i] EXCEPT !.pc = "verified"] \in Installation
      BY <2>1 DEF Installation
    <2> QED
      BY <1>1, <1>2, <1>5, <2>1, <2>2, <2>3
         DEF VerifyArchive, ReleaseInv, ReleaseTypeOK, InstallersSound, Installing, Installation
  <1>6. CASE CopyCandidate(i)
    <2>1. installer[i] \in Installation /\ FromTag(installer[i].archive)
      BY <1>6 DEF CopyCandidate, Installing, ReleaseInv, ReleaseTypeOK, InstallersSound
    <2>2. [installer[i] EXCEPT !.pc = "copied"] \in Installation
      BY <2>1 DEF Installation
    <2> QED
      BY <1>1, <1>2, <1>6, <2>1, <2>2
         DEF CopyCandidate, ReleaseInv, ReleaseTypeOK, InstallersSound, Installing, Installation
  <1>7. CASE MoveIntoPlace(i)
    <2>1. FromTag(installer[i].archive)
      BY <1>7 DEF MoveIntoPlace, ReleaseInv, InstallersSound
    <2>2. installed' \in Build
      BY <1>7, <2>1 DEF MoveIntoPlace, FromTag
    <2> QED
      BY <1>1, <1>2, <1>7, <2>1, <2>2
         DEF MoveIntoPlace, ReleaseInv, ReleaseTypeOK, InstallersSound, Installing
  <1>8. CASE StopInstalling(i)
    BY <1>1, <1>2, <1>8
       DEF StopInstalling, ReleaseInv, ReleaseTypeOK, InstallersSound, Installing
  <1> QED BY <1>3, <1>4, <1>5, <1>6, <1>7, <1>8 DEF Install

-----------------------------------------------------------------------------
(* At each step of the script a publication knows the tag, the release     *)
(* and the build it goes on with, whatever runs stopped before it.         *)
THEOREM ReleaseInvInductive == Spec => []ReleaseInv
  <1>1. ReleaseInv /\ [Next]_release => ReleaseInv'
    <2> SUFFICES ASSUME ReleaseInv, [Next]_release PROVE ReleaseInv'
      OBVIOUS
    <2>1. CASE Publish
      BY <2>1, PublishPreserves, PublishKeepsInstallers DEF ReleaseInv
    <2>2. ASSUME NEW i \in Installers, Install(i)
          PROVE  ReleaseInv'
      BY <2>2, InstallPreserves
    <2>3. CASE UNCHANGED release
      BY <2>3 DEF release, ReleaseInv, ReleaseTypeOK, TagsSound, AssetsSound, PublisherSound,
                  PublishedComplete, BuildSound, InstallersSound, FromTag, Publishing, Installing,
                  Version
    <2> QED BY <2>1, <2>2, <2>3 DEF Next
  <1> QED BY InitReleaseInv, <1>1, PTL DEF Spec

(* Every asset of a release was built from the commit of its tag, whatever *)
(* commits report one version and however runs fail and are repeated.      *)
THEOREM AssetsAreFromTag == Spec => []AssetsFromTag
  <1>1. ReleaseInv => AssetsFromTag
    BY DEF ReleaseInv, AssetsSound, AssetsFromTag
  <1> QED BY <1>1, ReleaseInvInductive, PTL

(* A publication that ends well leaves a complete release of one build,    *)
(* published unless it found a draft.                                      *)
THEOREM PublicationsComplete == Spec => []PublishedComplete
  <1>1. ReleaseInv => PublishedComplete
    BY DEF ReleaseInv, PublisherSound
  <1> QED BY <1>1, ReleaseInvInductive, PTL

(* No damaged and no untagged build is ever put in place.                  *)
THEOREM InstalledIsTagged == Spec => []InstalledFromTag
  <1>1. ReleaseInv => InstalledFromTag
    BY AbsenceAssumption DEF ReleaseInv, InstallersSound, FromTag, InstalledFromTag
  <1> QED BY <1>1, ReleaseInvInductive, PTL

(* No step moves or removes a tag.                                         *)
THEOREM TagsStay == Spec => TagsImmutable
  <1>1. ReleaseInv /\ [Next]_release =>
          [\A v \in Versions : tags[v] # NULL => tags'[v] = tags[v]]_release
    <2> SUFFICES ASSUME ReleaseInv, Next, NEW v \in Versions, tags[v] # NULL
                 PROVE  tags'[v] = tags[v]
      OBVIOUS
    <2>1. CASE Publish
      BY <2>1, PublishKeepsTags DEF ReleaseInv
    <2>2. ASSUME NEW i \in Installers, Install(i)
          PROVE  tags'[v] = tags[v]
      BY <2>2 DEF Install, BeginUpdate, DownloadArchive, VerifyArchive, CopyCandidate,
                  MoveIntoPlace, StopInstalling, UnchangedReleases
    <2> QED BY <2>1, <2>2 DEF Next
  <1> QED BY <1>1, ReleaseInvInductive, PTL DEF Spec, TagsImmutable
=============================================================================

------------------------- MODULE NativeReleaseProofs -------------------------
(***************************************************************************)
(* What a published release is worth, for any number of commits,           *)
(* packagings, assets and faults.  A release that is complete for one      *)
(* build stays so, since an asset is never replaced; the invariant says    *)
(* that whoever can publish a draft, a job or a late request of a dead     *)
(* one, has found it complete, and that its tag fits unless nobody could   *)
(* see it.                                                                 *)
(***************************************************************************)
EXTENDS NativeRelease, TLAPS

\* Who may publish release i for build b, now or late.
MayPublish(i, b) ==
  \/ job.pc = "patch" /\ i = job.release /\ b = job.build
  \/ \E r \in flight : r.kind = "patch" /\ i = r.release /\ b = r.build

ReleaseKnown ==
  /\ job.pc \in {"upload", "verify", "check", "patch", "read back"}
       => job.release \in DOMAIN releases
  /\ \A r \in flight : r.kind # "create" => r.release \in DOMAIN releases

\* A job that has checked the release, and every late PATCH, has a complete one.
Checked ==
  /\ job.pc \in {"check", "patch", "read back"} => Holds(job.release, job.build)
  /\ \A r \in flight : r.kind = "patch" => Holds(r.release, r.build)

OneTag == \A c, d \in tag : c = d

\* The tag fits what may be published, or came when nobody looked, or another
\* release is in the way.
TagChecked ==
  \A i \in DOMAIN releases, b \in Build :
    MayPublish(i, b) => tag \subseteq {b.commit} \/ unseen \/ ~(Published \subseteq {i})

\* What a job has seen of the tag at its start stays.
TagKept == job.pc # "idle" /\ job.tagged => tag = {job.build.commit}

Inv ==
  /\ TypeOK /\ ReleaseKnown /\ Checked /\ OneTag /\ TagChecked /\ TagKept
  /\ PublishedIsComplete /\ PublishedIsBound /\ ReportedIsPublic

----------------------------------------------------------------------------
(* Requests.                                                               *)

\* A release is only added, filled or published; a complete or a public one
\* keeps its assets.
Grown ==
  /\ releases' \in Seq(Release)
  /\ DOMAIN releases \subseteq DOMAIN releases'
  /\ \A i \in DOMAIN releases :
       /\ releases'[i].target = releases[i].target
       /\ ~Draft(i) => releases'[i] = releases[i]
       /\ \A b \in Build : Holds(i, b) => releases'[i].assets = releases[i].assets

LEMMA HoldsAll ==
  ASSUME NEW i, NEW b, Holds(i, b), NEW n \in Asset
  PROVE  \E u \in releases[i].assets : u.name = n
<1>1. [name |-> n, build |-> b, whole |-> TRUE] \in releases[i].assets
  BY DEF Holds
<1> QED BY <1>1

LEMMA CreateGrows ==
  ASSUME Inv, NEW b \in Build, CreateDraft(b)
  PROVE  /\ Grown /\ Published' = Published
         /\ Len(releases') \in DOMAIN releases' /\ UNCHANGED tag
<1> DEFINE new == [draft |-> TRUE, target |-> b.commit, assets |-> {}]
<1>1. new \in Release /\ releases \in Seq(Release)
  BY DEF Inv, TypeOK, Release, Build
<1>2. /\ releases' \in Seq(Release) /\ Len(releases') = Len(releases) + 1
      /\ \A i \in DOMAIN releases : releases'[i] = releases[i]
      /\ releases'[Len(releases) + 1].draft = TRUE
      /\ DOMAIN releases = 1..Len(releases) /\ DOMAIN releases' = 1..(Len(releases) + 1)
      /\ Len(releases) \in Nat
  BY <1>1 DEF CreateDraft
<1>3. Published' = Published BY <1>2 DEF Published, Draft
<1> QED BY <1>2, <1>3 DEF Grown, CreateDraft

LEMMA UploadGrows ==
  ASSUME Inv, NEW i \in DOMAIN releases, NEW n \in Asset, NEW b \in Build,
         NEW whole \in BOOLEAN, UploadAsset(i, n, b, whole)
  PROVE  Grown /\ Published' = Published /\ UNCHANGED tag
<1> DEFINE u   == [name |-> n, build |-> b, whole |-> whole]
           new == [releases[i] EXCEPT !.assets = @ \cup {u}]
<1>1. /\ u \in Upload /\ releases \in Seq(Release) /\ releases[i] \in Release
      /\ DOMAIN releases = 1..Len(releases)
  BY DEF Inv, TypeOK, Upload
<1>2. new \in Release /\ new.draft = releases[i].draft /\ new.target = releases[i].target
  BY <1>1 DEF Release
<1>3. releases' = [releases EXCEPT ![i] = new]
  BY <1>1 DEF UploadAsset
<1>4. /\ releases' \in Seq(Release) /\ DOMAIN releases' = DOMAIN releases
      /\ releases'[i] = new
      /\ \A j \in DOMAIN releases : j # i => releases'[j] = releases[j]
  BY <1>1, <1>2, <1>3
<1>5. \A c \in Build : ~Holds(i, c)
  BY HoldsAll DEF UploadAsset
<1>6. Draft(i)
  BY <1>5 DEF Inv, PublishedIsComplete, Published
<1>7. Published' = Published BY <1>2, <1>4 DEF Published, Draft
<1> QED BY <1>2, <1>4, <1>5, <1>6, <1>7 DEF Grown, UploadAsset

LEMMA PublishGrows ==
  ASSUME Inv, NEW i \in DOMAIN releases, PublishDraft(i)
  PROVE  /\ Grown /\ Published \subseteq {i} /\ Published' = {i}
         /\ DOMAIN releases' = DOMAIN releases
         /\ tag' = IF tag = {} THEN {releases[i].target} ELSE tag
<1> DEFINE new == [releases[i] EXCEPT !.draft = FALSE]
<1>1. /\ releases \in Seq(Release) /\ releases[i] \in Release
      /\ DOMAIN releases = 1..Len(releases)
  BY DEF Inv, TypeOK
<1>2. /\ new \in Release /\ new.draft = FALSE /\ new.target = releases[i].target
      /\ new.assets = releases[i].assets
      /\ ~releases[i].draft => new = releases[i]
  BY <1>1 DEF Release
<1>3. releases' = [releases EXCEPT ![i] = new]
  BY <1>1 DEF PublishDraft
<1>4. /\ releases' \in Seq(Release) /\ DOMAIN releases' = DOMAIN releases
      /\ releases'[i] = new
      /\ \A j \in DOMAIN releases : j # i => releases'[j] = releases[j]
  BY <1>1, <1>2, <1>3
<1>5. Published \subseteq {i} BY DEF PublishDraft
<1>6. Published' = {i} BY <1>2, <1>4, <1>5 DEF Published, Draft
<1> QED BY <1>2, <1>4, <1>5, <1>6 DEF Grown, PublishDraft, Draft

\* A step that leaves the releases alone.
LEMMA SameGrows ==
  ASSUME Inv, UNCHANGED releases
  PROVE  Grown /\ Published' = Published
<1>1. releases \in Seq(Release) BY DEF Inv, TypeOK
<1> QED BY <1>1 DEF Grown, Published, Draft

LEMMA GrownHolds ==
  ASSUME Grown, NEW i \in DOMAIN releases, NEW b \in Build, Holds(i, b)
  PROVE  Holds(i, b)'
  BY DEF Grown, Holds

\* The facts that do not mention the job, in a step that publishes nothing.
LEMMA QuietStep ==
  ASSUME Inv, Grown, Published' = Published, UNCHANGED tag, unseen => unseen'
  PROVE  /\ OneTag' /\ PublishedIsComplete' /\ PublishedIsBound'
         /\ \A b \in reported : tag' = {b.commit} /\ \E i \in Published' : Holds(i, b)'
<1>1. \A i \in Published : i \in DOMAIN releases /\ releases'[i] = releases[i]
  BY DEF Grown, Published
<1>2. \A b \in reported : b \in Build BY DEF Inv, TypeOK
<1>3. OneTag' BY DEF Inv, OneTag
<1>4. PublishedIsComplete'
  BY <1>1, GrownHolds DEF Inv, PublishedIsComplete
<1>5. PublishedIsBound' BY <1>1 DEF Inv, PublishedIsBound
<1>6. \A b \in reported : tag' = {b.commit} /\ \E i \in Published' : Holds(i, b)'
  BY <1>1, <1>2, GrownHolds DEF Inv, ReportedIsPublic
<1> QED BY <1>3, <1>4, <1>5, <1>6

\* What validate_release and missing_assets accept has everything.
LEMMA ValidHolds ==
  ASSUME Inv, NEW i \in DOMAIN releases, NEW b \in Build, Valid(i, b),
         MissingAssets(i) = {}
  PROVE  Holds(i, b)
<1>1. releases[i] \in Release BY DEF Inv, TypeOK
<1>2. \A u \in releases[i].assets : u \in Upload /\ u.build = b /\ u.whole = TRUE
  BY <1>1 DEF Valid, Fits, Release, Upload
<1>3. \A n \in Asset : \E u \in releases[i].assets : u.name = n
  BY DEF MissingAssets
<1>4. \A n \in Asset : [name |-> n, build |-> b, whole |-> TRUE] \in releases[i].assets
  <2> TAKE n \in Asset
  <2>1. PICK u \in releases[i].assets : u.name = n BY <1>3
  <2>2. u = [name |-> n, build |-> b, whole |-> TRUE] BY <1>2, <2>1 DEF Upload
  <2> QED BY <2>2
<1>5. releases[i].assets = [name : Asset, build : {b}, whole : {TRUE}]
  <2>1. \A u \in releases[i].assets : u \in [name : Asset, build : {b}, whole : {TRUE}]
    BY <1>2 DEF Upload
  <2>2. \A u \in [name : Asset, build : {b}, whole : {TRUE}] : u \in releases[i].assets
    <3> TAKE u \in [name : Asset, build : {b}, whole : {TRUE}]
    <3>1. u.name \in Asset /\ u = [name |-> u.name, build |-> b, whole |-> TRUE]
      OBVIOUS
    <3> QED BY <1>4, <3>1
  <2> QED BY <2>1, <2>2
<1>6. CASE Draft(i)
  BY <1>5, <1>6 DEF Valid, Holds
<1>7. CASE ~Draft(i)
  <2>1. PICK c \in Build : Holds(i, c)
    BY <1>7 DEF Inv, PublishedIsComplete, Published
  <2>2. 1 \in Asset BY ReleaseAssumption DEF Asset
  <2>3. [name |-> 1, build |-> c, whole |-> TRUE] \in releases[i].assets
    BY <2>1, <2>2 DEF Holds
  <2>4. c = b BY <1>2, <2>3
  <2> QED BY <2>1, <2>4
<1> QED BY <1>6, <1>7

----------------------------------------------------------------------------
(* The steps of the job.                                                   *)

LEMMA BeginKeeps ==
  ASSUME Inv, NEW b \in Build, Begin(b) PROVE Inv'
<1>1. Grown /\ Published' = Published BY SameGrows DEF Begin
<1>2. PICK t \in {tag, {}} :
        /\ ReadTag(t) /\ t \subseteq {b.commit}
        /\ job' = [pc |-> "find", build |-> b, tagged |-> t # {}, release |-> 0,
                   missing |-> {}]
  BY DEF Begin
<1>3. TypeOK'
  <2>1. faults' \in 0..MaxFaults
    BY <1>2, ReleaseAssumption DEF Inv, TypeOK, ReadTag, Fault
  <2>2. job' \in Job /\ job'.pc # "upload" BY <1>2 DEF Job
  <2> QED BY <2>1, <2>2 DEF Inv, TypeOK, Begin
<1>4. ReleaseKnown' BY <1>2 DEF Inv, ReleaseKnown, Begin
<1>5. Checked' BY <1>2 DEF Inv, Checked, Begin, Holds
<1>6. TagChecked' BY <1>1, <1>2 DEF Inv, TagChecked, MayPublish, Begin
<1>7. TagKept' BY <1>2 DEF TagKept, Begin
<1> QED
  BY <1>1, <1>3, <1>4, <1>5, <1>6, <1>7, QuietStep DEF Inv, Begin, ReportedIsPublic

\* Resume goes on with a release that has been found valid.
LEMMA ResumeKeeps ==
  ASSUME Inv, NEW i \in DOMAIN releases, job.pc # "idle", Valid(i, job.build),
         Resume(i), UNCHANGED <<releases, tag, flight, reported, unseen>>,
         faults' \in 0..MaxFaults
  PROVE  Inv'
<1>1. Grown /\ Published' = Published BY SameGrows
<1>2. /\ job \in Job /\ job.build \in Build /\ i \in Nat
      /\ MissingAssets(i) \subseteq Asset
  <2>1. releases \in Seq(Release) /\ job \in Job BY DEF Inv, TypeOK
  <2>2. i \in 1..Len(releases) /\ Len(releases) \in Nat BY <2>1
  <2>3. job.build \in Build BY <2>1 DEF Job
  <2>4. MissingAssets(i) \subseteq Asset BY DEF MissingAssets
  <2> QED BY <2>1, <2>2, <2>3, <2>4
<1>3. /\ job'.pc = AfterFinding(i) /\ job'.build = job.build
      /\ job'.tagged = job.tagged /\ job'.release = i
      /\ job'.missing = MissingAssets(i)
  BY <1>2 DEF Resume, ToUpload, Job
<1>4. TypeOK'
  <2>1. job' \in Job BY <1>2 DEF Resume, ToUpload, AfterFinding, Job
  <2>2. job'.pc = "upload" => job'.missing # {} /\ job'.release \in DOMAIN releases'
    BY <1>3 DEF AfterFinding
  <2> QED BY <2>1, <2>2 DEF Inv, TypeOK
<1>5. ReleaseKnown' BY <1>3 DEF Inv, ReleaseKnown
<1>6. Checked'
  <2>1. CASE MissingAssets(i) = {}
    <3>1. Holds(i, job.build) BY <1>2, <2>1, ValidHolds
    <3> QED BY <1>3, <3>1 DEF Inv, Checked, Holds
  <2>2. CASE MissingAssets(i) # {}
    BY <1>3, <2>2 DEF Inv, Checked, Holds, AfterFinding
  <2> QED BY <2>1, <2>2
<1>7. TagChecked' BY <1>1, <1>3 DEF Inv, TagChecked, MayPublish, AfterFinding
<1>8. TagKept' BY <1>3 DEF Inv, TagKept
<1> QED
  BY <1>1, <1>4, <1>5, <1>6, <1>7, <1>8, QuietStep DEF Inv, ReportedIsPublic

\* A step in which the job only moves on, with what it has.
LEMMA MoveKeeps ==
  ASSUME Inv, NEW pc, Goto(pc), UNCHANGED <<releases, tag, flight>>,
         faults' \in 0..MaxFaults, unseen' \in BOOLEAN, unseen => unseen',
         pc \in {"idle", "create", "check", "patch", "read back"},
         pc \in {"check", "patch", "read back"}
           => job.release \in DOMAIN releases /\ Holds(job.release, job.build),
         pc = "patch" => tag \subseteq {job.build.commit} \/ unseen',
         pc # "idle" => job.pc # "idle",
         reported' \subseteq Build,
         \A b \in reported' \ reported :
           tag = {b.commit} /\ \E i \in Published : Holds(i, b)
  PROVE  Inv'
<1>1. Grown /\ Published' = Published BY SameGrows
<1>2. job \in Job BY DEF Inv, TypeOK
<1>3. /\ job' \in Job /\ job'.pc = pc /\ job'.build = job.build
      /\ job'.tagged = job.tagged /\ job'.release = job.release
  BY <1>2 DEF Goto, Job
<1>4. TypeOK' BY <1>3 DEF Inv, TypeOK
<1>5. ReleaseKnown' BY <1>3 DEF Inv, ReleaseKnown
<1>6. Checked' BY <1>3 DEF Inv, Checked, Holds
<1>7. TagChecked' BY <1>1, <1>3 DEF Inv, TagChecked, MayPublish
<1>8. TagKept' BY <1>3 DEF Inv, TagKept
<1>9. /\ OneTag' /\ PublishedIsComplete' /\ PublishedIsBound'
      /\ \A b \in reported : tag' = {b.commit} /\ \E i \in Published' : Holds(i, b)'
  BY <1>1, QuietStep
<1>10. ReportedIsPublic'
  BY <1>1, <1>9 DEF ReportedIsPublic, Holds
<1> QED BY <1>4, <1>5, <1>6, <1>7, <1>8, <1>9, <1>10 DEF Inv

LEMMA FaultsTyped ==
  ASSUME Inv, Fault \/ UNCHANGED faults
  PROVE  faults' \in 0..MaxFaults
  BY ReleaseAssumption DEF Inv, TypeOK, Fault

LEMMA FindRange ==
  ASSUME Inv, NEW i, Find(i)
  PROVE  i # 0 => i \in DOMAIN releases
  BY DEF Find, Published

LEMMA FindReleaseKeeps == ASSUME Inv, FindRelease PROVE Inv'
<1>1. PICK i \in 0..Len(releases) :
        /\ Find(i)
        /\ \/ i = 0 /\ Goto("create") /\ UNCHANGED reported
           \/ i # 0 /\ ~Valid(i, job.build) /\ Fails /\ UNCHANGED reported
           \/ /\ i # 0 /\ Valid(i, job.build) /\ Draft(i)
              /\ Resume(i) /\ UNCHANGED reported
           \/ /\ i # 0 /\ Valid(i, job.build) /\ ~Draft(i)
              /\ Fails
              /\ reported' = IF AlreadyPublished(i)
                             THEN reported \cup {job.build} ELSE reported
  BY DEF FindRelease
<1>2. faults' \in 0..MaxFaults BY <1>1, FaultsTyped DEF Find
<1>3. job.build \in Build /\ reported \subseteq Build /\ job.pc # "idle"
  BY DEF Inv, TypeOK, Job, FindRelease
<1>4. i # 0 => i \in DOMAIN releases BY <1>1, FindRange
<1>5. UNCHANGED <<releases, tag, flight, unseen>> /\ unseen \in BOOLEAN
  BY DEF FindRelease, Inv, TypeOK
<1>6. CASE i = 0 /\ Goto("create") /\ UNCHANGED reported
  BY <1>2, <1>3, <1>5, <1>6, MoveKeeps
<1>7. CASE Fails /\ UNCHANGED reported
  BY <1>2, <1>3, <1>5, <1>7, MoveKeeps DEF Fails
<1>8. CASE i # 0 /\ Valid(i, job.build) /\ Resume(i) /\ UNCHANGED reported
  BY <1>2, <1>3, <1>4, <1>5, <1>8, ResumeKeeps
<1>9. CASE /\ i # 0 /\ Valid(i, job.build) /\ ~Draft(i) /\ Fails
           /\ reported' = IF AlreadyPublished(i)
                          THEN reported \cup {job.build} ELSE reported
  <2>1. CASE AlreadyPublished(i)
    <3>1. Holds(i, job.build) /\ i \in Published
      BY <1>3, <1>4, <1>9, <2>1, ValidHolds DEF AlreadyPublished, Published
    <3>2. tag = {job.build.commit}
      BY <1>3, <2>1 DEF AlreadyPublished, Inv, TagKept
    <3>3. reported' = reported \cup {job.build} BY <1>9, <2>1
    <3> QED BY <1>2, <1>3, <1>5, <1>9, <3>1, <3>2, <3>3, MoveKeeps DEF Fails
  <2>2. CASE ~AlreadyPublished(i)
    BY <1>2, <1>3, <1>5, <1>9, <2>2, MoveKeeps DEF Fails
  <2> QED BY <2>1, <2>2
<1> QED BY <1>1, <1>6, <1>7, <1>8, <1>9

LEMMA FindAgainKeeps == ASSUME Inv, FindAgain PROVE Inv'
<1>1. PICK i \in 0..Len(releases) :
        /\ Find(i)
        /\ IF i # 0 /\ Draft(i) /\ Valid(i, job.build) THEN Resume(i) ELSE Fails
  BY DEF FindAgain
<1>2. /\ faults' \in 0..MaxFaults /\ (i # 0 => i \in DOMAIN releases)
      /\ reported \subseteq Build /\ unseen \in BOOLEAN
  BY <1>1, FaultsTyped, FindRange DEF Find, Inv, TypeOK
<1>3. CASE i # 0 /\ Valid(i, job.build) /\ Resume(i)
  BY <1>2, <1>3, ResumeKeeps DEF FindAgain
<1>4. CASE Fails
  BY <1>2, <1>4, MoveKeeps DEF Fails, FindAgain
<1> QED BY <1>1, <1>3, <1>4

LEMMA VerifyKeeps == ASSUME Inv, Verify PROVE Inv'
<1>1. /\ faults' \in 0..MaxFaults /\ reported \subseteq Build /\ unseen \in BOOLEAN
      /\ job.release \in DOMAIN releases /\ job.build \in Build /\ job.pc = "verify"
  BY DEF Verify, Inv, TypeOK, ReleaseKnown, Job
<1>2. UNCHANGED <<releases, tag, flight, reported, unseen>> BY DEF Verify
<1>3. CASE Valid(job.release, job.build) /\ MissingAssets(job.release) = {}
  <2>1. Holds(job.release, job.build) BY <1>1, <1>3, ValidHolds
  <2>2. Goto("check") BY <1>3 DEF Verify
  <2> QED BY <1>1, <1>2, <2>1, <2>2, MoveKeeps
<1>4. CASE ~(Valid(job.release, job.build) /\ MissingAssets(job.release) = {})
  <2>1. Goto("idle") BY <1>4 DEF Verify, Fails
  <2> QED BY <1>1, <1>2, <2>1, MoveKeeps
<1> QED BY <1>3, <1>4

LEMMA CheckTagKeeps == ASSUME Inv, CheckTag PROVE Inv'
<1>1. PICK t \in {tag, {}} :
        /\ ReadTag(t) /\ unseen' = (unseen \/ t # tag)
        /\ IF t \subseteq {job.build.commit} THEN Goto("patch") ELSE Fails
  BY DEF CheckTag
<1>2. /\ faults' \in 0..MaxFaults /\ reported \subseteq Build /\ unseen' \in BOOLEAN
      /\ (unseen => unseen')
      /\ job.release \in DOMAIN releases /\ Holds(job.release, job.build)
      /\ job.pc = "check"
  BY <1>1, FaultsTyped DEF CheckTag, ReadTag, Inv, TypeOK, ReleaseKnown, Checked
<1>3. UNCHANGED <<releases, tag, flight, reported>> BY DEF CheckTag
<1>4. CASE t \subseteq {job.build.commit}
  <2>1. tag \subseteq {job.build.commit} \/ unseen' BY <1>1, <1>4
  <2>2. Goto("patch") BY <1>1, <1>4
  <2> QED BY <1>2, <1>3, <2>1, <2>2, MoveKeeps
<1>5. CASE ~(t \subseteq {job.build.commit})
  <2>1. Goto("idle") BY <1>1, <1>5 DEF Fails
  <2> QED BY <1>2, <1>3, <2>1, MoveKeeps
<1> QED BY <1>4, <1>5

LEMMA ReadBackKeeps == ASSUME Inv, ReadBack PROVE Inv'
<1>1. PICK t \in {tag, {}} :
        /\ ReadTag(t)
        /\ reported' = IF ReadsBack(job.release, job.build, t)
                       THEN reported \cup {job.build} ELSE reported
  BY DEF ReadBack
<1>2. /\ faults' \in 0..MaxFaults /\ reported \subseteq Build /\ unseen \in BOOLEAN
      /\ job.release \in DOMAIN releases /\ Holds(job.release, job.build)
      /\ job.build \in Build
  BY <1>1, FaultsTyped DEF ReadBack, ReadTag, Inv, TypeOK, ReleaseKnown, Checked, Job
<1>3. UNCHANGED <<releases, tag, flight, unseen>> /\ Goto("idle") BY DEF ReadBack
<1>4. CASE ReadsBack(job.release, job.build, t)
  <2>1. tag = {job.build.commit} /\ job.release \in Published
    BY <1>1, <1>2, <1>4 DEF ReadsBack, Published
  <2>2. reported' = reported \cup {job.build} BY <1>1, <1>4
  <2> QED BY <1>2, <1>3, <2>1, <2>2, MoveKeeps
<1>5. CASE ~ReadsBack(job.release, job.build, t)
  <2>1. reported' = reported BY <1>1, <1>5
  <2> QED BY <1>2, <1>3, <2>1, MoveKeeps
<1> QED BY <1>4, <1>5

\* A step that creates or fills a draft, or does nothing, by a job or late.
LEMMA GrowKeeps ==
  ASSUME Inv, TypeOK', Grown, Published' = Published,
         UNCHANGED <<tag, reported, unseen>>, flight' \subseteq flight,
         \/ UNCHANGED job
         \/ /\ job.pc # "idle" /\ job'.build = job.build /\ job'.tagged = job.tagged
            /\ job'.pc \in {"upload", "verify", "find again"}
            /\ job'.pc # "find again" => job'.release \in DOMAIN releases'
  PROVE  Inv'
<1>1. /\ OneTag' /\ PublishedIsComplete' /\ PublishedIsBound' /\ ReportedIsPublic'
  BY QuietStep DEF ReportedIsPublic
<1>2. ReleaseKnown' BY DEF Inv, ReleaseKnown, Grown
<1>3. Checked'
  <2>1. job.build \in Build /\ \A r \in flight : r.build \in Build
    BY DEF Inv, TypeOK, Job, Request
  <2>3. \A r \in flight : r.kind = "patch" =>
          r.release \in DOMAIN releases /\ r.build \in Build /\ Holds(r.release, r.build)
    BY <2>1 DEF Inv, ReleaseKnown, Checked
  <2>4. \A r \in flight : r.kind = "patch" =>
          /\ releases'[r.release].target = r.build.commit
          /\ releases'[r.release].assets = [name : Asset, build : {r.build}, whole : {TRUE}]
    BY <2>3 DEF Grown, Holds
  <2>5. job.pc \in {"check", "patch", "read back"} =>
          /\ releases'[job.release].target = job.build.commit
          /\ releases'[job.release].assets = [name : Asset, build : {job.build}, whole : {TRUE}]
    BY <2>1 DEF Inv, ReleaseKnown, Checked, Holds, Grown
  <2> QED BY <2>4, <2>5 DEF Checked, Holds
<1>4. TagChecked'
  <2> SUFFICES ASSUME NEW i \in DOMAIN releases', NEW b \in Build, MayPublish(i, b)'
               PROVE  tag \subseteq {b.commit} \/ unseen \/ ~(Published \subseteq {i})
    BY DEF TagChecked
  <2>1. MayPublish(i, b) BY DEF MayPublish
  <2>2. i \in DOMAIN releases BY <2>1 DEF Inv, ReleaseKnown, MayPublish
  <2> QED BY <2>1, <2>2 DEF Inv, TagChecked
<1>5. TagKept' BY DEF Inv, TagKept
<1> QED BY <1>1, <1>2, <1>3, <1>4, <1>5 DEF Inv

LEMMA JobTyped ==
  ASSUME Inv
  PROVE  /\ job \in Job /\ job.build \in Build /\ job.release \in Nat
         /\ job.missing \subseteq Asset /\ releases \in Seq(Release)
         /\ DOMAIN releases = 1..Len(releases) /\ Len(releases) \in Nat
<1>1. job \in Job /\ releases \in Seq(Release) BY DEF Inv, TypeOK
<1>2. /\ job.build \in Build /\ job.release \in Nat /\ job.missing \subseteq Asset
  BY <1>1 DEF Job
<1>3. DOMAIN releases = 1..Len(releases) /\ Len(releases) \in Nat BY <1>1
<1> QED BY <1>1, <1>2, <1>3

LEMMA CreateKeeps == ASSUME Inv, Create PROVE Inv'
<1>1. faults' \in 0..MaxFaults BY FaultsTyped DEF Create
<1>2. /\ job \in Job /\ job.build \in Build /\ job.pc = "create"
      /\ UNCHANGED <<flight, reported, unseen>>
  BY JobTyped DEF Create
<1>3. CASE /\ CreateDraft(job.build)
           /\ job' = [job EXCEPT !.pc = "upload", !.release = Len(releases'),
                                 !.missing = Asset]
  <2>1. /\ Grown /\ Published' = Published /\ UNCHANGED tag
        /\ Len(releases') \in DOMAIN releases'
    BY <1>2, <1>3, CreateGrows
  <2>2. releases' \in Seq(Release) /\ Len(releases') \in Nat BY <2>1 DEF Grown
  <2>3. /\ job' \in Job /\ job'.pc = "upload" /\ job'.release = Len(releases')
        /\ job'.missing = Asset /\ job'.build = job.build /\ job'.tagged = job.tagged
    BY <1>2, <1>3, <2>2 DEF Job
  <2>4. Asset # {} BY ReleaseAssumption DEF Asset
  <2>5. TypeOK' BY <1>1, <1>2, <2>1, <2>2, <2>3, <2>4 DEF Inv, TypeOK
  <2> QED BY <1>2, <2>1, <2>3, <2>5, GrowKeeps
<1>4. CASE (CreateDraft(job.build) \/ UNCHANGED <<releases, tag>>) /\ Goto("find again")
  <2>1. Grown /\ Published' = Published /\ UNCHANGED tag
    BY <1>2, <1>4, CreateGrows, SameGrows
  <2>2. /\ job' \in Job /\ job'.pc = "find again"
        /\ job'.build = job.build /\ job'.tagged = job.tagged
    BY <1>2, <1>4 DEF Goto, Job
  <2>3. TypeOK' BY <1>1, <1>2, <2>1, <2>2 DEF Inv, TypeOK, Grown
  <2> QED BY <1>2, <2>1, <2>2, <2>3, GrowKeeps
<1> QED BY <1>3, <1>4 DEF Create

LEMMA UploadNextKeeps == ASSUME Inv, UploadNext PROVE Inv'
<1>1. faults' \in 0..MaxFaults BY FaultsTyped DEF UploadNext
<1>2. /\ job \in Job /\ job.build \in Build /\ job.pc = "upload"
      /\ job.release \in DOMAIN releases /\ job.missing \subseteq Asset
      /\ UNCHANGED <<flight, reported, unseen>>
  BY JobTyped DEF UploadNext, Inv, ReleaseKnown
<1>3. PICK name \in First(job.missing) :
        \/ /\ UploadAsset(job.release, name, job.build, TRUE)
           /\ job' = [job EXCEPT !.missing = job.missing \ {name},
                                 !.pc = IF job.missing \ {name} = {} THEN AfterUpload ELSE @]
        \/ /\ \/ \E whole \in BOOLEAN :
                   UploadAsset(job.release, name, job.build, whole)
              \/ UNCHANGED <<releases, tag>>
           /\ job' = [job EXCEPT !.missing = {}, !.pc = AfterUpload]
  BY DEF UploadNext
<1>4. name \in Asset BY <1>2, <1>3 DEF First
<1>5. Grown /\ Published' = Published /\ UNCHANGED tag
  <2>1. CASE UNCHANGED <<releases, tag>> BY <2>1, SameGrows
  <2>2. CASE \E whole \in BOOLEAN : UploadAsset(job.release, name, job.build, whole)
    BY <1>2, <1>4, <2>2, UploadGrows
  <2> QED BY <1>3, <2>1, <2>2
<1>6. /\ job' \in Job /\ job'.pc \in {"upload", "verify"}
      /\ job'.pc = "upload" => job'.missing # {}
      /\ job'.build = job.build /\ job'.tagged = job.tagged
      /\ job'.release = job.release
  <2>1. CASE job' = [job EXCEPT !.missing = job.missing \ {name},
                                !.pc = IF job.missing \ {name} = {} THEN AfterUpload ELSE @]
    BY <1>2, <2>1 DEF Job, AfterUpload
  <2>2. CASE job' = [job EXCEPT !.missing = {}, !.pc = AfterUpload]
    BY <1>2, <2>2 DEF Job, AfterUpload
  <2> QED BY <1>3, <2>1, <2>2
<1>7. job'.release \in DOMAIN releases' BY <1>2, <1>5, <1>6 DEF Grown
<1>8. TypeOK' BY <1>1, <1>2, <1>5, <1>6, <1>7 DEF Inv, TypeOK, Grown
<1> QED BY <1>2, <1>5, <1>6, <1>7, <1>8, GrowKeeps

\* Whoever may publish a release that is complete publishes it.
LEMMA PublishKeeps ==
  ASSUME Inv, TypeOK', NEW i \in DOMAIN releases, NEW b \in Build,
         MayPublish(i, b), Holds(i, b), PublishDraft(i),
         UNCHANGED <<reported, unseen>>, flight' \subseteq flight,
         \/ UNCHANGED job
         \/ job.pc = "patch" /\ Goto("read back")
  PROVE  Inv'
<1>1. /\ Grown /\ Published \subseteq {i} /\ Published' = {i}
      /\ DOMAIN releases' = DOMAIN releases
      /\ tag' = IF tag = {} THEN {releases[i].target} ELSE tag
  BY PublishGrows
<1>2. releases'[i].target = b.commit /\ releases[i].target = b.commit
  BY <1>1 DEF Grown, Holds
<1>3. /\ job \in Job /\ job' \in Job
      /\ job' = job \/ (job.pc = "patch" /\ job'.pc = "read back")
      /\ job'.build = job.build /\ job'.tagged = job.tagged
      /\ job'.release = job.release
  BY JobTyped DEF Goto, Job, TypeOK
<1>4. tag' = {b.commit} \/ unseen
  <2>1. tag \subseteq {b.commit} \/ unseen BY <1>1 DEF Inv, TagChecked
  <2> QED BY <1>1, <1>2, <2>1
<1>5. tag # {} => tag' = tag BY <1>1
<1>6. OneTag' BY <1>1 DEF Inv, OneTag
<1>7. PublishedIsComplete'
  BY <1>1, GrownHolds DEF PublishedIsComplete
<1>8. PublishedIsBound' BY <1>1, <1>2, <1>4 DEF PublishedIsBound
<1>9. ReportedIsPublic'
  <2> SUFFICES ASSUME NEW c \in reported
               PROVE  tag' = {c.commit} /\ \E j \in Published' : Holds(j, c)'
    BY DEF ReportedIsPublic
  <2>1. c \in Build BY DEF Inv, TypeOK
  <2>2. tag = {c.commit} /\ \E j \in Published : Holds(j, c)
    BY DEF Inv, ReportedIsPublic
  <2>3. Holds(i, c) BY <1>1, <2>2
  <2> QED BY <1>1, <1>5, <2>1, <2>2, <2>3, GrownHolds
<1>10. ReleaseKnown' BY <1>1, <1>3 DEF Inv, ReleaseKnown
<1>11. Checked'
  <2>1. job.build \in Build /\ \A r \in flight : r.build \in Build
    BY JobTyped DEF Inv, TypeOK, Request
  <2>2. \A r \in flight : r.kind = "patch" =>
          /\ releases'[r.release].target = r.build.commit
          /\ releases'[r.release].assets = [name : Asset, build : {r.build}, whole : {TRUE}]
    <3> SUFFICES ASSUME NEW r \in flight, r.kind = "patch"
                 PROVE  /\ releases'[r.release].target = r.build.commit
                        /\ releases'[r.release].assets
                             = [name : Asset, build : {r.build}, whole : {TRUE}]
      OBVIOUS
    <3>1. r.release \in DOMAIN releases /\ Holds(r.release, r.build)
      BY DEF Inv, ReleaseKnown, Checked
    <3> QED BY <1>1, <2>1, <3>1 DEF Grown, Holds
  <2>3. job.pc \in {"check", "patch", "read back"} =>
          /\ releases'[job.release].target = job.build.commit
          /\ releases'[job.release].assets = [name : Asset, build : {job.build}, whole : {TRUE}]
    BY <1>1, <2>1 DEF Inv, ReleaseKnown, Checked, Holds, Grown
  <2> QED BY <1>3, <2>2, <2>3 DEF Checked, Holds
<1>12. TagChecked'
  <2> SUFFICES ASSUME NEW j \in DOMAIN releases', NEW c \in Build, MayPublish(j, c)'
               PROVE  tag' \subseteq {c.commit} \/ unseen \/ ~(Published' \subseteq {j})
    BY DEF TagChecked
  <2>1. MayPublish(j, c) BY <1>3 DEF MayPublish
  <2>2. CASE j = i
    <3>1. Holds(i, c)
      BY <2>1, <2>2 DEF MayPublish, Inv, Checked
    <3> QED BY <1>2, <1>4, <3>1 DEF Holds
  <2>3. CASE j # i BY <1>1, <2>3
  <2> QED BY <2>2, <2>3
<1>13. TagKept' BY <1>3, <1>5 DEF Inv, TagKept
<1> QED BY <1>6, <1>7, <1>8, <1>9, <1>10, <1>11, <1>12, <1>13 DEF Inv

LEMMA TypedStep ==
  ASSUME Inv, Grown, tag' \subseteq Commit, flight' \subseteq Request,
         UNCHANGED <<reported, unseen>>, faults' \in 0..MaxFaults,
         UNCHANGED job \/ (\E pc \in {"idle", "read back"} : Goto(pc))
  PROVE  TypeOK'
<1>1. job' \in Job /\ (job'.pc = "upload" => job' = job)
  BY JobTyped DEF Goto, Job
<1> QED BY <1>1 DEF Inv, TypeOK, Grown

LEMMA PublishTyped ==
  ASSUME Inv, NEW i \in DOMAIN releases, PublishDraft(i)
  PROVE  tag' \subseteq Commit
<1>1. releases[i] \in Release BY JobTyped
<1>2. releases[i].target \in Commit BY <1>1 DEF Release
<1> QED BY <1>2 DEF PublishDraft, Inv, TypeOK

LEMMA PatchKeeps == ASSUME Inv, Patch PROVE Inv'
<1>1. /\ faults' \in 0..MaxFaults /\ reported \subseteq Build /\ unseen \in BOOLEAN
      /\ flight \subseteq Request
      /\ job.build \in Build /\ job.release \in DOMAIN releases
      /\ Holds(job.release, job.build) /\ job.pc = "patch"
  BY FaultsTyped, JobTyped DEF Patch, Inv, TypeOK, ReleaseKnown, Checked
<1>2. UNCHANGED <<flight, reported, unseen>> /\ Goto("read back") BY DEF Patch
<1>3. CASE UNCHANGED <<releases, tag>>
  BY <1>1, <1>2, <1>3, MoveKeeps
<1>4. CASE PublishDraft(job.release)
  <2>1. Grown BY <1>1, <1>4, PublishGrows
  <2>2. tag' \subseteq Commit BY <1>1, <1>4, PublishTyped
  <2>3. TypeOK' BY <1>1, <1>2, <2>1, <2>2, TypedStep
  <2>4. MayPublish(job.release, job.build) BY <1>1 DEF MayPublish
  <2> QED BY <1>1, <1>2, <1>4, <2>3, <2>4, PublishKeeps
<1> QED BY <1>3, <1>4 DEF Patch

LEMMA PendingKnown ==
  ASSUME Inv, NEW r \in Pending
  PROVE  /\ r \in Request
         /\ r.kind # "create" => r.release \in DOMAIN releases
         /\ r.kind = "patch" => job.pc = "patch" /\ r.release = job.release
                                  /\ r.build = job.build
<1> DEFINE request(kind, i, name) ==
             [kind |-> kind, release |-> i, name |-> name, build |-> job.build]
<1>1. 1 \in Asset BY ReleaseAssumption DEF Asset
<1>2. \/ job.pc = "create" /\ r = request("create", 0, 1)
      \/ job.pc = "upload" /\ \E n \in First(job.missing) : r = request("upload", job.release, n)
      \/ job.pc = "patch" /\ r = request("patch", job.release, 1)
  BY DEF Pending
<1>3. CASE job.pc = "create" /\ r = request("create", 0, 1)
  BY <1>1, <1>3, JobTyped DEF Request
<1>4. CASE job.pc = "upload" /\ \E n \in First(job.missing) : r = request("upload", job.release, n)
  <2>1. PICK n \in First(job.missing) : r = request("upload", job.release, n) BY <1>4
  <2>2. n \in Asset /\ job.release \in Nat /\ job.build \in Build
    BY JobTyped DEF First
  <2>3. job.release \in DOMAIN releases BY <1>4 DEF Inv, ReleaseKnown
  <2> QED BY <2>1, <2>2, <2>3 DEF Request
<1>5. CASE job.pc = "patch" /\ r = request("patch", job.release, 1)
  <2>1. job.release \in DOMAIN releases BY <1>5 DEF Inv, ReleaseKnown
  <2> QED BY <1>1, <1>5, <2>1, JobTyped DEF Request
<1> QED BY <1>2, <1>3, <1>4, <1>5

LEMMA KilledKeeps == ASSUME Inv, Killed PROVE Inv'
<1>1. Grown /\ Published' = Published BY SameGrows DEF Killed
<1>2. faults' \in 0..MaxFaults BY FaultsTyped DEF Killed
<1>3. PICK sent \in SUBSET Pending : flight' = flight \cup sent BY DEF Killed
<1>4. flight' \subseteq Request BY <1>3, PendingKnown DEF Inv, TypeOK
<1>5. job'.pc = "idle" BY JobTyped DEF Killed, Fails, Goto, Job
<1>6. tag \subseteq Commit BY DEF Inv, TypeOK
<1>7. TypeOK'
  BY <1>1, <1>2, <1>4, <1>6, TypedStep DEF Killed, Fails
<1>8. ReleaseKnown' BY <1>3, <1>5, PendingKnown DEF Inv, ReleaseKnown, Killed
<1>9. Checked'
  <2> SUFFICES ASSUME NEW r \in flight', r.kind = "patch"
               PROVE  Holds(r.release, r.build)
    BY <1>5 DEF Checked, Killed, Holds
  <2>1. CASE r \in flight BY <2>1 DEF Inv, Checked
  <2>2. CASE r \in Pending BY <2>2, PendingKnown DEF Inv, Checked
  <2> QED BY <1>3, <2>1, <2>2
<1>10. TagChecked'
  <2> SUFFICES ASSUME NEW i \in DOMAIN releases, NEW b \in Build, MayPublish(i, b)'
               PROVE  MayPublish(i, b)
    BY <1>1 DEF Inv, TagChecked, Killed
  <2> QED BY <1>3, <1>5, PendingKnown DEF MayPublish
<1>11. TagKept' BY <1>5 DEF TagKept
<1> QED
  BY <1>1, <1>7, <1>8, <1>9, <1>10, <1>11, QuietStep
  DEF Inv, Killed, ReportedIsPublic

LEMMA ArrivesKeeps == ASSUME Inv, NEW r \in flight, Arrives(r) PROVE Inv'
<1>1. /\ r \in Request /\ flight' \subseteq flight /\ flight \subseteq Request
      /\ UNCHANGED <<job, reported, unseen, faults>> /\ faults \in 0..MaxFaults
      /\ tag \subseteq Commit
  BY DEF Arrives, Inv, TypeOK
<1>2. r.build \in Build /\ r.name \in Asset BY <1>1 DEF Request
<1>3. r.kind # "create" => r.release \in DOMAIN releases
  BY DEF Inv, ReleaseKnown
<1>4. CASE Grown /\ Published' = Published /\ UNCHANGED tag
  <2>1. TypeOK' BY <1>1, <1>4, TypedStep
  <2> QED BY <1>1, <1>4, <2>1, GrowKeeps
<1>5. CASE UNCHANGED <<releases, tag>> BY <1>4, <1>5, SameGrows
<1>6. CASE r.kind = "create" /\ CreateDraft(r.build)
  BY <1>2, <1>4, <1>6, CreateGrows
<1>7. CASE r.kind = "upload" /\ \E whole \in BOOLEAN :
                                  UploadAsset(r.release, r.name, r.build, whole)
  BY <1>2, <1>3, <1>4, <1>7, UploadGrows
<1>8. CASE r.kind = "patch" /\ PublishDraft(r.release)
  <2>1. r.release \in DOMAIN releases BY <1>3, <1>8
  <2>2. MayPublish(r.release, r.build) /\ Holds(r.release, r.build)
    BY <1>8 DEF MayPublish, Inv, Checked
  <2>3. Grown BY <1>8, <2>1, PublishGrows
  <2>4. tag' \subseteq Commit BY <1>8, <2>1, PublishTyped
  <2>5. TypeOK' BY <1>1, <2>3, <2>4, TypedStep
  <2> QED BY <1>1, <1>2, <1>8, <2>1, <2>2, <2>5, PublishKeeps
<1> QED BY <1>5, <1>6, <1>7, <1>8 DEF Arrives, Effect

LEMMA PushTagKeeps == ASSUME Inv, NEW c \in Commit, PushTag(c) PROVE Inv'
<1>1. /\ tag = {} /\ tag' = {c}
      /\ UNCHANGED <<releases, flight, job, reported, faults>>
      /\ unseen' = (unseen \/ job.pc = "patch" \/ \E r \in flight : r.kind = "patch")
      /\ unseen \in BOOLEAN
  BY DEF PushTag, Inv, TypeOK
<1>2. Published' = Published BY <1>1 DEF Published, Draft
<1>3. TypeOK' BY <1>1 DEF Inv, TypeOK
<1>4. ReleaseKnown' /\ Checked' /\ OneTag' /\ TagKept'
  BY <1>1 DEF Inv, ReleaseKnown, Checked, Holds, OneTag, TagKept
<1>5. TagChecked' BY <1>1 DEF TagChecked, MayPublish
<1>6. PublishedIsComplete' BY <1>1, <1>2 DEF Inv, PublishedIsComplete, Holds
<1>7. PublishedIsBound' BY <1>1, <1>2 DEF Inv, PublishedIsBound
<1>8. ReportedIsPublic' BY <1>1 DEF Inv, ReportedIsPublic
<1> QED BY <1>3, <1>4, <1>5, <1>6, <1>7, <1>8 DEF Inv

----------------------------------------------------------------------------
(* The theorems.                                                           *)

LEMMA InitHolds == Init => Inv
<1> SUFFICES ASSUME Init PROVE Inv OBVIOUS
<1>1. /\ releases = <<>> /\ flight = {} /\ reported = {} /\ unseen = FALSE
      /\ tag \in {{}} \cup {{c} : c \in Commit} /\ faults = 0
  BY DEF Init
<1>2. TypeOK /\ OneTag /\ job.pc = "idle"
  <2>1. \E b \in Build : job = [pc |-> "idle", build |-> b, tagged |-> FALSE,
                               release |-> 0, missing |-> {}]
    BY DEF Init
  <2>2. job \in Job /\ job.pc = "idle" BY <2>1 DEF Job
  <2>3. tag \subseteq Commit /\ \A c, d \in tag : c = d BY <1>1
  <2>4. <<>> \in Seq(Release) OBVIOUS
  <2>5. 0 \in 0..MaxFaults BY ReleaseAssumption
  <2> QED BY <1>1, <2>2, <2>3, <2>4, <2>5 DEF TypeOK, OneTag
<1>3. Published = {} BY <1>1 DEF Published
<1> QED
  BY <1>1, <1>2, <1>3
  DEF Inv, ReleaseKnown, Checked, OneTag, TagChecked, MayPublish, TagKept,
      PublishedIsComplete, PublishedIsBound, ReportedIsPublic

LEMMA InvInductive == Inv /\ [Next]_vars => Inv'
<1> SUFFICES ASSUME Inv, [Next]_vars PROVE Inv' OBVIOUS
<1>1. CASE UNCHANGED vars
  <2>1. UNCHANGED <<releases, tag, flight, job, reported, unseen, faults>>
    BY <1>1 DEF vars
  <2>2. Grown /\ Published' = Published BY <2>1, SameGrows
  <2>3. TypeOK' BY <2>1 DEF Inv, TypeOK
  <2> QED BY <2>1, <2>2, <2>3, GrowKeeps
<1>2. ASSUME NEW b \in Build, Begin(b) PROVE Inv' BY <1>2, BeginKeeps
<1>3. CASE JobStep
  BY <1>3, FindReleaseKeeps, CreateKeeps, FindAgainKeeps, UploadNextKeeps,
     VerifyKeeps, CheckTagKeeps, PatchKeeps, ReadBackKeeps DEF JobStep
<1>4. CASE Killed BY <1>4, KilledKeeps
<1>5. ASSUME NEW r \in flight, Arrives(r) PROVE Inv' BY <1>5, ArrivesKeeps
<1>6. ASSUME NEW c \in Commit, PushTag(c) PROVE Inv' BY <1>6, PushTagKeeps
<1> QED BY <1>1, <1>2, <1>3, <1>4, <1>5, <1>6 DEF Next

\* The invariant, for every number of commits, packagings, assets and faults.
THEOREM ReleaseInvariant == SafetySpec => []Inv
  BY InitHolds, InvInductive, PTL DEF SafetySpec

\* A public release has every asset of one build, whatever was killed, lost or
\* late (publish_native_release).
THEOREM CompleteReleases == SafetySpec => []PublishedIsComplete
<1>1. Inv => PublishedIsComplete BY DEF Inv
<1> QED BY <1>1, ReleaseInvariant, PTL

\* Its tag is its commit, unless the tag came when nobody looked any more.
THEOREM BoundReleases == SafetySpec => []PublishedIsBound
<1>1. Inv => PublishedIsBound BY DEF Inv
<1> QED BY <1>1, ReleaseInvariant, PTL

\* What a job reports is public, complete and under its tag.
THEOREM HonestReports == SafetySpec => []ReportedIsPublic
<1>1. Inv => ReportedIsPublic BY DEF Inv
<1> QED BY <1>1, ReleaseInvariant, PTL

\* No job and no late request changes what is public.
THEOREM PublicStaysPublic == SafetySpec => PublishedIsKept
<1>1. Inv /\ [Next]_vars => [\A i \in Published : releases'[i] = releases[i]]_vars
  <2> SUFFICES ASSUME Inv, Next PROVE \A i \in Published : releases'[i] = releases[i]
    OBVIOUS
  <2>1. CASE UNCHANGED releases BY <2>1
  <2>2. CASE Grown BY <2>2 DEF Grown, Published
  <2>3. CASE Create BY <2>1, <2>2, <2>3, JobTyped, CreateGrows DEF Create
  <2>4. CASE UploadNext
    <3>1. PICK name \in First(job.missing) :
            \/ UNCHANGED releases
            \/ \E whole \in BOOLEAN : UploadAsset(job.release, name, job.build, whole)
      BY <2>4 DEF UploadNext
    <3>2. name \in Asset /\ job.release \in DOMAIN releases /\ job.build \in Build
      BY <2>4, JobTyped DEF First, UploadNext, Inv, ReleaseKnown
    <3> QED BY <2>1, <2>2, <3>1, <3>2, UploadGrows
  <2>5. CASE Patch
    <3>1. job.release \in DOMAIN releases BY <2>5 DEF Patch, Inv, ReleaseKnown
    <3>2. UNCHANGED releases \/ PublishDraft(job.release) BY <2>5 DEF Patch
    <3> QED BY <2>1, <2>2, <3>1, <3>2, PublishGrows
  <2>6. ASSUME NEW r \in flight, Arrives(r) PROVE Grown \/ UNCHANGED releases
    <3>1. r.build \in Build /\ r.name \in Asset BY DEF Inv, TypeOK, Request
    <3>2. r.kind # "create" => r.release \in DOMAIN releases BY DEF Inv, ReleaseKnown
    <3>3. CASE r.kind = "create" /\ CreateDraft(r.build) BY <3>1, <3>3, CreateGrows
    <3>4. CASE r.kind = "upload" /\ \E whole \in BOOLEAN :
                                      UploadAsset(r.release, r.name, r.build, whole)
      BY <3>1, <3>2, <3>4, UploadGrows
    <3>5. CASE r.kind = "patch" /\ PublishDraft(r.release)
      BY <3>2, <3>5, PublishGrows
    <3> QED BY <2>6, <3>3, <3>4, <3>5 DEF Arrives, Effect
  <2> QED
    BY <2>1, <2>2, <2>3, <2>4, <2>5, <2>6
    DEF Next, JobStep, Begin, FindRelease, FindAgain, Verify, CheckTag, ReadBack,
        Killed, PushTag
<1> QED BY <1>1, ReleaseInvariant, PTL DEF SafetySpec, PublishedIsKept

=============================================================================

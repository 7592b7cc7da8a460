---------------------------- MODULE NativeRelease ----------------------------
(***************************************************************************)
(* publish_native_release                                                  *)
(* (src/tools/runtime/dispatch/agent-canon/src/native_release.rs): the job *)
(* that publishes the packages of one source commit as the release of one  *)
(* tag.  It finds or creates a draft, uploads the assets that it lacks,    *)
(* checks them, and makes the draft public, which creates the tag if there *)
(* is none.  A job never deletes or replaces anything: a failed one is run *)
(* again.  The workflow runs the jobs of one tag one after the other.      *)
(*                                                                         *)
(* A build is a set of packages: a commit, and which of the packagings of  *)
(* this commit it is, because two of them need not have the same bytes.    *)
(* Two commits may claim one tag.                                          *)
(*                                                                         *)
(* Covered: jobs killed anywhere, requests whose answer is lost, requests  *)
(* that take effect when their job is dead, uploads that are cut off,      *)
(* lists and tags that are read too early, tags pushed by maintainers.  An *)
(* operator whose comment begins with `Mutant' is a plausible mistake in   *)
(* the definition after it, used only to test the properties.              *)
(***************************************************************************)
EXTENDS Naturals, Sequences

CONSTANTS
  Commit,     \* commits of the main line whose version gives the tag
  Packaging,  \* packagings of one commit
  Assets,     \* how many assets a release has
  MaxFaults   \* bound on kills, lost answers and early reads

ASSUME ReleaseAssumption == Assets \in Nat \ {0} /\ MaxFaults \in Nat

VARIABLES
  releases,  \* the releases for the tag, in the order of their creation
  tag,       \* the commit of the tag, as a set: empty while there is none
  flight,    \* requests of dead jobs that may still take effect
  job,       \* the job that runs
  reported,  \* history: the builds that a job has reported as published
  unseen,    \* history: a tag was pushed that no check could see
  faults     \* how many faults have happened

vars == <<releases, tag, flight, job, reported, unseen, faults>>

Asset == 1..Assets             \* in the order of their names
Build == [commit : Commit, packaging : Packaging]
Upload  == [name : Asset, build : Build, whole : BOOLEAN]
Release == [draft : BOOLEAN, target : Commit, assets : SUBSET Upload]
Request == [kind : {"create", "upload", "patch"}, release : Nat, name : Asset,
            build : Build]
Job == [pc : {"idle", "find", "create", "find again", "upload", "verify",
              "check", "patch", "read back"},
        build : Build, tagged : BOOLEAN, release : Nat, missing : SUBSET Asset]

Goto(pc) == job' = [job EXCEPT !.pc = pc]
Fails    == Goto("idle")
Fault    == faults < MaxFaults /\ faults' = faults + 1

First(names) == {n \in names : \A m \in names : n <= m}
Draft(i)     == releases[i].draft
Published    == {i \in DOMAIN releases : ~Draft(i)}

----------------------------------------------------------------------------
(* GitHub.                                                                 *)

\* A draft is bound to its commit and does not make the tag.
CreateDraft(b) ==
  /\ releases' = Append(releases, [draft |-> TRUE, target |-> b.commit, assets |-> {}])
  /\ UNCHANGED tag

\* An asset is never replaced; an upload that is cut off leaves a broken one.
UploadAsset(i, name, b, whole) ==
  /\ \A u \in releases[i].assets : u.name # name
  /\ releases' = [releases EXCEPT ![i].assets =
                    @ \cup {[name |-> name, build |-> b, whole |-> whole]}]
  /\ UNCHANGED tag

\* One release of a tag is public; it makes the tag unless there is one.
PublishDraft(i) ==
  /\ Published \subseteq {i}
  /\ releases' = [releases EXCEPT ![i].draft = FALSE]
  /\ tag' = IF tag = {} THEN {releases[i].target} ELSE tag

Effect(r) ==
  \/ r.kind = "create" /\ CreateDraft(r.build)
  \/ r.kind = "upload" /\ \E whole \in BOOLEAN :
                            UploadAsset(r.release, r.name, r.build, whole)
  \/ r.kind = "patch" /\ PublishDraft(r.release)

\* The tag that a job reads: it may be read too early.
ReadTag(t) ==
  \/ t = tag /\ UNCHANGED faults
  \/ t = {} /\ tag # {} /\ Fault

\* release_for_tag: the public release, or else a draft, as far as the list
\* already shows it; 0 is none.
Find(i) ==
  \/ /\ i \in IF Published # {} THEN Published ELSE DOMAIN releases
     /\ UNCHANGED faults
  \/ i = 0 /\ releases = <<>> /\ UNCHANGED faults
  \/ i = 0 /\ releases # <<>> /\ Published = {} /\ Fault

----------------------------------------------------------------------------
(* The job.                                                                *)

\* missing_assets: an asset has to be uploaded, and of these bytes.
Fits(u, b) == u.whole /\ u.build = b

MissingAssets(i) ==
  {n \in Asset : \A u \in releases[i].assets : u.name # n}

\* validate_release, but for what it returns.
Valid(i, b) ==
  /\ Draft(i) => releases[i].target = b.commit
  /\ \A u \in releases[i].assets : Fits(u, b)

\* A job starts, and goes on unless the tag has another commit.
Begin(b) ==
  /\ job.pc = "idle"
  /\ \E t \in {tag, {}} :
       /\ ReadTag(t)
       /\ t \subseteq {b.commit}
       /\ job' = [pc |-> "find", build |-> b, tagged |-> t # {}, release |-> 0,
                  missing |-> {}]
  /\ UNCHANGED <<releases, tag, flight, reported, unseen>>

AfterFinding(i) == IF MissingAssets(i) = {} THEN "check" ELSE "upload"

\* Mutant: everything is uploaded again.
ToUploadAll(i) == Asset

\* An interrupted upload goes on with what is missing.
ToUpload(i) == MissingAssets(i)

Resume(i) ==
  job' = [job EXCEPT !.pc = AfterFinding(i), !.release = i,
                     !.missing = ToUpload(i)]

\* What a job requires of the release that was public before.
AlreadyPublished(i) == job.tagged /\ MissingAssets(i) = {}

FindRelease ==
  /\ job.pc = "find"
  /\ \E i \in 0..Len(releases) :
       /\ Find(i)
       /\ \/ i = 0 /\ Goto("create") /\ UNCHANGED reported
          \/ i # 0 /\ ~Valid(i, job.build) /\ Fails /\ UNCHANGED reported
          \/ /\ i # 0 /\ Valid(i, job.build) /\ Draft(i)
             /\ Resume(i) /\ UNCHANGED reported
          \/ /\ i # 0 /\ Valid(i, job.build) /\ ~Draft(i)
             /\ Fails
             /\ reported' = IF AlreadyPublished(i)
                            THEN reported \cup {job.build} ELSE reported
  /\ UNCHANGED <<releases, tag, flight, unseen>>

\* The POST, with its answer or without.
Create ==
  /\ job.pc = "create"
  /\ \/ /\ CreateDraft(job.build) /\ UNCHANGED faults
        /\ job' = [job EXCEPT !.pc = "upload", !.release = Len(releases'),
                              !.missing = Asset]
     \/ /\ CreateDraft(job.build) \/ UNCHANGED <<releases, tag>>
        /\ Fault /\ Goto("find again")
  /\ UNCHANGED <<flight, reported, unseen>>

\* After a failed POST the draft is looked for once more.
FindAgain ==
  /\ job.pc = "find again"
  /\ \E i \in 0..Len(releases) :
       /\ Find(i)
       /\ IF i # 0 /\ Draft(i) /\ Valid(i, job.build) THEN Resume(i) ELSE Fails
  /\ UNCHANGED <<releases, tag, flight, reported, unseen>>

\* Mutant: what was uploaded is not read back.
AfterUploadBlind == "check"

AfterUpload == "verify"

\* One upload; the first one that fails is the last.
UploadNext ==
  /\ job.pc = "upload"
  /\ \E name \in First(job.missing) :
       LET rest == job.missing \ {name}
       IN  \/ /\ UploadAsset(job.release, name, job.build, TRUE) /\ UNCHANGED faults
              /\ job' = [job EXCEPT !.missing = rest,
                                    !.pc = IF rest = {} THEN AfterUpload ELSE @]
           \/ /\ \/ Fault /\ \E whole \in BOOLEAN :
                      UploadAsset(job.release, name, job.build, whole)
                 \/ Fault /\ UNCHANGED <<releases, tag>>
                 \/ name \notin MissingAssets(job.release)
                    /\ UNCHANGED <<releases, tag, faults>>
              /\ job' = [job EXCEPT !.missing = {}, !.pc = AfterUpload]
  /\ UNCHANGED <<flight, reported, unseen>>

\* The draft is read again: nothing may be missing or different.
Verify ==
  /\ job.pc = "verify"
  /\ IF Valid(job.release, job.build) /\ MissingAssets(job.release) = {}
     THEN Goto("check") ELSE Fails
  /\ UNCHANGED <<releases, tag, flight, reported, unseen, faults>>

\* Mutant: the tag was checked when the job started.
CheckTagOnce ==
  /\ job.pc = "check" /\ Goto("patch")
  /\ UNCHANGED <<releases, tag, flight, reported, unseen, faults>>

\* So is the tag.
CheckTag ==
  /\ job.pc = "check"
  /\ \E t \in {tag, {}} :
       /\ ReadTag(t) /\ unseen' = (unseen \/ t # tag)
       /\ IF t \subseteq {job.build.commit} THEN Goto("patch") ELSE Fails
  /\ UNCHANGED <<releases, tag, flight, reported>>

\* The PATCH, unless the release is public already; a failed one is noted.
Patch ==
  /\ job.pc = "patch"
  /\ \/ Draft(job.release) /\ PublishDraft(job.release) /\ UNCHANGED faults
     \/ Draft(job.release) /\ PublishDraft(job.release) /\ Fault
     \/ Draft(job.release) /\ Fault /\ UNCHANGED <<releases, tag>>
     \/ ~Draft(job.release) /\ UNCHANGED <<releases, tag, faults>>
     \/ Published \ {job.release} # {} /\ UNCHANGED <<releases, tag, faults>>
  /\ Goto("read back")
  /\ UNCHANGED <<flight, reported, unseen>>

\* Mutant: the public release is not compared with its tag again.
ReadsBackLoose(i, b, t) == ~Draft(i)

ReadsBack(i, b, t) ==
  ~Draft(i) /\ t = {b.commit} /\ Valid(i, b) /\ MissingAssets(i) = {}

ReadBack ==
  /\ job.pc = "read back"
  /\ \E t \in {tag, {}} :
       /\ ReadTag(t)
       /\ reported' = IF ReadsBack(job.release, job.build, t)
                      THEN reported \cup {job.build} ELSE reported
  /\ Goto("idle")
  /\ UNCHANGED <<releases, tag, flight, unseen>>

----------------------------------------------------------------------------
(* What else happens.                                                      *)

\* The request that a job is about to make.
Pending ==
  LET request(kind, i, name) == [kind |-> kind, release |-> i, name |-> name,
                                 build |-> job.build]
  IN  {r \in {request("create", 0, 1)} : job.pc = "create"}
        \cup {r \in {request("upload", job.release, n) : n \in First(job.missing)} :
                job.pc = "upload"}
        \cup {r \in {request("patch", job.release, 1)} : job.pc = "patch"}

\* A job is killed, and what it has just asked for may happen later.
Killed ==
  /\ job.pc # "idle" /\ Fault /\ Fails
  /\ \E sent \in SUBSET Pending : flight' = flight \cup sent
  /\ UNCHANGED <<releases, tag, reported, unseen>>

\* It takes effect late, or never.
Arrives(r) ==
  /\ r \in flight /\ flight' = flight \ {r}
  /\ Effect(r) \/ UNCHANGED <<releases, tag>>
  /\ UNCHANGED <<job, reported, unseen, faults>>

\* A maintainer pushes the tag; a job that is about to publish, or a late
\* request to, does not look at it any more.
PushTag(c) ==
  /\ tag = {} /\ tag' = {c}
  /\ unseen' = (unseen \/ job.pc = "patch" \/ \E r \in flight : r.kind = "patch")
  /\ UNCHANGED <<releases, flight, job, reported, faults>>

----------------------------------------------------------------------------
Init ==
  /\ releases = <<>> /\ flight = {} /\ reported = {}
  /\ tag \in {{}} \cup {{c} : c \in Commit}
  /\ \E b \in Build : job = [pc |-> "idle", build |-> b, tagged |-> FALSE,
                             release |-> 0, missing |-> {}]
  /\ unseen = FALSE /\ faults = 0

JobStep ==
  \/ FindRelease \/ Create \/ FindAgain \/ UploadNext \/ Verify
  \/ CheckTag \/ Patch \/ ReadBack

Next ==
  \/ \E b \in Build : Begin(b)
  \/ JobStep \/ Killed
  \/ \E r \in flight : Arrives(r)
  \/ \E c \in Commit : PushTag(c)

\* A job that is not killed goes on, and a failed job is run again.
Fairness == WF_vars(JobStep) /\ \A b \in Build : SF_vars(Begin(b))

SafetySpec == Init /\ [][Next]_vars
Spec == SafetySpec /\ Fairness

----------------------------------------------------------------------------
(* Properties.                                                             *)

TypeOK ==
  /\ releases \in Seq(Release) /\ tag \subseteq Commit
  /\ flight \subseteq Request /\ job \in Job /\ reported \subseteq Build
  /\ job.pc = "upload" => job.missing # {} /\ job.release \in DOMAIN releases
  /\ unseen \in BOOLEAN /\ faults \in 0..MaxFaults

Holds(i, b) ==
  /\ releases[i].target = b.commit
  /\ releases[i].assets = [name : Asset, build : {b}, whole : {TRUE}]

\* A public release has every asset, all of one build of the commit that it
\* was made for (draft_is_published_only_after_every_asset_is_verified).
PublishedIsComplete == \A i \in Published : \E b \in Build : Holds(i, b)

\* Its tag is this commit, unless the tag came when nobody looked any more
\* (changed_tag_is_rejected_before_publication).
PublishedIsBound ==
  \A i \in Published : tag = {releases[i].target} \/ unseen

\* What a job reports as published is public under its tag, whatever was lost,
\* came late or was done by other jobs (publish_native_release).
ReportedIsPublic ==
  \A b \in reported : tag = {b.commit} /\ \E i \in Published : Holds(i, b)

\* No job and no late request changes what is public
\* (published_release_reexecution_does_not_mutate_it).
PublishedIsKept ==
  [][\A i \in Published : releases'[i] = releases[i]]_vars

\* There is something of another build, or broken, in the way.
Obstructed(b) ==
  \/ \E c \in tag : c # b.commit
  \/ \E i \in DOMAIN releases :
       \/ releases[i].target # b.commit
       \/ \E u \in releases[i].assets : u.build # b \/ ~u.whole

\* A job that has started is reported as published once it has been run again
\* often enough, unless it is obstructed ("rerun the failed publication job to
\* resume").
JobResumes ==
  \A b \in Build :
    job.pc # "idle" /\ job.build = b ~> (b \in reported \/ Obstructed(b))

=============================================================================

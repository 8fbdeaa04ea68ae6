--------------------------- MODULE ImageSelection ---------------------------
(***************************************************************************)
(* The images that verified automatic updates have selected for the        *)
(* services of one stack (table deployment_images), and what manual        *)
(* deployments, starts, pulls, edits, further updates, a Resume and        *)
(* crashes make of them.                                                   *)
(*                                                                         *)
(* Whoever changes the stack holds its lock (Coordinator), so one job runs *)
(* at a time; only the image check of an update runs without it.  An image *)
(* is the content its tag had in the registry at some version, for one     *)
(* platform.  An update pulls by digest and leaves the local tags alone.   *)
(***************************************************************************)
EXTENDS Naturals, FiniteSets

CONSTANTS
    Services,
    Refs,           \* tagged image references
    Platforms,
    HostPlatform,   \* what Docker takes where a service sets no platform
    Unset,          \* no platform, image or source
    Built,          \* the reference of a locally built image
    Sources,        \* what a file may say of a service: reference, platform, build
    MaxMoves,       \* bound: how often a registry tag moves
    MaxDeployments  \* bound: deployment records

ASSUME ImageConstants ==
    /\ HostPlatform \in Platforms /\ Unset \notin Platforms
    /\ Built \notin Refs
    /\ Sources \subseteq [ref : Refs, platform : Platforms \cup {Unset}, build : BOOLEAN]
    /\ {MaxMoves, MaxDeployments} \subseteq Nat

VARIABLES
    source,    \* source[s]: the saved Compose configuration of s
    registry,  \* registry[r]: how often the tag r has moved
    local,     \* local[r][p]: the version the local tag r has for platform p
    running,   \* running[s]: the image of the containers of s
    selected,  \* selected[s]: the row of s in deployment_images
    record,    \* the latest deployment record and the source of the last success
    policy,    \* the schedule: "open", "paused", or "lost": an outcome could not be saved
    holder,    \* the job under the stack's lock
    check,     \* the update that has captured its evidence
    latest,    \* latest[s]: what the latest verification has passed for s (history)
    superseded   \* superseded[s]: a pull or a deployment of another source has made
                 \* it obsolete since (history)

history == <<latest, superseded>>
imageVars == <<source, registry, local, running, selected, record, policy, holder, check, history>>

Versions == 0..MaxMoves
Image == [ref : Refs \cup {Built}, platform : Platforms, version : Versions]
Images == [Services -> Image \cup {Unset}]
NoImages == [s \in Services |-> Unset]

\* A row of deployment_images: the reference in the source, and the image to run.
Selection == [ref : Refs, platform : Platforms, image : Image]
RowOf(c, i) == [ref |-> c.ref, platform |-> i.platform, image |-> i]

FreeLock == [kind |-> "none", images |-> NoImages, source |-> Unset]
NoCheck == [pc |-> "none", source |-> Unset, running |-> NoImages, id |-> 0, changes |-> NoImages]

ImageInit ==
    /\ source \in [Services -> Sources]
    /\ registry = [r \in Refs |-> 0]
    /\ local = [r \in Refs |-> [p \in Platforms |-> Unset]]
    /\ running = NoImages /\ selected = NoImages
    /\ record = [id |-> 0, ok |-> FALSE, source |-> Unset]
    /\ policy = "open"
    /\ holder = FreeLock /\ check = NoCheck
    /\ latest = NoImages
    /\ superseded = [s \in Services |-> FALSE]

StackIdle == holder.kind = "none"

-----------------------------------------------------------------------------
(* What a source says, and what Docker makes of it.                        *)

\* The platform Docker chooses.
EffectivePlatform(c) == IF c.platform = Unset THEN HostPlatform ELSE c.platform

\* What a build makes of a source.
BuiltImage(c) == [ref |-> Built, platform |-> EffectivePlatform(c), version |-> 0]

\* The running platform agrees with the configuration (inspectUpdateProject).
PlatformFits(c, i) == c.platform = Unset \/ c.platform = i.platform

\* manualImageOverrides: the row w is for this reference and platform.
Overrides(c, w) == ~c.build /\ w # Unset /\ w.ref = c.ref /\ PlatformFits(c, w)

\* Compose keeps the local tag, and pulls it where it is missing.
Tagged(c) ==
    LET have == local[c.ref][EffectivePlatform(c)]
    IN  IF have = Unset THEN registry[c.ref] ELSE have

TagImage(c) == IF c.build THEN BuiltImage(c)
               ELSE [ref |-> c.ref, platform |-> EffectivePlatform(c), version |-> Tagged(c)]

\* Client.up: the override with pull policy "never", else what the tag says.
UpImage(c, i) == IF i = Unset THEN TagImage(c) ELSE i

\* The tags of the services in T now name what the registry has.
Retagged(T) ==
    [r \in Refs |-> [p \in Platforms |->
        IF \E s \in T : ~source[s].build /\ source[s].ref = r /\ EffectivePlatform(source[s]) = p
        THEN registry[r] ELSE local[r][p]]]

-----------------------------------------------------------------------------
(* Manual operations.                                                      *)

\* WriteFile, an edit that reaches the running jobs through Load only.
Edit(s, c) ==
    /\ StackIdle
    /\ source[s] # c
    /\ source' = [source EXCEPT ![s] = c]
    /\ UNCHANGED <<registry, local, running, selected, record, policy, holder, check, history>>

\* startDeployment: EffectiveImages and the sources, read under the lock.
DeployJob(images) == [kind |-> "deploy", images |-> images, source |-> source]

BeginDeploy ==
    /\ StackIdle
    /\ record.id < MaxDeployments
    /\ holder' = DeployJob([s \in Services |->
                    IF Overrides(source[s], selected[s]) THEN selected[s].image ELSE Unset])
    /\ UNCHANGED <<source, registry, local, running, selected, record, policy, check, history>>

\* The services in T are up; the missing tags of T have been pulled.
Up(T, images) ==
    /\ running' = [s \in Services |-> IF s \in T THEN UpImage(source[s], images[s]) ELSE running[s]]
    /\ local' = [r \in Refs |-> [p \in Platforms |->
                    IF local[r][p] = Unset /\ \E s \in T : images[s] = Unset /\ ~source[s].build
                            /\ source[s].ref = r /\ EffectivePlatform(source[s]) = p
                    THEN registry[r] ELSE local[r][p]]]

Recorded(ok) == [id |-> record.id + 1, ok |-> ok, source |-> IF ok THEN source ELSE record.source]

\* DeployLocked: up, then the record; an error of either ends the job there.
DeployUp ==
    /\ holder.kind = "deploy"
    /\ \E T \in SUBSET Services, ok \in BOOLEAN, saved \in BOOLEAN :
          /\ ok => T = Services
          /\ Up(T, holder.images)
          /\ record' = IF saved THEN Recorded(ok) ELSE record
          /\ holder' = IF ok /\ saved THEN [holder EXCEPT !.kind = "prune"] ELSE FreeLock
    /\ UNCHANGED <<source, registry, selected, policy, check, history>>

\* PruneImages: drops the selections of other references, of another platform
\* and of services that are built; its error only fails the operation.
Kept(c, w) == w # Unset /\ ~c.build /\ w.ref = c.ref /\ PlatformFits(c, w)

Prune ==
    /\ holder.kind = "prune"
    /\ \/ selected' = [s \in Services |->
              IF Kept(holder.source[s], selected[s]) THEN selected[s] ELSE Unset]
       \/ selected' = selected
    /\ superseded' = [s \in Services |-> superseded[s] \/ selected'[s] # selected[s]]
    /\ holder' = FreeLock
    /\ UNCHANGED <<source, registry, local, running, record, policy, check, latest>>

\* The stack action "start": up without overrides and without a record.
StartStack ==
    /\ StackIdle
    /\ \E T \in SUBSET Services \ {{}} : Up(T, NoImages)
    /\ UNCHANGED <<source, registry, selected, record, policy, holder, check, history>>

\* Mutant: also a failed pull clears the selections.
InvalidatesAlways(ok) == TRUE

\* The selections are cleared after a pull without an error only.
InvalidatesAfter(ok) == ok

\* The pull is one of the very tag that row w was verified for.
PullsTagOf(c, w) == w # Unset /\ ~c.build /\ c.ref = w.image.ref /\ EffectivePlatform(c) = w.platform

\* The stack action "pull": some of the tags, or all of them.
PullImages ==
    /\ StackIdle
    /\ \E T \in SUBSET Services, ok \in BOOLEAN :
          /\ ok => T = Services
          /\ local' = Retagged(T)
          /\ holder' = IF InvalidatesAfter(ok) THEN [FreeLock EXCEPT !.kind = "invalidate"] ELSE FreeLock
          /\ superseded' = [s \in Services |-> superseded[s] \/ (ok /\ ~PullsTagOf(source[s], latest[s]))]
    /\ UNCHANGED <<source, registry, running, selected, record, policy, check, latest>>

\* InvalidateImages; its error only fails the operation.
Invalidate ==
    /\ holder.kind = "invalidate"
    /\ selected' \in {NoImages, selected}
    /\ holder' = FreeLock
    /\ UNCHANGED <<source, registry, local, running, record, policy, check, history>>

-----------------------------------------------------------------------------
(* An automatic update.                                                    *)

\* updateEvidence: not policy, the latest deployment succeeded with this very
\* source, and every service runs on the platform it asks for.
ImagesEligible ==
    /\ policy = "open"
    /\ record.ok /\ record.source = source
    /\ \A s \in Services : running[s] # Unset /\ PlatformFits(source[s], running[s])

Capture ==
    /\ StackIdle
    /\ check.pc = "none"
    /\ ImagesEligible
    /\ record.id < MaxDeployments
    /\ check' = [NoCheck EXCEPT !.pc = "captured", !.source = source, !.running = running, !.id = record.id]
    /\ UNCHANGED <<source, registry, local, running, selected, record, policy, holder, history>>

\* inspectUpdateProject: a service that is built, or runs an image without
\* registry provenance, is excluded.
Excluded(c, i) == c.build \/ i.ref = Built

\* PrepareUpdate: the digest behind the tag now, where it is not what runs.
Candidate(c, i) == [ref |-> c.ref, platform |-> i.platform, version |-> registry[c.ref]]

Change(c, i) == IF Excluded(c, i) \/ Candidate(c, i) = i THEN Unset ELSE Candidate(c, i)

PrepareUpdate ==
    /\ check.pc = "captured"
    /\ check' = [check EXCEPT !.pc = "prepared",
                    !.changes = [s \in Services |-> Change(check.source[s], check.running[s])]]
    /\ UNCHANGED <<source, registry, local, running, selected, record, policy, holder, history>>

\* sameUpdateEvidence, under the lock again.
SameImageEvidence ==
    /\ ImagesEligible
    /\ check.source = source /\ check.running = running /\ check.id = record.id

\* SavePrepared and MarkApplying, or the check ends: the image check has failed,
\* the stack is busy or has changed, or there is nothing to update.
BeginUpdate ==
    /\ check.pc = "prepared"
    /\ StackIdle /\ SameImageEvidence
    /\ check.changes # NoImages
    /\ holder' = [kind |-> "update", images |-> check.changes, source |-> source]
    /\ check' = NoCheck
    /\ UNCHANGED <<source, registry, local, running, selected, record, policy, history>>

EndCheck ==
    /\ check.pc # "none"
    /\ check' = NoCheck
    /\ UNCHANGED <<source, registry, local, running, selected, record, policy, holder, history>>

\* ApplyUpdate recreates the changed services, or some of them; VerifyUpdate then
\* looks at what runs.
ApplyUpdate ==
    /\ holder.kind = "update"
    /\ \E T \in SUBSET {s \in Services : holder.images[s] # Unset} :
          running' = [s \in Services |-> IF s \in T THEN holder.images[s] ELSE running[s]]
    /\ holder' = [holder EXCEPT !.kind = "verify"]
    /\ UNCHANGED <<source, registry, local, selected, record, policy, check, history>>

\* Mutant: what runs is not compared with the targets.
VerifiesNothing(changes) == TRUE

\* VerifyUpdate can pass only where every changed service runs its target.
Verifies(changes) == \A s \in Services : changes[s] = Unset \/ running[s] = changes[s]

\* completeUpdate: the selections and the record in one transaction.
CompleteUpdate ==
    LET changed == {s \in Services : holder.images[s] # Unset}
    IN  /\ holder.kind = "verify"
        /\ Verifies(holder.images)
        /\ selected' = [s \in Services |->
              IF s \in changed THEN RowOf(source[s], holder.images[s]) ELSE selected[s]]
        /\ latest' = [s \in Services |->
              IF s \in changed THEN RowOf(source[s], running[s]) ELSE latest[s]]
        /\ superseded' = [s \in Services |-> s \notin changed /\ superseded[s]]
        /\ record' = Recorded(TRUE)
        /\ holder' = FreeLock
        /\ UNCHANGED <<source, registry, local, running, policy, check>>

\* The update has failed, or it was interrupted and a restart has found its
\* intent (RecoverExecution): recovery required.
FailedUpdate ==
    /\ record' = Recorded(FALSE)
    /\ policy' = "paused"
    /\ holder' = FreeLock
    /\ UNCHANGED <<source, registry, local, running, selected, history>>

FailUpdate == holder.kind = "verify" /\ FailedUpdate /\ UNCHANGED check

\* The outcome could not be saved: the lock is released, updates stay blocked and
\* a restart finds the intent.
LoseUpdate ==
    /\ holder.kind = "verify"
    /\ policy' = "lost"
    /\ holder' = FreeLock
    /\ UNCHANGED <<source, registry, local, running, selected, record, check, history>>

\* ResumeAutoUpdate: the last success has this source, and what runs is verified
\* and becomes the selection of every service that is not excluded.
Resume ==
    /\ StackIdle /\ policy = "paused"
    /\ record.id < MaxDeployments
    /\ record.source = source
    /\ \A s \in Services : running[s] # Unset /\ PlatformFits(source[s], running[s])
    /\ policy' = "open"
    /\ selected' = [s \in Services |->
          IF Excluded(source[s], running[s]) THEN Unset ELSE RowOf(source[s], running[s])]
    /\ latest' = selected'
    /\ superseded' = [s \in Services |-> FALSE]
    /\ record' = Recorded(TRUE)
    /\ UNCHANGED <<source, registry, local, running, holder, check>>

-----------------------------------------------------------------------------
(* The registry, and a crash.                                              *)

TagMoves(r) ==
    /\ registry[r] < MaxMoves
    /\ registry' = [registry EXCEPT ![r] = @ + 1]
    /\ UNCHANGED <<source, local, running, selected, record, policy, holder, check, history>>

\* The process ends and starts again; Docker keeps what was done.
ImageCrash ==
    /\ ~StackIdle \/ check # NoCheck \/ policy = "lost"
    /\ check' = NoCheck
    /\ IF holder.kind \in {"update", "verify"} \/ policy = "lost" THEN FailedUpdate
       ELSE holder' = FreeLock
            /\ UNCHANGED <<source, registry, local, running, selected, record, policy, history>>

ImageNext ==
    \/ \E s \in Services, c \in Sources : Edit(s, c)
    \/ BeginDeploy \/ DeployUp \/ Prune \/ StartStack \/ PullImages \/ Invalidate
    \/ Capture \/ PrepareUpdate \/ BeginUpdate \/ EndCheck
    \/ ApplyUpdate \/ CompleteUpdate \/ FailUpdate \/ LoseUpdate \/ Resume
    \/ \E r \in Refs : TagMoves(r)
    \/ ImageCrash

ImageSpec == ImageInit /\ [][ImageNext]_imageVars

-----------------------------------------------------------------------------
(* Properties.                                                             *)

\* Types of all the variables.
ImageTypeOK ==
    /\ source \in [Services -> Sources]
    /\ registry \in [Refs -> Versions]
    /\ local \in [Refs -> [Platforms -> Versions \cup {Unset}]]
    /\ running \in Images
    /\ {selected, latest} \subseteq [Services -> Selection \cup {Unset}]
    /\ record.id \in 0..MaxDeployments + 1 /\ record.ok \in BOOLEAN
    /\ record.source = Unset \/ record.source \in [Services -> Sources]
    /\ policy \in {"open", "paused", "lost"}
    /\ holder.kind \in {"none", "deploy", "prune", "invalidate", "update", "verify"}
    /\ holder.images \in Images
    /\ check.pc \in {"none", "captured", "prepared"} /\ check.changes \in Images

\* A manual deployment keeps the image that was verified last, as long as the
\* reference and the platform are the ones it was verified for: no older local
\* tag brings the service back, whatever pulls, prunes, deployments and updates
\* have failed and whatever a crash has interrupted (startDeployment,
\* manualImageOverrides, InvalidateImages).
NoCachedRollback ==
    [][holder.kind = "deploy" => \A s \in Services :
          LET old == running[s]
              new == running'[s]
          IN  /\ Overrides(source[s], latest[s]) /\ latest[s].image = old /\ ~superseded[s]
              /\ new.ref = old.ref /\ new.platform = old.platform
              => new.version >= old.version]_imageVars

\* A selection is what the latest verification of the service has passed: never
\* the target of an update that failed, was interrupted or recreated some of the
\* services only (completeUpdate, ResumeAutoUpdate).
SelectionIsVerified ==
    \A s \in Services : selected[s] \in {Unset, latest[s]}

\* A deployment that succeeds has applied the saved configuration to every
\* service: each runs an image of its reference, for its platform, or its build
\* (docs/user-guide.md:64).
DeployRunsTheSource ==
    [][holder.kind = "deploy" /\ holder'.kind = "prune" => \A s \in Services :
          /\ running'[s].ref = IF source[s].build THEN Built ELSE source[s].ref
          /\ PlatformFits(source[s], running'[s])]_imageVars

=============================================================================

----------------------- MODULE ImageSelectionProofs -----------------------
(***************************************************************************)
(* ImageSelection: types and the bound on records, the selected image of   *)
(* a service is a verified one, and a manual deployment never goes back to *)
(* an older cached image.                                                  *)
(*                                                                         *)
(* The bound counts the records that are still due (RecordInv).  The last  *)
(* needs a bound on what every image is: no container, tag, override or    *)
(* change holds a version that the registry has not served (VersionInv), a *)
(* deployment carries the rows it read (DeployInv), and once an image has  *)
(* been verified for a reference and a platform, the local tag is at least *)
(* as new (TagInv).                                                        *)
(*                                                                         *)
(* A deployment runs the configured references, but where a Resume has     *)
(* taken an image of another one for the selection (OwnInv).               *)
(***************************************************************************)
EXTENDS ImageSelection, TLAPS

-----------------------------------------------------------------------------
(* Types.                                                                  *)

\* The parts of the stack's state that images depend on.
HolderKinds == {"none", "deploy", "prune", "invalidate", "update", "verify"}
\* A holder of the stack lock, with the override it has written.
ImageJob == [kind : HolderKinds, images : Images, source : [Services -> Sources] \cup {Unset}]
\* What a check of the registry has captured and prepared.
ImageCheck == [pc : {"none", "captured", "prepared"}, source : [Services -> Sources] \cup {Unset},
               running : Images, id : Nat, changes : Images]
\* The tags of the local Docker image store.
LocalTags == [Refs -> [Platforms -> Versions \cup {Unset}]]
\* The rows of deployment_images.
Rows == [Services -> Selection \cup {Unset}]

\* The types of the parts that the proofs reason about.
ImageShape ==
    /\ source \in [Services -> Sources] /\ registry \in [Refs -> Versions] /\ local \in LocalTags
    /\ running \in Images
    /\ selected \in Rows /\ latest \in Rows
    /\ holder \in ImageJob /\ check \in ImageCheck
    /\ check.pc = "captured" =>
          check.source \in [Services -> Sources] /\ \A s \in Services : check.running[s] \in Image
    /\ record.id \in Nat

\* A source names a reference of the registry and a platform that Docker knows.
LEMMA SourceFacts ==
  ASSUME NEW c \in Sources
  PROVE  c.ref \in Refs /\ c.build \in BOOLEAN /\ EffectivePlatform(c) \in Platforms
  BY ImageConstants DEF EffectivePlatform

\* Versions are natural numbers that begin with 0.
LEMMA VersionFacts == 0 \in Versions /\ MaxMoves \in Nat /\ Versions \subseteq Nat
  BY ImageConstants DEF Versions

\* The empty values have the types of what they stand for.
LEMMA NoImageTypes ==
  NoImages \in Images /\ NoImages \in Rows /\ FreeLock \in ImageJob /\ NoCheck \in ImageCheck
<1>1. NoImages \in Images /\ NoImages \in Rows
  BY DEF NoImages, Images, Rows
<1>2. QED
  BY <1>1 DEF FreeLock, ImageJob, HolderKinds, NoCheck, ImageCheck

\* What a tag stands for is an image.
LEMMA TagTypes ==
  ASSUME ImageShape, NEW c \in Sources
  PROVE  TagImage(c) \in Image
<1>1. registry[c.ref] \in Versions /\ local[c.ref][EffectivePlatform(c)] \in Versions \cup {Unset}
  BY SourceFacts DEF ImageShape, LocalTags
<1>2. Tagged(c) \in Versions
  BY <1>1 DEF Tagged
<1>3. BuiltImage(c) \in Image
  BY VersionFacts, SourceFacts DEF BuiltImage, Image
<1>4. QED
  BY <1>2, <1>3, SourceFacts DEF TagImage, Image

\* compose up, pull and the registry keep the types of tags and containers.
LEMMA UpTypes ==
  ASSUME ImageShape, NEW T \in SUBSET Services, NEW images \in Images, Up(T, images)
  PROVE  running' \in Images /\ local' \in LocalTags
<1>1. \A s \in Services : UpImage(source[s], images[s]) \in Image \cup {Unset}
  BY TagTypes DEF UpImage, ImageShape, Images
<1>2. running' \in Images
  BY <1>1 DEF Up, ImageShape, Images
<1>3. local' \in LocalTags
  BY DEF Up, ImageShape, LocalTags
<1>4. QED
  BY <1>2, <1>3

\* A pull keeps the type of the tags.
LEMMA RetaggedTypes ==
  ASSUME ImageShape, NEW T
  PROVE  Retagged(T) \in LocalTags
  BY DEF Retagged, ImageShape, LocalTags

\* A verified service has a row.
LEMMA RowTypesOf ==
  ASSUME NEW c \in Sources, NEW i \in Image
  PROVE  RowOf(c, i) \in Selection
  BY SourceFacts DEF RowOf, Selection, Image

\* A change is an image or nothing.
LEMMA ChangeTypes ==
  ASSUME ImageShape, NEW c \in Sources, NEW i \in Image
  PROVE  Change(c, i) \in Image \cup {Unset}
<1>1. Candidate(c, i) \in Image
  BY SourceFacts DEF Candidate, Image, ImageShape
<1>2. QED
  BY <1>1 DEF Change

\* Edits, deployments, starts, pulls and the removal of rows keep the types.
LEMMA ShapeManual ==
  ASSUME ImageShape,
         \/ \E s \in Services, c \in Sources : Edit(s, c)
         \/ BeginDeploy \/ DeployUp \/ Prune \/ StartStack \/ PullImages \/ Invalidate
  PROVE  ImageShape'
<1>1. ASSUME NEW s \in Services, NEW c \in Sources, Edit(s, c)
      PROVE  ImageShape'
  <2>1. source' \in [Services -> Sources]
    BY <1>1 DEF Edit, ImageShape
  <2>2. QED
    BY <1>1, <2>1 DEF Edit, ImageShape, history
<1>2. CASE BeginDeploy
  <2>1. \A s \in Services : selected[s] \in Selection \cup {Unset}
    BY DEF ImageShape, Rows
  <2>2. \A s \in Services : Overrides(source[s], selected[s]) => selected[s].image \in Image
    BY <2>1 DEF Overrides, Selection
  <2>3. [s \in Services |-> IF Overrides(source[s], selected[s]) THEN selected[s].image ELSE Unset]
           \in Images
    BY <2>2 DEF Images
  <2>4. holder' \in ImageJob
    BY <1>2, <2>3 DEF BeginDeploy, DeployJob, ImageJob, HolderKinds, ImageShape
  <2>5. QED
    BY <1>2, <2>4 DEF BeginDeploy, ImageShape, history
<1>3. CASE DeployUp
  <2>1. PICK T \in SUBSET Services, ok \in BOOLEAN, saved \in BOOLEAN :
           /\ Up(T, holder.images)
           /\ record' = (IF saved THEN Recorded(ok) ELSE record)
           /\ holder' = (IF ok /\ saved THEN [holder EXCEPT !.kind = "prune"] ELSE FreeLock)
    BY <1>3 DEF DeployUp
  <2>2. running' \in Images /\ local' \in LocalTags
    BY <2>1, UpTypes DEF ImageShape, ImageJob
  <2>3. [holder EXCEPT !.kind = "prune"] \in ImageJob
    BY DEF ImageShape, ImageJob, HolderKinds
  <2>4. holder' \in ImageJob
    BY <2>1, <2>3, NoImageTypes
  <2>5. record'.id \in Nat
    BY <2>1 DEF Recorded, ImageShape
  <2>6. QED
    BY <1>3, <2>2, <2>4, <2>5 DEF DeployUp, ImageShape, history
<1>4. CASE Prune \/ Invalidate
  <2>1. selected' \in Rows
    BY <1>4, NoImageTypes DEF Prune, Invalidate, ImageShape, Rows
  <2>2. QED
    BY <1>4, <2>1, NoImageTypes DEF Prune, Invalidate, ImageShape, history
<1>5. CASE StartStack
  <2>1. running' \in Images /\ local' \in LocalTags
    BY <1>5, UpTypes, NoImageTypes DEF StartStack
  <2>2. QED
    BY <1>5, <2>1 DEF StartStack, ImageShape, history
<1>6. CASE PullImages
  <2>1. local' \in LocalTags
    BY <1>6, RetaggedTypes DEF PullImages
  <2>2. [FreeLock EXCEPT !.kind = "invalidate"] \in ImageJob
    BY NoImageTypes DEF FreeLock, ImageJob, HolderKinds
  <2>3. holder' \in ImageJob
    BY <1>6, <2>2, NoImageTypes DEF PullImages
  <2>4. QED
    BY <1>6, <2>1, <2>3 DEF PullImages, ImageShape
<1>7. QED
  BY <1>1, <1>2, <1>3, <1>4, <1>5, <1>6

\* So do the steps of an update.
LEMMA ShapeUpdate ==
  ASSUME ImageShape,
         \/ Capture \/ PrepareUpdate \/ BeginUpdate \/ EndCheck
         \/ ApplyUpdate \/ CompleteUpdate \/ FailUpdate \/ LoseUpdate \/ Resume
  PROVE  ImageShape'
<1>1. CASE Capture
  <2>1. \A s \in Services : running[s] \in Image
    BY <1>1 DEF Capture, ImagesEligible, ImageShape, Images
  <2>2. check' = [pc |-> "captured", source |-> source, running |-> running, id |-> record.id,
                  changes |-> NoImages]
    BY <1>1 DEF Capture, NoCheck
  <2>3. check' \in ImageCheck
    BY <2>2, NoImageTypes DEF ImageCheck, ImageShape
  <2>4. QED
    BY <1>1, <2>1, <2>2, <2>3 DEF Capture, ImageShape, history
<1>2. CASE PrepareUpdate
  <2>1. /\ check \in ImageCheck /\ check.source \in [Services -> Sources]
        /\ \A s \in Services : check.running[s] \in Image
    BY <1>2 DEF PrepareUpdate, ImageShape
  <2>2. [s \in Services |-> Change(check.source[s], check.running[s])] \in Images
    BY <2>1, ChangeTypes DEF Images
  <2>3. PICK ch \in Images : check' = [check EXCEPT !.pc = "prepared", !.changes = ch]
    BY <1>2, <2>2 DEF PrepareUpdate
  <2>4. check' \in ImageCheck /\ check'.pc = "prepared"
    BY <2>1, <2>3 DEF ImageCheck
  <2>5. QED
    BY <1>2, <2>4 DEF PrepareUpdate, ImageShape, history
<1>3. CASE BeginUpdate
  <2>1. holder' \in ImageJob
    BY <1>3 DEF BeginUpdate, ImageShape, ImageCheck, ImageJob, HolderKinds
  <2>2. check' \in ImageCheck /\ check'.pc = "none"
    BY <1>3, NoImageTypes DEF BeginUpdate, NoCheck
  <2>3. QED
    BY <1>3, <2>1, <2>2 DEF BeginUpdate, ImageShape, history
<1>4. CASE EndCheck
  <2>1. check' \in ImageCheck /\ check'.pc = "none"
    BY <1>4, NoImageTypes DEF EndCheck, NoCheck
  <2>2. QED
    BY <1>4, <2>1 DEF EndCheck, ImageShape, history
<1>5. CASE ApplyUpdate
  <2>1. running' \in Images
    BY <1>5 DEF ApplyUpdate, ImageShape, ImageJob, Images
  <2>2. holder' \in ImageJob
    BY <1>5 DEF ApplyUpdate, ImageShape, ImageJob, HolderKinds
  <2>3. QED
    BY <1>5, <2>1, <2>2 DEF ApplyUpdate, ImageShape, history
<1>6. CASE CompleteUpdate
  <2>1. \A s \in Services : holder.images[s] # Unset => holder.images[s] \in Image
    BY DEF ImageShape, ImageJob, Images
  <2>2. \A s \in Services : holder.images[s] # Unset => running[s] = holder.images[s]
    BY <1>6 DEF CompleteUpdate, Verifies
  <2>3. \A s \in Services : holder.images[s] # Unset =>
           /\ RowOf(source[s], holder.images[s]) \in Selection
           /\ RowOf(source[s], running[s]) \in Selection
    BY <2>1, <2>2, RowTypesOf DEF ImageShape
  <2>4. selected' \in Rows /\ latest' \in Rows
    BY <1>6, <2>3 DEF CompleteUpdate, ImageShape, Rows
  <2>5. record'.id \in Nat
    BY <1>6 DEF CompleteUpdate, Recorded, ImageShape
  <2>6. QED
    BY <1>6, <2>4, <2>5, NoImageTypes DEF CompleteUpdate, ImageShape
<1>7. CASE FailUpdate
  <2>1. record'.id \in Nat
    BY <1>7 DEF FailUpdate, FailedUpdate, Recorded, ImageShape
  <2>2. QED
    BY <1>7, <2>1, NoImageTypes DEF FailUpdate, FailedUpdate, ImageShape, history
<1>8. CASE LoseUpdate
  BY <1>8, NoImageTypes DEF LoseUpdate, ImageShape, history
<1>9. CASE Resume
  <2>1. \A s \in Services : running[s] \in Image
    BY <1>9 DEF Resume, ImageShape, Images
  <2>2. \A s \in Services : RowOf(source[s], running[s]) \in Selection
    BY <2>1, RowTypesOf DEF ImageShape
  <2>3. selected' \in Rows /\ latest' \in Rows
    BY <1>9, <2>2 DEF Resume, Rows
  <2>4. record'.id \in Nat
    BY <1>9 DEF Resume, Recorded, ImageShape
  <2>5. QED
    BY <1>9, <2>3, <2>4 DEF Resume, ImageShape
<1>10. QED
  BY <1>1, <1>2, <1>3, <1>4, <1>5, <1>6, <1>7, <1>8, <1>9

\* So does every step.
LEMMA ShapeNext ==
  ASSUME ImageShape, [ImageNext]_imageVars
  PROVE  ImageShape'
<1>1. ASSUME NEW r \in Refs, TagMoves(r)
      PROVE  ImageShape'
  <2>1. registry' \in [Refs -> Versions]
    BY <1>1, ImageConstants DEF TagMoves, ImageShape, Versions
  <2>2. QED
    BY <1>1, <2>1 DEF TagMoves, ImageShape, history
<1>2. CASE ImageCrash
  <2>1. check' \in ImageCheck /\ check'.pc = "none"
    BY <1>2, NoImageTypes DEF ImageCrash, NoCheck
  <2>2. holder' \in ImageJob
    BY <1>2, NoImageTypes DEF ImageCrash, FailedUpdate
  <2>3. record'.id \in Nat
    BY <1>2 DEF ImageCrash, FailedUpdate, Recorded, ImageShape
  <2>4. UNCHANGED <<source, registry, local, running, selected, history>>
    BY <1>2 DEF ImageCrash, FailedUpdate
  <2>5. QED
    BY <2>1, <2>2, <2>3, <2>4 DEF ImageShape, history
<1>3. CASE UNCHANGED imageVars
  BY <1>3 DEF imageVars, ImageShape, history
<1>4. QED
  BY <1>1, <1>2, <1>3, ShapeManual, ShapeUpdate DEF ImageNext

-----------------------------------------------------------------------------
(* ImageSelection: versions.                                               *)

\* No image is newer than what its tag has in the registry.
Known(i) == i # Unset /\ i.ref # Built => i.version <= registry[i.ref]

\* Nothing that names an image is newer than what the registry has served.
VersionInv ==
    /\ \A r \in Refs, p \in Platforms : local[r][p] # Unset => local[r][p] <= registry[r]
    /\ \A s \in Services :
          /\ Known(running[s]) /\ Known(holder.images[s]) /\ Known(check.changes[s])
          /\ latest[s] # Unset => latest[s].image # Unset /\ Known(latest[s].image)

\* What a tag stands for has been served.
LEMMA TagKnown ==
  ASSUME ImageShape, VersionInv, NEW c \in Sources
  PROVE  Known(TagImage(c))
<1>1. CASE c.build
  BY <1>1 DEF TagImage, BuiltImage, Known
<1>2. CASE ~c.build
  <2>1. TagImage(c).ref = c.ref /\ TagImage(c).version = Tagged(c)
    BY <1>2 DEF TagImage
  <2>2. registry[c.ref] \in Nat
    BY SourceFacts, VersionFacts DEF ImageShape
  <2>3. Tagged(c) <= registry[c.ref]
    BY <2>2, SourceFacts DEF Tagged, VersionInv
  <2>4. QED
    BY <2>1, <2>3 DEF Known
<1>3. QED
  BY <1>1, <1>2

\* compose up starts and tags images that have been served.
LEMMA UpKnown ==
  ASSUME ImageShape, VersionInv, NEW T \in SUBSET Services, NEW images \in Images,
         \A s \in Services : Known(images[s]), Up(T, images)
  PROVE  /\ \A s \in Services : Known(running'[s])
         /\ \A r \in Refs, p \in Platforms : local'[r][p] # Unset => local'[r][p] <= registry[r]
<1>1. \A s \in Services : Known(UpImage(source[s], images[s]))
  BY TagKnown DEF UpImage, ImageShape
<1>2. \A s \in Services : running'[s] \in {running[s], UpImage(source[s], images[s])}
  BY DEF Up
<1>3. \A r \in Refs : registry[r] \in Nat
  BY VersionFacts DEF ImageShape
<1>4. \A r \in Refs, p \in Platforms : local'[r][p] \in {registry[r], local[r][p]}
  BY DEF Up
<1>5. \A r \in Refs, p \in Platforms : local'[r][p] # Unset => local'[r][p] <= registry[r]
  BY <1>3, <1>4 DEF VersionInv
<1>6. \A s \in Services : Known(running'[s])
  BY <1>1, <1>2 DEF VersionInv
<1>7. QED
  BY <1>5, <1>6

\* A pull tags images that have been served.
LEMMA RetaggedKnown ==
  ASSUME ImageShape, VersionInv, NEW T
  PROVE  /\ \A r \in Refs, p \in Platforms : Retagged(T)[r][p] # Unset => Retagged(T)[r][p] <= registry[r]
         /\ \A s \in Services : s \in T /\ ~source[s].build =>
               Retagged(T)[source[s].ref][EffectivePlatform(source[s])] = registry[source[s].ref]
         /\ \A r \in Refs, p \in Platforms : Retagged(T)[r][p] \in {registry[r], local[r][p]}
<1>1. \A r \in Refs : registry[r] \in Nat
  BY VersionFacts DEF ImageShape
<1>2. \A r \in Refs, p \in Platforms : Retagged(T)[r][p] \in {registry[r], local[r][p]}
  BY DEF Retagged
<1>3. \A r \in Refs, p \in Platforms : Retagged(T)[r][p] # Unset => Retagged(T)[r][p] <= registry[r]
  BY <1>1, <1>2 DEF VersionInv
<1>4. ASSUME NEW s \in Services, s \in T, ~source[s].build
      PROVE  Retagged(T)[source[s].ref][EffectivePlatform(source[s])] = registry[source[s].ref]
  <2>1. source[s].ref \in Refs /\ EffectivePlatform(source[s]) \in Platforms
    BY SourceFacts DEF ImageShape
  <2>2. QED
    BY <1>4, <2>1 DEF Retagged
<1>5. QED
  BY <1>2, <1>3, <1>4

\* A change is an image that has been served.
LEMMA ChangeKnown ==
  ASSUME ImageShape, NEW c \in Sources, NEW i \in Image
  PROVE  Known(Change(c, i))
<1>1. Candidate(c, i).ref = c.ref /\ Candidate(c, i).version = registry[c.ref]
  BY DEF Candidate
<1>2. registry[c.ref] \in Nat
  BY SourceFacts, VersionFacts DEF ImageShape
<1>3. Known(Candidate(c, i))
  BY <1>1, <1>2 DEF Known
<1>4. QED
  BY <1>3 DEF Change, Known

\* The empty override names no image.
LEMMA NoImagesKnown ==
  /\ \A s \in Services : Known(NoImages[s])
  /\ \A s \in Services : Known(FreeLock.images[s]) /\ Known(NoCheck.changes[s])
<1>1. \A s \in Services : NoImages[s] = Unset
  BY DEF NoImages
<1>2. FreeLock.images = NoImages /\ NoCheck.changes = NoImages
  BY DEF FreeLock, NoCheck
<1>3. QED
  BY <1>1, <1>2 DEF Known

\* The registry only moves forward, and only by TagMoves.
LEMMA VersionMoves ==
  ASSUME ImageShape, VersionInv, NEW r \in Refs, TagMoves(r)
  PROVE  VersionInv'
<1>1. registry' = [registry EXCEPT ![r] = registry[r] + 1] /\ registry \in [Refs -> Versions]
  BY DEF TagMoves, ImageShape
<1>2. ASSUME NEW q \in Refs
      PROVE  registry[q] \in Nat /\ registry'[q] \in Nat /\ registry[q] <= registry'[q]
  <2>1. registry[q] \in Nat
    BY <1>1, VersionFacts
  <2>2. registry'[q] = registry[q] \/ registry'[q] = registry[q] + 1
    BY <1>1
  <2>3. QED
    BY <2>1, <2>2
<1>3. UNCHANGED <<local, running, holder, check, latest>>
  BY DEF TagMoves, history
<1>4. ASSUME NEW i \in Image \cup {Unset}, Known(i)
      PROVE  i # Unset /\ i.ref # Built => i.version <= registry'[i.ref]
  <2>1. CASE i # Unset /\ i.ref # Built
    <3>1. i.ref \in Refs /\ i.version \in Nat /\ i.version <= registry[i.ref]
      BY <1>4, <2>1, VersionFacts DEF Image, Known
    <3>2. QED
      BY <1>2, <3>1
  <2>2. QED
    BY <2>1
<1>5. ASSUME NEW q \in Refs, NEW p \in Platforms, local[q][p] # Unset
      PROVE  local[q][p] <= registry'[q]
  <2>1. local[q][p] \in Nat /\ local[q][p] <= registry[q]
    BY <1>5, VersionFacts DEF ImageShape, LocalTags, VersionInv
  <2>2. QED
    BY <1>2, <2>1
<1>6. ASSUME NEW s \in Services
      PROVE  /\ running[s] \in Image \cup {Unset} /\ holder.images[s] \in Image \cup {Unset}
             /\ check.changes[s] \in Image \cup {Unset}
             /\ latest[s] # Unset => latest[s].image \in Image
    BY DEF ImageShape, ImageJob, ImageCheck, Images, Rows, Selection
<1>7. QED
  BY <1>3, <1>4, <1>5, <1>6 DEF VersionInv, Known

\* The images of a step without the registry.
LEMMA VersionRest ==
  ASSUME ImageShape, VersionInv, SelectionIsVerified, [ImageNext]_imageVars, registry' = registry
  PROVE  /\ \A r \in Refs, p \in Platforms : local'[r][p] # Unset => local'[r][p] <= registry[r]
         /\ \A s \in Services :
               /\ Known(running'[s]) /\ Known(holder'.images[s]) /\ Known(check'.changes[s])
               /\ latest'[s] # Unset => latest'[s].image # Unset /\ Known(latest'[s].image)
<1>1. CASE local' = local /\ running' = running /\ holder' = holder /\ check' = check /\ latest' = latest
  BY <1>1 DEF VersionInv
<1>2. CASE local' = local /\ running' = running /\ latest' = latest /\ check' = check
           /\ (holder' = FreeLock \/ BeginDeploy)
  <2>1. CASE holder' = FreeLock
    BY <1>2, <2>1, NoImagesKnown DEF VersionInv
  <2>2. CASE BeginDeploy
    <3>1. \A s \in Services : \/ holder'.images[s] = Unset
                              \/ latest[s] # Unset /\ holder'.images[s] = latest[s].image
      BY <2>2 DEF BeginDeploy, DeployJob, Overrides, SelectionIsVerified
    <3>2. \A s \in Services : Known(holder'.images[s])
      BY <3>1 DEF VersionInv, Known
    <3>3. QED
      BY <1>2, <3>2 DEF VersionInv
  <2>3. QED
    BY <1>2, <2>1, <2>2
<1>3. CASE DeployUp
  <2>1. PICK T \in SUBSET Services, ok \in BOOLEAN, saved \in BOOLEAN :
           /\ Up(T, holder.images)
           /\ holder' = (IF ok /\ saved THEN [holder EXCEPT !.kind = "prune"] ELSE FreeLock)
    BY <1>3 DEF DeployUp
  <2>2. /\ \A s \in Services : Known(running'[s])
        /\ \A r \in Refs, p \in Platforms : local'[r][p] # Unset => local'[r][p] <= registry[r]
    BY <2>1, UpKnown DEF ImageShape, ImageJob, VersionInv
  <2>3. holder'.images = holder.images \/ holder' = FreeLock
    BY <2>1 DEF ImageShape, ImageJob
  <2>4. \A s \in Services : Known(holder'.images[s])
    BY <2>3, NoImagesKnown DEF VersionInv
  <2>5. check' = check /\ latest' = latest
    BY <1>3 DEF DeployUp, history
  <2>6. QED
    BY <2>2, <2>4, <2>5 DEF VersionInv
<1>4. CASE StartStack
  <2>1. /\ \A s \in Services : Known(running'[s])
        /\ \A r \in Refs, p \in Platforms : local'[r][p] # Unset => local'[r][p] <= registry[r]
    BY <1>4, UpKnown, NoImagesKnown, NoImageTypes DEF StartStack
  <2>2. holder' = holder /\ check' = check /\ latest' = latest
    BY <1>4 DEF StartStack, history
  <2>3. QED
    BY <2>1, <2>2 DEF VersionInv
<1>5. CASE PullImages
  <2>1. \A r \in Refs, p \in Platforms : local'[r][p] # Unset => local'[r][p] <= registry[r]
    BY <1>5, RetaggedKnown DEF PullImages
  <2>2. holder'.images = NoImages /\ running' = running /\ check' = check /\ latest' = latest
    BY <1>5 DEF PullImages, FreeLock
  <2>3. QED
    BY <2>1, <2>2, NoImagesKnown DEF VersionInv
<1>6. CASE Capture \/ EndCheck
  <2>1. \A a, b, c : [NoCheck EXCEPT !.pc = "captured", !.source = a, !.running = b,
                                      !.id = c].changes = NoImages
    BY DEF NoCheck
  <2>2. /\ local' = local /\ running' = running /\ holder' = holder /\ latest' = latest
        /\ check'.changes = NoImages
    BY <1>6, <2>1, NoImagesKnown DEF Capture, EndCheck, NoCheck, history
  <2>3. QED
    BY <2>2, NoImagesKnown DEF VersionInv
<1>7. CASE PrepareUpdate
  <2>1. /\ check \in ImageCheck /\ check.source \in [Services -> Sources]
        /\ \A s \in Services : check.running[s] \in Image
    BY <1>7 DEF PrepareUpdate, ImageShape
  <2>2. check'.changes = [s \in Services |-> Change(check.source[s], check.running[s])]
    BY <1>7, <2>1 DEF PrepareUpdate, ImageCheck
  <2>3. \A s \in Services : Known(check'.changes[s])
    BY <2>1, <2>2, ChangeKnown
  <2>4. local' = local /\ running' = running /\ holder' = holder /\ latest' = latest
    BY <1>7 DEF PrepareUpdate, history
  <2>5. QED
    BY <2>3, <2>4 DEF VersionInv
<1>8. CASE BeginUpdate
  <2>1. /\ local' = local /\ running' = running /\ latest' = latest
        /\ holder'.images = check.changes /\ check' = NoCheck
    BY <1>8 DEF BeginUpdate, history
  <2>2. QED
    BY <2>1, NoImagesKnown DEF VersionInv
<1>9. CASE ApplyUpdate
  <2>1. \A s \in Services : running'[s] \in {running[s], holder.images[s]}
    BY <1>9 DEF ApplyUpdate
  <2>2. holder'.images = holder.images /\ local' = local /\ check' = check /\ latest' = latest
    BY <1>9 DEF ApplyUpdate, ImageShape, ImageJob, history
  <2>3. QED
    BY <2>1, <2>2 DEF VersionInv
<1>10. CASE CompleteUpdate
  <2>1. \A s \in Services : holder.images[s] # Unset => running[s] = holder.images[s]
    BY <1>10 DEF CompleteUpdate, Verifies
  <2>2. \A s \in Services : \/ latest'[s] = latest[s]
                            \/ latest'[s].image = running[s] /\ running[s] # Unset
    BY <1>10, <2>1 DEF CompleteUpdate, RowOf
  <2>3. local' = local /\ running' = running /\ check' = check /\ holder' = FreeLock
    BY <1>10 DEF CompleteUpdate
  <2>4. QED
    BY <2>2, <2>3, NoImagesKnown DEF VersionInv
<1>11. CASE Resume
  <2>1. \A s \in Services : latest'[s] = Unset \/ (latest'[s].image = running[s] /\ running[s] # Unset)
    BY <1>11 DEF Resume, RowOf
  <2>2. local' = local /\ running' = running /\ check' = check /\ holder' = holder
    BY <1>11 DEF Resume
  <2>3. QED
    BY <2>1, <2>2 DEF VersionInv
<1>12. CASE ImageCrash
  <2>1. /\ local' = local /\ running' = running /\ latest' = latest
        /\ holder' = FreeLock /\ check' = NoCheck
    BY <1>12 DEF ImageCrash, FailedUpdate, history
  <2>2. QED
    BY <2>1, NoImagesKnown DEF VersionInv
<1>13. CASE \/ Prune \/ Invalidate \/ FailUpdate \/ LoseUpdate \/ BeginDeploy
  <2>1. /\ local' = local /\ running' = running /\ latest' = latest /\ check' = check
        /\ holder' = FreeLock \/ BeginDeploy
    BY <1>13 DEF Prune, Invalidate, FailUpdate, FailedUpdate, LoseUpdate, BeginDeploy, history
  <2>2. QED
    BY <1>2, <2>1
<1>14. CASE \/ \E s \in Services, c \in Sources : Edit(s, c)
            \/ \E r \in Refs : TagMoves(r)
            \/ UNCHANGED imageVars
  <2>1. /\ local' = local /\ running' = running /\ holder' = holder /\ check' = check
        /\ latest' = latest
    BY <1>14 DEF Edit, TagMoves, imageVars, history
  <2>2. QED
    BY <1>1, <2>1
<1>15. QED
  BY <1>3, <1>4, <1>5, <1>6, <1>7, <1>8, <1>9, <1>10, <1>11, <1>12, <1>13, <1>14 DEF ImageNext

\* Every step keeps VersionInv.
LEMMA VersionNext ==
  ASSUME ImageShape, VersionInv, SelectionIsVerified, [ImageNext]_imageVars
  PROVE  VersionInv'
<1>1. CASE registry' = registry
  BY <1>1, VersionRest DEF VersionInv, Known
<1>2. CASE \E r \in Refs : TagMoves(r)
  BY <1>2, VersionMoves
<1>3. registry' = registry \/ \E r \in Refs : TagMoves(r)
  BY DEF ImageNext, imageVars, history, Edit, BeginDeploy, DeployUp, Prune, StartStack, PullImages,
     Invalidate, Capture, PrepareUpdate, BeginUpdate, EndCheck, ApplyUpdate, CompleteUpdate,
     FailUpdate, FailedUpdate, LoseUpdate, Resume, ImageCrash
<1>4. QED
  BY <1>1, <1>2, <1>3

-----------------------------------------------------------------------------
(* ImageSelection: selections.                                             *)

\* completeUpdate and ResumeAutoUpdate select what was verified, and nothing else selects.
LEMMA SelectionNext ==
  ASSUME ImageShape, SelectionIsVerified, [ImageNext]_imageVars
  PROVE  SelectionIsVerified'
<1>1. CASE selected' = selected /\ latest' = latest
  BY <1>1 DEF SelectionIsVerified
<1>2. CASE Prune \/ Invalidate
  <2>1. latest' = latest /\ \A s \in Services : selected'[s] \in {Unset, selected[s]}
    BY <1>2 DEF Prune, Invalidate, NoImages, history
  <2>2. QED
    BY <2>1 DEF SelectionIsVerified
<1>3. CASE CompleteUpdate
  <2>1. \A s \in Services : holder.images[s] # Unset => running[s] = holder.images[s]
    BY <1>3 DEF CompleteUpdate, Verifies
  <2>2. \A s \in Services : \/ selected'[s] = selected[s] /\ latest'[s] = latest[s]
                            \/ selected'[s] = latest'[s]
    BY <1>3, <2>1 DEF CompleteUpdate
  <2>3. QED
    BY <2>2 DEF SelectionIsVerified
<1>4. CASE Resume
  BY <1>4 DEF Resume, SelectionIsVerified
<1>5. CASE ImageCrash
  <2>1. selected' = selected /\ latest' = latest
    BY <1>5 DEF ImageCrash, FailedUpdate, history
  <2>2. QED
    BY <1>1, <2>1
<1>6. QED
  BY <1>1, <1>2, <1>3, <1>4, <1>5 DEF ImageNext, imageVars, history, Edit, BeginDeploy, DeployUp,
     StartStack, PullImages, Capture, PrepareUpdate, BeginUpdate, EndCheck, ApplyUpdate, FailUpdate,
     FailedUpdate, LoseUpdate, TagMoves

\* The overrides of a deployment are the selections, as long as it runs.
DeployInv ==
    holder.kind = "deploy" => \A s \in Services :
        holder.images[s] = IF Overrides(source[s], selected[s]) THEN selected[s].image ELSE Unset

\* A deployment keeps the rows it has read: nobody else writes them under its lock.
LEMMA DeployNext ==
  ASSUME ImageShape, DeployInv, [ImageNext]_imageVars
  PROVE  DeployInv'
<1>1. CASE holder'.kind # "deploy"
  BY <1>1 DEF DeployInv
<1>2. CASE BeginDeploy
  BY <1>2 DEF BeginDeploy, DeployJob, DeployInv, Overrides, PlatformFits
<1>3. CASE holder' = holder /\ source' = source /\ selected' = selected
  BY <1>3 DEF DeployInv, Overrides, PlatformFits
<1>4. CASE \/ DeployUp \/ Prune \/ PullImages \/ Invalidate \/ BeginUpdate \/ ApplyUpdate
           \/ CompleteUpdate \/ FailUpdate \/ LoseUpdate \/ ImageCrash
  <2>1. FreeLock.kind = "none" /\ [FreeLock EXCEPT !.kind = "invalidate"].kind = "invalidate"
    BY DEF FreeLock
  <2>2. [holder EXCEPT !.kind = "prune"].kind = "prune" /\ [holder EXCEPT !.kind = "verify"].kind = "verify"
    BY DEF ImageShape, ImageJob
  <2>3. CASE DeployUp
    BY <1>1, <2>1, <2>2, <2>3 DEF DeployUp
  <2>4. CASE PullImages
    BY <1>1, <2>1, <2>4 DEF PullImages
  <2>5. CASE BeginUpdate
    BY <1>1, <2>5 DEF BeginUpdate
  <2>6. CASE ApplyUpdate
    BY <1>1, <2>2, <2>6 DEF ApplyUpdate
  <2>7. CASE Prune \/ Invalidate \/ CompleteUpdate \/ FailUpdate \/ LoseUpdate \/ ImageCrash
    <3>1. holder' = FreeLock
      BY <2>7 DEF Prune, Invalidate, CompleteUpdate, FailUpdate, FailedUpdate, LoseUpdate,
                  ImageCrash
    <3>2. QED
      BY <1>1, <2>1, <3>1
  <2>8. QED
    BY <1>4, <2>3, <2>4, <2>5, <2>6, <2>7
<1>5. CASE \/ StartStack \/ Capture \/ PrepareUpdate \/ EndCheck \/ UNCHANGED imageVars
           \/ \E r \in Refs : TagMoves(r)
  <2>1. holder' = holder /\ source' = source /\ selected' = selected
    BY <1>5 DEF StartStack, Capture, PrepareUpdate, EndCheck, imageVars, TagMoves
  <2>2. QED
    BY <1>3, <2>1
<1>6. CASE Resume \/ \E s \in Services, c \in Sources : Edit(s, c)
  <2>1. holder' = holder /\ holder.kind = "none"
    BY <1>6 DEF Resume, Edit, StackIdle
  <2>2. QED
    BY <1>1, <2>1
<1>7. QED
  BY <1>2, <1>4, <1>5, <1>6 DEF ImageNext

\* The local tag of a verified image is missing or no older.
CaughtUp(w) == local[w.ref][w.platform] = Unset \/ local[w.ref][w.platform] >= w.image.version

\* A verification that still counts is selected, or its tag has caught up with it.
TagInv ==
    \A s \in Services : latest[s] # Unset =>
        /\ latest[s].image.platform = latest[s].platform
        /\ ~superseded[s] /\ latest[s].image.ref = latest[s].ref =>
              \/ selected[s] = latest[s] /\ holder.kind # "invalidate"
              \/ CaughtUp(latest[s])

\* The image verified last, when there is one.
LEMMA LatestFacts ==
  ASSUME ImageShape, VersionInv, NEW s \in Services, latest[s] # Unset
  PROVE  /\ latest[s].ref \in Refs /\ latest[s].platform \in Platforms
         /\ latest[s].image \in Image /\ latest[s].image # Unset /\ latest[s].image.version \in Nat
         /\ latest[s].image.ref = latest[s].ref => latest[s].image.version <= registry[latest[s].ref]
<1>1. latest[s] \in Selection
  BY DEF ImageShape, Rows
<1>2. latest[s].ref \in Refs /\ latest[s].platform \in Platforms /\ latest[s].image \in Image
  BY <1>1 DEF Selection
<1>3. latest[s].image.version \in Nat
  BY <1>2, VersionFacts DEF Image
<1>4. Built \notin Refs
  BY ImageConstants
<1>5. QED
  BY <1>2, <1>3, <1>4 DEF VersionInv, Known

\* Steps that leave verifications and selections alone.
LEMMA TagFrame ==
  ASSUME ImageShape, VersionInv, TagInv, UNCHANGED <<selected, latest, superseded>>,
         \A r \in Refs, p \in Platforms : local'[r][p] \in {registry[r], local[r][p]},
         holder'.kind # "invalidate" \/ holder' = holder
  PROVE  TagInv'
<1>1. ASSUME NEW s \in Services, latest[s] # Unset, latest[s].image.ref = latest[s].ref,
             CaughtUp(latest[s])
      PROVE  CaughtUp(latest[s])'
  <2>1. PICK w : w = latest[s]
    OBVIOUS
  <2>2. /\ w.ref \in Refs /\ w.platform \in Platforms /\ w.image.version \in Nat
        /\ w.image.version <= registry[w.ref] /\ registry[w.ref] \in Nat
    BY <1>1, <2>1, LatestFacts, VersionFacts DEF ImageShape
  <2>3. local'[w.ref][w.platform] = registry[w.ref] \/ local'[w.ref][w.platform] = local[w.ref][w.platform]
    BY <2>2
  <2>4. local'[w.ref][w.platform] = Unset \/ local'[w.ref][w.platform] >= w.image.version
    BY <1>1, <2>1, <2>2, <2>3 DEF CaughtUp
  <2>5. latest'[s] = w
    BY <2>1
  <2>6. QED
    BY <2>4, <2>5 DEF CaughtUp
<1>2. ASSUME NEW s \in Services, latest'[s] # Unset
      PROVE  /\ latest'[s].image.platform = latest'[s].platform
             /\ ~superseded'[s] /\ latest'[s].image.ref = latest'[s].ref =>
                   \/ selected'[s] = latest'[s] /\ holder'.kind # "invalidate"
                   \/ CaughtUp(latest[s])'
  BY <1>1, <1>2 DEF TagInv
<1>3. QED
  BY <1>2 DEF TagInv, CaughtUp

\* PullImages: a verification is superseded, or its own tag is pulled.
LEMMA TagPull ==
  ASSUME ImageShape, VersionInv, TagInv, PullImages
  PROVE  TagInv'
<1>1. PICK T \in SUBSET Services, ok \in BOOLEAN :
         /\ ok => T = Services
         /\ local' = Retagged(T)
         /\ holder' = (IF InvalidatesAfter(ok) THEN [FreeLock EXCEPT !.kind = "invalidate"] ELSE FreeLock)
         /\ superseded' = [s \in Services |-> superseded[s] \/ (ok /\ ~PullsTagOf(source[s], latest[s]))]
  BY DEF PullImages
<1>2. latest' = latest /\ selected' = selected
  BY DEF PullImages
<1>3. \A r \in Refs, p \in Platforms : local'[r][p] \in {registry[r], local[r][p]}
  BY <1>1, RetaggedKnown
<1>4. CASE ~ok
  <2>1. holder' = FreeLock
    BY <1>1, <1>4 DEF InvalidatesAfter
  <2>2. holder'.kind = "none"
    BY <2>1 DEF FreeLock
  <2>3. \A s \in Services : superseded'[s] <=> superseded[s]
    BY <1>1, <1>4
  <2>4. ASSUME NEW s \in Services, latest[s] # Unset, ~superseded[s], latest[s].image.ref = latest[s].ref,
               CaughtUp(latest[s])
        PROVE  local'[latest[s].ref][latest[s].platform] = Unset
               \/ local'[latest[s].ref][latest[s].platform] >= latest[s].image.version
    <3>1. PICK w : w = latest[s]
      OBVIOUS
    <3>2. /\ w.ref \in Refs /\ w.platform \in Platforms /\ w.image.version \in Nat
          /\ w.image.version <= registry[w.ref] /\ registry[w.ref] \in Nat
      BY <2>4, <3>1, LatestFacts, VersionFacts DEF ImageShape
    <3>3. \/ local'[w.ref][w.platform] = registry[w.ref]
          \/ local'[w.ref][w.platform] = local[w.ref][w.platform]
      BY <1>3, <3>2
    <3>4. QED
      BY <2>4, <3>1, <3>2, <3>3 DEF CaughtUp
  <2>5. QED
    BY <1>2, <2>2, <2>3, <2>4 DEF TagInv, CaughtUp
<1>5. CASE ok
  <2>1. ASSUME NEW s \in Services, latest[s] # Unset, ~superseded'[s],
               latest[s].image.ref = latest[s].ref
        PROVE  local'[latest[s].ref][latest[s].platform] >= latest[s].image.version
    <3>1. PullsTagOf(source[s], latest[s])
      BY <1>1, <1>5, <2>1
    <3>2. /\ ~source[s].build /\ source[s].ref = latest[s].ref
          /\ EffectivePlatform(source[s]) = latest[s].platform
      BY <2>1, <3>1 DEF PullsTagOf
    <3>3. local'[latest[s].ref][latest[s].platform] = registry[latest[s].ref]
      BY <1>1, <1>5, <3>2, RetaggedKnown
    <3>4. /\ latest[s].image.version \in Nat /\ registry[latest[s].ref] \in Nat
          /\ latest[s].image.version <= registry[latest[s].ref]
      BY <2>1, LatestFacts, VersionFacts DEF ImageShape
    <3>5. QED
      BY <3>3, <3>4
  <2>2. QED
    BY <1>2, <2>1 DEF TagInv, CaughtUp
<1>6. QED
  BY <1>4, <1>5

\* Every step keeps TagInv.
LEMMA TagNext ==
  ASSUME ImageShape, VersionInv, SelectionIsVerified, TagInv, [ImageNext]_imageVars
  PROVE  TagInv'
<1>1. FreeLock.kind = "none"
  BY DEF FreeLock
<1>2. [holder EXCEPT !.kind = "prune"].kind = "prune" /\ [holder EXCEPT !.kind = "verify"].kind = "verify"
  BY DEF ImageShape, ImageJob
<1>3. CASE DeployUp \/ StartStack
  <2>1. PICK T \in SUBSET Services, images \in Images : Up(T, images)
    BY <1>3, NoImageTypes DEF DeployUp, StartStack, ImageShape, ImageJob
  <2>2. \A r \in Refs, p \in Platforms : local'[r][p] \in {registry[r], local[r][p]}
    BY <2>1 DEF Up
  <2>3. UNCHANGED <<selected, latest, superseded>>
    BY <1>3 DEF DeployUp, StartStack, history
  <2>4. holder'.kind # "invalidate" \/ holder' = holder
    BY <1>1, <1>2, <1>3 DEF DeployUp, StartStack
  <2>5. QED
    BY <2>2, <2>3, <2>4, TagFrame
<1>4. CASE \/ \E s \in Services, c \in Sources : Edit(s, c)
           \/ BeginDeploy \/ Capture \/ PrepareUpdate \/ BeginUpdate \/ EndCheck
           \/ ApplyUpdate \/ FailUpdate \/ LoseUpdate \/ UNCHANGED imageVars
           \/ \E r \in Refs : TagMoves(r)
  <2>1. local' = local /\ UNCHANGED <<selected, latest, superseded>>
    BY <1>4 DEF Edit, BeginDeploy, Capture, PrepareUpdate, BeginUpdate, EndCheck, ApplyUpdate,
       FailUpdate, FailedUpdate, LoseUpdate, imageVars, TagMoves, history
  <2>2. holder'.kind # "invalidate" \/ holder' = holder
    <3>1. CASE BeginDeploy \/ BeginUpdate
      BY <3>1 DEF BeginDeploy, DeployJob, BeginUpdate
    <3>2. CASE ApplyUpdate
      BY <1>2, <3>2 DEF ApplyUpdate
    <3>3. CASE FailUpdate \/ LoseUpdate
      BY <1>1, <3>3 DEF FailUpdate, FailedUpdate, LoseUpdate
    <3>4. CASE \/ \E s \in Services, c \in Sources : Edit(s, c)
               \/ Capture \/ PrepareUpdate \/ EndCheck \/ UNCHANGED imageVars
               \/ \E r \in Refs : TagMoves(r)
      BY <3>4 DEF Edit, Capture, PrepareUpdate, EndCheck, imageVars, TagMoves
    <3>5. QED
      BY <1>4, <3>1, <3>2, <3>3, <3>4
  <2>3. QED
    BY <2>1, <2>2, TagFrame
<1>5. CASE ImageCrash
  <2>1. local' = local /\ UNCHANGED <<selected, latest, superseded>> /\ holder' = FreeLock
    BY <1>5 DEF ImageCrash, FailedUpdate, history
  <2>2. QED
    BY <1>1, <2>1, TagFrame
<1>6. CASE Prune
  <2>1. local' = local /\ latest' = latest /\ holder' = FreeLock /\ holder.kind = "prune"
    BY <1>6 DEF Prune
  <2>2. \A s \in Services : superseded'[s] <=> (superseded[s] \/ selected'[s] # selected[s])
    BY <1>6 DEF Prune
  <2>3. QED
    BY <1>1, <2>1, <2>2 DEF TagInv, CaughtUp
<1>7. CASE Invalidate
  <2>1. /\ local' = local /\ latest' = latest /\ superseded' = superseded
        /\ holder.kind = "invalidate"
    BY <1>7 DEF Invalidate, history
  <2>2. QED
    BY <2>1 DEF TagInv, CaughtUp
<1>8. CASE CompleteUpdate
  <2>1. \A s \in Services : holder.images[s] # Unset => running[s] = holder.images[s]
    BY <1>8 DEF CompleteUpdate, Verifies
  <2>2. local' = local /\ holder' = FreeLock /\ holder.kind = "verify"
    BY <1>8 DEF CompleteUpdate
  <2>3. ASSUME NEW s \in Services, holder.images[s] # Unset
        PROVE  selected'[s] = latest'[s] /\ latest'[s].image.platform = latest'[s].platform
    BY <1>8, <2>1, <2>3 DEF CompleteUpdate, RowOf
  <2>4. ASSUME NEW s \in Services, holder.images[s] = Unset
        PROVE  selected'[s] = selected[s] /\ latest'[s] = latest[s] /\ (superseded'[s] <=> superseded[s])
    BY <1>8, <2>4 DEF CompleteUpdate
  <2>5. QED
    BY <1>1, <2>2, <2>3, <2>4 DEF TagInv, CaughtUp
<1>9. CASE Resume
  <2>1. \A s \in Services : latest'[s] # Unset => latest'[s] = RowOf(source[s], running[s])
    BY <1>9 DEF Resume
  <2>2. latest' = selected' /\ holder' = holder /\ holder.kind = "none"
    BY <1>9 DEF Resume, StackIdle
  <2>3. \A c, i : RowOf(c, i).platform = i.platform /\ RowOf(c, i).image = i
    BY DEF RowOf
  <2>4. \A s \in Services : latest'[s] # Unset => latest'[s].image.platform = latest'[s].platform
    BY <2>3, <2>1
  <2>5. holder'.kind # "invalidate" /\ \A s \in Services : selected'[s] = latest'[s]
    BY <2>2
  <2>6. QED
    BY <2>4, <2>5 DEF TagInv
<1>10. QED
  BY <1>3, <1>4, <1>5, <1>6, <1>7, <1>8, <1>9, TagPull DEF ImageNext

-----------------------------------------------------------------------------
(* ImageSelection: deployment records.                                     *)

\* The latest record of a deployment.
DeployRecord == [id : 0..MaxDeployments + 1, ok : BOOLEAN, source : [Services -> Sources] \cup {Unset}]

\* The number of records stays below the bound where one more is still due: a
\* job that records at its end has begun below it, an update begins under an open
\* policy only, and an outcome that was lost is recorded by the restart.
RecordInv ==
    /\ record \in DeployRecord /\ policy \in {"open", "paused", "lost"}
    /\ holder.kind \in {"deploy", "update", "verify"} => record.id < MaxDeployments
    /\ holder.kind \in {"update", "verify"} => policy = "open"
    /\ policy = "lost" => record.id <= MaxDeployments
    /\ check.pc # "none" => check.id < MaxDeployments

\* The next record, where there is room for one.
LEMMA RecordedTypes ==
  ASSUME ImageShape, RecordInv, record.id <= MaxDeployments
  PROVE  /\ Recorded(TRUE) \in DeployRecord /\ Recorded(FALSE) \in DeployRecord
         /\ \A ok \in BOOLEAN : Recorded(ok) \in DeployRecord /\ Recorded(ok).id = record.id + 1
<1>1. \A ok \in BOOLEAN : Recorded(ok) \in DeployRecord /\ Recorded(ok).id = record.id + 1
  BY ImageConstants DEF Recorded, DeployRecord, RecordInv, ImageShape
<1>2. Recorded(TRUE) \in DeployRecord
  BY ImageConstants DEF Recorded, DeployRecord, RecordInv, ImageShape
<1>3. Recorded(FALSE) \in DeployRecord
  BY ImageConstants DEF Recorded, DeployRecord, RecordInv, ImageShape
<1>4. QED
  BY <1>1, <1>2, <1>3

\* Every step keeps the count of records.
LEMMA RecordNext ==
  ASSUME ImageShape, RecordInv, [ImageNext]_imageVars
  PROVE  RecordInv'
<1>1. MaxDeployments \in Nat /\ record.id \in Nat
  BY ImageConstants DEF ImageShape
<1>2. /\ FreeLock.kind = "none" /\ NoCheck.pc = "none"
      /\ [FreeLock EXCEPT !.kind = "invalidate"].kind = "invalidate"
  BY DEF FreeLock, NoCheck
<1>room. ASSUME record.id < MaxDeployments
      PROVE  /\ Recorded(TRUE) \in DeployRecord /\ Recorded(FALSE) \in DeployRecord
             /\ \A ok \in BOOLEAN : Recorded(ok) \in DeployRecord /\ Recorded(ok).id = record.id + 1
  <2>1. record.id <= MaxDeployments
    BY <1>room, <1>1
  <2>2. QED
    BY <2>1, RecordedTypes, Zenon
<1>3. CASE \/ \E s \in Services, c \in Sources : Edit(s, c)
           \/ \E r \in Refs : TagMoves(r)
           \/ StartStack \/ UNCHANGED imageVars
  BY <1>3 DEF Edit, TagMoves, StartStack, imageVars, RecordInv
<1>4. CASE BeginDeploy
  BY <1>4 DEF BeginDeploy, DeployJob, RecordInv
<1>5. CASE DeployUp
  <2>1. holder.kind = "deploy" /\ record.id < MaxDeployments /\ policy' = policy /\ check' = check
    BY <1>5 DEF DeployUp, RecordInv
  <2>2. PICK ok \in BOOLEAN : record' \in {Recorded(ok), record}
    BY <1>5 DEF DeployUp
  <2>3. Recorded(ok) \in DeployRecord /\ Recorded(ok).id = record.id + 1
    BY <1>room, <2>1, Zenon
  <2>4. record' \in DeployRecord /\ record'.id <= MaxDeployments
    BY <1>1, <2>1, <2>2, <2>3 DEF RecordInv
  <2>5. holder'.kind \in {"prune", "none"}
    BY <1>2, <1>5 DEF DeployUp, ImageShape, ImageJob
  <2>6. QED
    BY <2>1, <2>4, <2>5 DEF RecordInv
<1>6. CASE Prune \/ Invalidate
  BY <1>2, <1>6 DEF Prune, Invalidate, RecordInv
<1>7. CASE PullImages
  BY <1>2, <1>7 DEF PullImages, RecordInv
<1>8. CASE Capture
  BY <1>1, <1>8 DEF Capture, NoCheck, RecordInv
<1>9. CASE PrepareUpdate
  <2>1. check.pc # "none" /\ check'.id = check.id
    BY <1>9 DEF PrepareUpdate, ImageShape, ImageCheck
  <2>2. QED
    BY <1>9, <2>1 DEF PrepareUpdate, RecordInv
<1>10. CASE BeginUpdate
  <2>1. holder'.kind = "update" /\ policy = "open" /\ record.id < MaxDeployments
    BY <1>10 DEF BeginUpdate, SameImageEvidence, ImagesEligible, RecordInv
  <2>2. QED
    BY <1>2, <1>10, <2>1 DEF BeginUpdate, RecordInv
<1>11. CASE EndCheck
  BY <1>2, <1>11 DEF EndCheck, RecordInv
<1>12. CASE ApplyUpdate
  <2>1. holder.kind = "update" /\ holder'.kind = "verify"
    BY <1>12 DEF ApplyUpdate, ImageShape, ImageJob
  <2>2. QED
    BY <1>12, <2>1 DEF ApplyUpdate, RecordInv
<1>13. CASE CompleteUpdate
  <2>1. record' = Recorded(TRUE) /\ record.id < MaxDeployments /\ policy = "open"
    BY <1>13 DEF CompleteUpdate, RecordInv
  <2>2. record' \in DeployRecord
    BY <1>room, <2>1, Zenon
  <2>3. QED
    BY <1>2, <1>13, <2>1, <2>2 DEF CompleteUpdate, RecordInv
<1>14. CASE FailUpdate
  <2>1. record' = Recorded(FALSE) /\ record.id < MaxDeployments
    BY <1>14 DEF FailUpdate, FailedUpdate, RecordInv
  <2>2. record' \in DeployRecord
    BY <1>room, <2>1, Zenon
  <2>3. QED
    BY <1>2, <1>14, <2>2 DEF FailUpdate, FailedUpdate, RecordInv
<1>15. CASE LoseUpdate
  BY <1>1, <1>2, <1>15 DEF LoseUpdate, RecordInv
<1>16. CASE Resume
  <2>1. record' = Recorded(TRUE) /\ record.id < MaxDeployments /\ holder.kind = "none"
    BY <1>16 DEF Resume, StackIdle
  <2>2. record' \in DeployRecord
    BY <1>room, <2>1, Zenon
  <2>3. QED
    BY <1>16, <2>1, <2>2 DEF Resume, RecordInv
<1>17. CASE ImageCrash
  <2>1. CASE holder.kind \in {"update", "verify"} \/ policy = "lost"
    <3>1. FailedUpdate /\ check' = NoCheck /\ record.id <= MaxDeployments
      BY <1>1, <1>17, <2>1 DEF ImageCrash, RecordInv
    <3>2. record' \in DeployRecord
      BY <3>1, RecordedTypes DEF FailedUpdate
    <3>3. QED
      BY <1>2, <3>1, <3>2 DEF FailedUpdate, RecordInv
  <2>2. CASE ~(holder.kind \in {"update", "verify"} \/ policy = "lost")
    BY <1>2, <1>17, <2>2 DEF ImageCrash, RecordInv
  <2>3. QED
    BY <2>1, <2>2
<1>18. QED
  BY <1>3, <1>4, <1>5, <1>6, <1>7, <1>8, <1>9, <1>10, <1>11, <1>12, <1>13, <1>14, <1>15, <1>16,
     <1>17 DEF ImageNext

\* Types and counts are what the runs check.
LEMMA ImageTypeSuffices == ImageShape /\ RecordInv => ImageTypeOK
  BY DEF ImageShape, RecordInv, DeployRecord, ImageTypeOK, LocalTags, Rows, ImageJob, HolderKinds, ImageCheck

-----------------------------------------------------------------------------
(* ImageSelection: the inductive invariant.                                *)

\* All parts of it.
ImageInv == ImageShape /\ VersionInv /\ SelectionIsVerified /\ DeployInv /\ TagInv /\ RecordInv

\* It holds initially.
LEMMA ImageInitInv ==
  ASSUME ImageInit
  PROVE  ImageInv
<1>1. \A s \in Services : NoImages[s] = Unset
  BY DEF NoImages
<1>2. /\ NoCheck.pc = "none" /\ NoCheck.changes = NoImages
      /\ FreeLock.kind = "none" /\ FreeLock.images = NoImages
  BY DEF NoCheck, FreeLock
<1>3. registry \in [Refs -> Versions] /\ local \in LocalTags
  BY VersionFacts DEF ImageInit, LocalTags
<1>4. ImageShape
  BY <1>2, <1>3, NoImageTypes DEF ImageInit, ImageShape
<1>5. \A r \in Refs, p \in Platforms : local[r][p] = Unset
  BY DEF ImageInit
<1>6. VersionInv
  BY <1>1, <1>2, <1>5 DEF ImageInit, VersionInv, Known
<1>7. SelectionIsVerified /\ DeployInv /\ TagInv
  BY <1>1, <1>2 DEF ImageInit, SelectionIsVerified, DeployInv, TagInv
<1>8. RecordInv
  BY <1>2, ImageConstants DEF ImageInit, RecordInv, DeployRecord
<1>9. QED
  BY <1>4, <1>6, <1>7, <1>8 DEF ImageInv

\* Every step keeps it.
LEMMA ImageInvNext ==
  ASSUME ImageInv, [ImageNext]_imageVars
  PROVE  ImageInv'
  BY ShapeNext, VersionNext, SelectionNext, DeployNext, TagNext, RecordNext DEF ImageInv

\* It holds always.
LEMMA ImageInvariance == ImageSpec => []ImageInv
  BY ImageInitInv, ImageInvNext, PTL DEF ImageSpec

\* A deployment never takes a service below the verified image that it runs.
LEMMA RollbackStep ==
  ASSUME ImageInv, [ImageNext]_imageVars, holder.kind = "deploy", NEW s \in Services,
         Overrides(source[s], latest[s]), latest[s].image = running[s], ~superseded[s],
         running'[s].ref = running[s].ref, running'[s].platform = running[s].platform
  PROVE  running'[s].version >= running[s].version
<1>1. ImageShape /\ VersionInv /\ SelectionIsVerified /\ DeployInv /\ TagInv
  BY DEF ImageInv
<1>2. PICK w : w = latest[s]
  OBVIOUS
<1>3. w # Unset /\ ~source[s].build /\ w.ref = source[s].ref /\ w.image = running[s]
  BY <1>2 DEF Overrides
<1>4. w.image.version \in Nat /\ w.image.platform = w.platform
  BY <1>1, <1>2, <1>3, LatestFacts DEF TagInv
<1>5. CASE running'[s] = running[s]
  BY <1>3, <1>4, <1>5
<1>6. CASE DeployUp
  <2>1. PICK T \in SUBSET Services : Up(T, holder.images)
    BY <1>6 DEF DeployUp
  <2>2. CASE s \notin T
    BY <1>5, <2>1, <2>2 DEF Up
  <2>3. CASE s \in T
    <3>1. running'[s] = UpImage(source[s], holder.images[s])
      BY <2>1, <2>3 DEF Up
    <3>2. CASE selected[s] = w
      <4>1. holder.images[s] = w.image
        BY <1>1, <1>2, <3>2 DEF DeployInv
      <4>2. w.image # Unset
        BY <1>1, <1>2, <1>3, LatestFacts
      <4>3. QED
        BY <1>3, <1>5, <3>1, <4>1, <4>2 DEF UpImage
    <3>3. CASE selected[s] # w
      <4>1. selected[s] = Unset
        BY <1>1, <1>2, <3>3 DEF SelectionIsVerified
      <4>2. holder.images[s] = Unset
        BY <1>1, <4>1 DEF DeployInv, Overrides
      <4>3. running'[s] = [ref |-> source[s].ref, platform |-> EffectivePlatform(source[s]),
                           version |-> Tagged(source[s])]
        BY <1>3, <3>1, <4>2 DEF UpImage, TagImage
      <4>4. w.image.ref = w.ref /\ EffectivePlatform(source[s]) = w.platform
        BY <1>3, <1>4, <4>3
      <4>5. CaughtUp(w)
        BY <1>1, <1>2, <1>3, <3>3, <4>4 DEF TagInv
      <4>6. w.image.version <= registry[w.ref] /\ registry[w.ref] \in Nat
        BY <1>1, <1>2, <1>3, <4>4, LatestFacts, VersionFacts DEF ImageShape
      <4>7. Tagged(source[s]) >= w.image.version
        BY <1>3, <1>4, <4>4, <4>5, <4>6 DEF Tagged, CaughtUp
      <4>8. QED
        BY <1>3, <4>3, <4>7
    <3>4. QED
      BY <3>2, <3>3
  <2>4. QED
    BY <2>2, <2>3
<1>7. CASE ~DeployUp
  <2>1. running' = running
    BY <1>7 DEF ImageNext, imageVars, history, Edit, BeginDeploy, Prune, StartStack, PullImages,
       Invalidate, Capture, PrepareUpdate, BeginUpdate, EndCheck, ApplyUpdate, CompleteUpdate,
       FailUpdate, FailedUpdate, LoseUpdate, Resume, TagMoves, ImageCrash, StackIdle
  <2>2. QED
    BY <1>5, <2>1
<1>8. QED
  BY <1>6, <1>7

-----------------------------------------------------------------------------
(* ImageSelection: where deployments run the source.                       *)

\* A row that pins a service to an image of another reference than its own.
Mismatched(w) == w # Unset /\ w.image.ref # w.ref

\* A deployment that succeeds runs the saved configuration of every service without
\* such a row, and such a row appears only where ResumeAutoUpdate reopens a paused
\* schedule and finds a service running an image of another reference.
ResumeAloneMismatches ==
    [][/\ holder.kind = "deploy" /\ holder'.kind = "prune" => \A s \in Services :
             \/ Mismatched(selected[s])
             \/ /\ running'[s].ref = IF source[s].build THEN Built ELSE source[s].ref
                /\ PlatformFits(source[s], running'[s])
       /\ \A s \in Services : Mismatched(selected'[s]) =>
             \/ selected'[s] = selected[s]
             \/ policy = "paused" /\ policy' = "open" /\ running[s].ref # source[s].ref]_imageVars

\* A row has the platform of its image, and what an update has prepared or applies are
\* images of the references in the source.
OwnInv ==
    /\ \A s \in Services : selected[s] # Unset => selected[s].image.platform = selected[s].platform
    /\ check.pc = "prepared" => \A s \in Services :
          check.changes[s] # Unset => check.changes[s].ref = check.source[s].ref
    /\ holder.kind \in {"update", "verify"} => \A s \in Services :
          holder.images[s] # Unset => holder.images[s].ref = source[s].ref

\* Every step keeps it.
LEMMA OwnNext ==
  ASSUME ImageShape, OwnInv, [ImageNext]_imageVars
  PROVE  OwnInv'
<1>1. /\ FreeLock.kind = "none" /\ NoCheck.pc = "none" /\ \A s \in Services : NoImages[s] = Unset
      /\ [FreeLock EXCEPT !.kind = "invalidate"].kind = "invalidate"
  BY DEF FreeLock, NoCheck, NoImages
<1>2. ASSUME NEW c, NEW i
      PROVE  RowOf(c, i).image = i /\ RowOf(c, i).ref = c.ref /\ RowOf(c, i).platform = i.platform
  BY DEF RowOf
<1>3. CASE \/ StartStack \/ \E r \in Refs : TagMoves(r)
           \/ UNCHANGED imageVars
  BY <1>3 DEF StartStack, TagMoves, imageVars, OwnInv
<1>4. ASSUME NEW s \in Services, NEW c \in Sources, Edit(s, c)
      PROVE  OwnInv'
  BY <1>4 DEF Edit, StackIdle, OwnInv
<1>5. CASE BeginDeploy
  BY <1>5 DEF BeginDeploy, DeployJob, OwnInv
<1>6. CASE DeployUp
  <2>1. holder'.kind \in {"prune", "none"}
    BY <1>1, <1>6 DEF DeployUp, ImageShape, ImageJob
  <2>2. QED
    BY <1>6, <2>1 DEF DeployUp, OwnInv
<1>7. CASE Prune \/ Invalidate
  <2>1. \A s \in Services : selected'[s] \in {selected[s], Unset}
    BY <1>1, <1>7 DEF Prune, Invalidate
  <2>2. QED
    BY <1>1, <1>7, <2>1 DEF Prune, Invalidate, OwnInv
<1>8. CASE PullImages
  BY <1>1, <1>8 DEF PullImages, OwnInv
<1>9. CASE Capture
  BY <1>9 DEF Capture, NoCheck, OwnInv
<1>10. CASE PrepareUpdate
  <2>1. /\ check'.pc = "prepared" /\ check'.source = check.source
        /\ check'.changes = [s \in Services |-> Change(check.source[s], check.running[s])]
    BY <1>10 DEF PrepareUpdate, ImageShape, ImageCheck
  <2>2. \A s \in Services : check'.changes[s] # Unset => check'.changes[s].ref = check'.source[s].ref
    BY <2>1 DEF Change, Candidate
  <2>3. QED
    BY <1>10, <2>2 DEF PrepareUpdate, OwnInv
<1>11. CASE BeginUpdate
  <2>1. /\ check.pc = "prepared" /\ check.source = source /\ source' = source
        /\ holder'.images = check.changes /\ check'.pc = "none" /\ selected' = selected
    BY <1>1, <1>11 DEF BeginUpdate, SameImageEvidence
  <2>2. QED
    BY <2>1 DEF OwnInv
<1>12. CASE EndCheck
  BY <1>1, <1>12 DEF EndCheck, OwnInv
<1>13. CASE ApplyUpdate
  <2>1. /\ holder.kind = "update" /\ holder'.images = holder.images
        /\ UNCHANGED <<source, selected, check>>
    BY <1>13 DEF ApplyUpdate, ImageShape, ImageJob
  <2>2. QED
    BY <2>1 DEF OwnInv
<1>14. CASE CompleteUpdate
  <2>1. /\ holder.kind = "verify" /\ holder'.kind = "none" /\ UNCHANGED <<source, check>>
        /\ \A s \in Services : selected'[s] = IF holder.images[s] # Unset
                                              THEN RowOf(source[s], holder.images[s]) ELSE selected[s]
    BY <1>1, <1>14 DEF CompleteUpdate
  <2>2. QED
    BY <1>2, <2>1 DEF OwnInv
<1>15. CASE FailUpdate \/ LoseUpdate
  BY <1>1, <1>15 DEF FailUpdate, FailedUpdate, LoseUpdate, OwnInv
<1>16. CASE Resume
  <2>1. /\ holder.kind = "none" /\ UNCHANGED <<source, check, holder>>
        /\ \A s \in Services : selected'[s] = IF Excluded(source[s], running[s]) THEN Unset
                                              ELSE RowOf(source[s], running[s])
    BY <1>16 DEF Resume, StackIdle
  <2>2. QED
    BY <1>2, <2>1 DEF OwnInv
<1>17. CASE ImageCrash
  <2>1. check'.pc = "none" /\ holder'.kind = "none" /\ selected' = selected
    BY <1>1, <1>17 DEF ImageCrash, FailedUpdate
  <2>2. QED
    BY <2>1 DEF OwnInv
<1>18. QED
  BY <1>3, <1>4, <1>5, <1>6, <1>7, <1>8, <1>9, <1>10, <1>11, <1>12, <1>13, <1>14, <1>15, <1>16,
     <1>17 DEF ImageNext

\* A deployment that succeeds starts every service, from its row or from its tag.
LEMMA SourceStep ==
  ASSUME ImageInv, OwnInv, [ImageNext]_imageVars, holder.kind = "deploy", holder'.kind = "prune",
         NEW s \in Services, ~Mismatched(selected[s])
  PROVE  /\ running'[s].ref = IF source[s].build THEN Built ELSE source[s].ref
         /\ PlatformFits(source[s], running'[s])
<1>1. DeployUp
  <2>1. FreeLock.kind = "none" /\ [FreeLock EXCEPT !.kind = "invalidate"].kind = "invalidate"
    BY DEF FreeLock
  <2>2. QED
    BY <2>1 DEF ImageNext, imageVars, Edit, BeginDeploy, Prune, StartStack, PullImages, Invalidate,
       Capture, PrepareUpdate, BeginUpdate, EndCheck, ApplyUpdate, CompleteUpdate, FailUpdate,
       FailedUpdate, LoseUpdate, Resume, TagMoves, ImageCrash, StackIdle
<1>2. PICK T \in SUBSET Services, ok \in BOOLEAN, saved \in BOOLEAN :
         /\ ok => T = Services
         /\ Up(T, holder.images)
         /\ holder' = (IF ok /\ saved THEN [holder EXCEPT !.kind = "prune"] ELSE FreeLock)
  BY <1>1 DEF DeployUp
<1>3. T = Services
  BY <1>2 DEF FreeLock
<1>4. running'[s] = UpImage(source[s], holder.images[s])
  BY <1>2, <1>3 DEF Up
<1>5. holder.images[s] = IF Overrides(source[s], selected[s]) THEN selected[s].image ELSE Unset
  BY DEF ImageInv, DeployInv
<1>6. CASE Overrides(source[s], selected[s]) /\ selected[s].image # Unset
  <2>1. running'[s] = selected[s].image
    BY <1>4, <1>5, <1>6 DEF UpImage
  <2>2. selected[s].image.ref = selected[s].ref /\ selected[s].image.platform = selected[s].platform
    BY <1>6 DEF Overrides, OwnInv, Mismatched
  <2>3. QED
    BY <1>6, <2>1, <2>2 DEF Overrides, PlatformFits
<1>7. CASE ~(Overrides(source[s], selected[s]) /\ selected[s].image # Unset)
  <2>1. running'[s] = TagImage(source[s])
    BY <1>4, <1>5, <1>7 DEF UpImage
  <2>2. QED
    BY <2>1 DEF TagImage, BuiltImage, PlatformFits, EffectivePlatform
<1>8. QED
  BY <1>6, <1>7

\* Rows are written by a verified update, which pins images of its own references, and
\* by a Resume; all other steps keep or delete them.
LEMMA MismatchStep ==
  ASSUME OwnInv, [ImageNext]_imageVars, NEW s \in Services, Mismatched(selected'[s]),
         selected'[s] # selected[s]
  PROVE  policy = "paused" /\ policy' = "open" /\ running[s].ref # source[s].ref
<1>1. selected'[s] # Unset /\ selected'[s].image.ref # selected'[s].ref
  BY DEF Mismatched
<1>2. ASSUME NEW c, NEW i
      PROVE  RowOf(c, i).image = i /\ RowOf(c, i).ref = c.ref
  BY DEF RowOf
<1>3. CASE Prune \/ Invalidate
  BY <1>1, <1>3 DEF Prune, Invalidate, NoImages
<1>4. CASE CompleteUpdate
  <2>1. holder.kind = "verify" /\ holder.images[s] # Unset
        /\ selected'[s] = RowOf(source[s], holder.images[s])
    BY <1>4 DEF CompleteUpdate
  <2>2. holder.images[s].ref = source[s].ref
    BY <2>1 DEF OwnInv
  <2>3. QED
    BY <1>1, <1>2, <2>1, <2>2
<1>5. CASE Resume
  <2>1. policy = "paused" /\ policy' = "open"
        /\ selected'[s] \in {Unset, RowOf(source[s], running[s])}
    BY <1>5 DEF Resume
  <2>2. QED
    BY <1>1, <1>2, <2>1
<1>6. CASE UNCHANGED selected
  BY <1>6
<1>7. QED
  BY <1>3, <1>4, <1>5, <1>6 DEF ImageNext, imageVars, Edit, BeginDeploy, DeployUp, StartStack,
     PullImages, Capture, PrepareUpdate, BeginUpdate, EndCheck, ApplyUpdate, FailUpdate,
     FailedUpdate, LoseUpdate, TagMoves, ImageCrash

-----------------------------------------------------------------------------
(* ImageSelection: theorems.                                               *)

\* Sources, tags, containers, rows, jobs and checks have their types, and every
\* run of an update leaves one record: with MaxDeployments begun there is room for
\* the one that a restart adds for an outcome that was lost (RecoverExecution).
THEOREM ImageTypes == ImageSpec => []ImageTypeOK
<1>1. ImageInv => ImageTypeOK
  BY ImageTypeSuffices DEF ImageInv
<1>2. QED
  BY <1>1, ImageInvariance, PTL

\* A row of deployment_images names an image that a verification has seen
\* running for the row's reference and platform (completeUpdate,
\* ResumeAutoUpdate, PruneImages, InvalidateImages).
THEOREM SelectionsAreVerified == ImageSpec => []SelectionIsVerified
<1>1. ImageInv => SelectionIsVerified
  BY DEF ImageInv
<1>2. QED
  BY <1>1, ImageInvariance, PTL

\* A manual deployment never replaces an image that was verified by an older one
\* of the local cache, for every number of services, sources, moves of the registry
\* and deployments (startDeployment, manualImageOverrides, DeployLocked).
THEOREM NoRollback == ImageSpec => NoCachedRollback
<1>1. ImageInv /\ [ImageNext]_imageVars =>
        [holder.kind = "deploy" => \A s \in Services :
          LET old == running[s]
              new == running'[s]
          IN  /\ Overrides(source[s], latest[s]) /\ latest[s].image = old /\ ~superseded[s]
              /\ new.ref = old.ref /\ new.platform = old.platform
              => new.version >= old.version]_imageVars
  BY RollbackStep
<1>2. QED
  BY <1>1, ImageInvariance, PTL DEF ImageSpec, NoCachedRollback

\* A deployment that succeeds runs the saved configuration (docs/user-guide.md:64), but
\* for a service whose row an earlier Resume has taken from an image of another
\* reference: no edit, update, pull, start, failure or crash makes such a row.  So the
\* comparison that ResumeAutoUpdate leaves out is all that is missing.
THEOREM OnlyResumeMismatches == ImageSpec => ResumeAloneMismatches
<1>1. ImageInit => ImageInv /\ OwnInv
  <2>1. /\ NoCheck.pc = "none" /\ FreeLock.kind = "none" /\ \A s \in Services : NoImages[s] = Unset
    BY DEF NoCheck, FreeLock, NoImages
  <2>2. QED
    BY <2>1, ImageInitInv DEF ImageInit, OwnInv
<1>2. ImageInv /\ OwnInv /\ [ImageNext]_imageVars => ImageInv' /\ OwnInv'
  BY ImageInvNext, OwnNext DEF ImageInv
<1>3. ImageInv /\ OwnInv /\ [ImageNext]_imageVars =>
        [/\ holder.kind = "deploy" /\ holder'.kind = "prune" => \A s \in Services :
              \/ Mismatched(selected[s])
              \/ /\ running'[s].ref = IF source[s].build THEN Built ELSE source[s].ref
                 /\ PlatformFits(source[s], running'[s])
         /\ \A s \in Services : Mismatched(selected'[s]) =>
              \/ selected'[s] = selected[s]
              \/ policy = "paused" /\ policy' = "open" /\ running[s].ref # source[s].ref]_imageVars
  BY SourceStep, MismatchStep
<1>4. QED
  BY <1>1, <1>2, <1>3, PTL DEF ImageSpec, ResumeAloneMismatches

=============================================================================

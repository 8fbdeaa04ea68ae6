------------------------- MODULE RepositoryProofs -------------------------
(***************************************************************************)
(* The repository of the stacks.                                           *)
(*                                                                         *)
(* RepositorySetup: the client that serves is the one of the saved row, a  *)
(* ready row can be opened again, a request that failed and took back what *)
(* it had to is accepted when it is sent again, and no cleanup takes away  *)
(* what others have made (RepositoryInv).                                  *)
(*                                                                         *)
(* StackCommit, for any number of committing goroutines: types and locks   *)
(* (GitShape, GitLockInv), that a commit which no other overlapped         *)
(* contains its stack alone and that staged work survives (CommitInv), and *)
(* that an acknowledged commit leaves the history only by the reset of a   *)
(* commit that overlapped it (LossNeedsOverlap).                           *)
(***************************************************************************)
EXTENDS RepositorySetup, StackCommit, SequenceTheorems, TLAPS

-----------------------------------------------------------------------------
(* RepositorySetup: types.                                                 *)

\* The requests that the service lets through are well formed
\* (validateSetupRequest, authentication, validateBranch).
WellFormed(r) ==
    /\ r.kind = "setup" => /\ r.mode \in Modes /\ r.branch \in Branches /\ r.author \in Authors
                           /\ IF r.mode = "remote" THEN r.url \in Urls ELSE r.url = None
    /\ r.kind = "configure" => r.branch \in Branches /\ r.url \in Urls
    /\ r.kind = "remove" => r.url = None

\* What Begin is given.
LEMMA RequestFacts ==
  ASSUME NEW r \in SetupRequests \cup ConfigureRequests \cup {RemoveRequest}
  PROVE  r \in Request /\ WellFormed(r)
<1>1. ASSUME NEW b \in Branches, NEW a \in Authors, NEW f \in BOOLEAN, NEW m \in {"init", "adopt"},
             r = SetupRequest(m, b, a, None, "none", f)
      PROVE  r \in Request /\ WellFormed(r)
  BY <1>1 DEF SetupRequest, Request, Modes, Auths, WellFormed
<1>2. ASSUME NEW b \in Branches, NEW a \in Authors, NEW u \in Urls, NEW auth \in Auths,
             r = SetupRequest("remote", b, a, u, auth, FALSE)
      PROVE  r \in Request /\ WellFormed(r)
  BY <1>2 DEF SetupRequest, Request, Modes, Auths, WellFormed
<1>3. CASE r \in ConfigureRequests
  BY <1>3 DEF ConfigureRequests, Request, Modes, Auths, WellFormed
<1>4. CASE r = RemoveRequest
  BY <1>4 DEF RemoveRequest, Request, Modes, Auths, WellFormed
<1>5. CASE r \in SetupRequests
  <2>1. CASE r \in {SetupRequest("init", b, a, None, "none", FALSE) : b \in Branches, a \in Authors}
    <3>1. PICK b \in Branches, a \in Authors : r = SetupRequest("init", b, a, None, "none", FALSE)
      BY <2>1 DEF SetupRequest
    <3>2. QED
      BY <1>1, <3>1
  <2>2. CASE r \in {SetupRequest("adopt", b, a, None, "none", f) :
                     b \in Branches, a \in Authors, f \in BOOLEAN}
    <3>1. PICK b \in Branches, a \in Authors, f \in BOOLEAN :
             r = SetupRequest("adopt", b, a, None, "none", f)
      BY <2>2
    <3>2. QED
      BY <1>1, <3>1
  <2>3. CASE r \in {SetupRequest("remote", b, a, u, auth, FALSE) :
                     b \in Branches, a \in Authors, u \in Urls, auth \in Auths}
    <3>1. PICK b \in Branches, a \in Authors, u \in Urls, auth \in Auths :
             r = SetupRequest("remote", b, a, u, auth, FALSE)
      BY <2>3 DEF SetupRequest
    <3>2. QED
      BY <1>2, <3>1
  <2>4. QED
    BY <1>5, <2>1, <2>2, <2>3 DEF SetupRequests, SetupRequest
<1>6. QED
  BY <1>3, <1>4, <1>5

\* The fields of the request that holds the lock.
LEMMA JobFacts ==
  ASSUME TypeOK, job # None
  PROVE  /\ job \in Job /\ job.req \in Request /\ job.pc \in Pcs
         /\ job.remote \in Urls \cup {None} /\ job.made \in SUBSET (Entries \cup {"git"})
         /\ job.clean \in BOOLEAN
         /\ job.req.branch \in Branches \cup {None} /\ job.req.author \in Authors \cup {None}
         /\ job.req.url \in Urls \cup {None} /\ job.req.auth \in Auths /\ job.req.flag \in BOOLEAN
         /\ job.req.kind \in {"setup", "configure", "remove"}
<1>1. job \in Job
  BY DEF TypeOK
<1>2. /\ job.req \in Request /\ job.pc \in Pcs /\ job.remote \in Urls \cup {None}
      /\ job.made \in SUBSET (Entries \cup {"git"}) /\ job.clean \in BOOLEAN
  BY <1>1 DEF Job
<1>3. QED
  BY <1>1, <1>2 DEF Request

\* The request moves on to pc, and its records become m and c.
Moved(pc, m, c) ==
    /\ job' \in Job /\ job' # None
    /\ job'.pc = pc /\ job'.made = m /\ job'.clean = c
    /\ job'.req = job.req /\ job'.remote = job.remote

\* A step of a request writes the directory and moves the request on.
LEMMA GoFacts ==
  ASSUME TypeOK, job # None, NEW pc \in Pcs, NEW p, Go(pc, p)
  PROVE  path' = p /\ Moved(pc, job.made, job.clean)
<1>1. job \in Job
  BY JobFacts
<1>2. job' = [job EXCEPT !.pc = pc] /\ path' = p
  BY DEF Go
<1>3. job' \in Job
  BY <1>1, <1>2 DEF Job
<1>4. job' # None
  BY <1>3, NoneIsNoRequest
<1>5. QED
  BY <1>1, <1>2, <1>3, <1>4 DEF Job, Moved

\* So does a step that leaves something behind.
LEMMA GoUncleanFacts ==
  ASSUME TypeOK, job # None, NEW pc \in Pcs, NEW p, GoUnclean(pc, p)
  PROVE  path' = p /\ Moved(pc, job.made, FALSE)
<1>1. job \in Job
  BY JobFacts
<1>2. job' = [job EXCEPT !.pc = pc, !.clean = FALSE] /\ path' = p
  BY DEF GoUnclean
<1>3. job' \in Job
  BY <1>1, <1>2 DEF Job
<1>4. job' # None
  BY <1>3, NoneIsNoRequest
<1>5. QED
  BY <1>1, <1>2, <1>3, <1>4 DEF Job, Moved

\* And one that records an entry.
LEMMA GoMadeFacts ==
  ASSUME TypeOK, job # None, NEW pc \in Pcs, NEW p, NEW e \in Entries \cup {"git"}, GoMade(pc, p, e)
  PROVE  path' = p /\ Moved(pc, job.made \cup {e}, job.clean)
<1>1. job \in Job /\ job.made \in SUBSET (Entries \cup {"git"})
  BY JobFacts
<1>2. job' = [job EXCEPT !.pc = pc, !.made = job.made \cup {e}] /\ path' = p
  BY <1>1 DEF GoMade, Job
<1>3. job' \in Job
  BY <1>1, <1>2 DEF Job
<1>4. job' # None
  BY <1>3, NoneIsNoRequest
<1>5. QED
  BY <1>1, <1>2, <1>3, <1>4 DEF Job, Moved

\* Faults are counted up to their bound.
LEMMA FaultTypes ==
  ASSUME TypeOK, Fault \/ UNCHANGED faults
  PROVE  faults' \in 0..MaxFaults
  BY SetupConstants DEF TypeOK, Fault

\* A client that is opened for a row has the type of a client.
LEMMA ClientTypes ==
  ASSUME NEW w \in Row
  PROVE  BareClient(w) \in Client /\ OpenedClient(w) \in Client
<1>1. BareClient(w) \in Client
  BY SetupConstants DEF BareClient, Client, Row, Auths
<1>2. OpenedClient(w) \in Client
  BY <1>1 DEF OpenedClient, Client, Row, Auths
<1>3. QED
  BY <1>1, <1>2

\* The steps of a setup.
SetupStep ==
    \/ ReserveGit \/ InitRepository \/ CreateOrigin \/ FetchOrigin \/ CheckoutStaged \/ SetHead
    \/ PublishDir \/ LinkFile \/ SetIdentity

\* What a step of a setup that writes .git does: it moves on and leaves the entries alone.
LEMMA SetupWrites ==
  ASSUME TypeOK, \/ InitRepository \/ CreateOrigin \/ FetchOrigin \/ CheckoutStaged \/ SetHead
                 \/ SetIdentity
  PROVE  /\ path' \in Path /\ job # None
         /\ Moved(job'.pc, job.made, job.clean)
         /\ path'.files = path.files /\ path'.alien = path.alien /\ path'.junk = path.junk
         /\ UNCHANGED <<row, live, healthy, resume, torn, up, faults, crashes>>
<1>1. path \in Path
  BY DEF TypeOK
<1>2. job # None
  BY DEF InitRepository, CreateOrigin, FetchOrigin, CheckoutStaged, SetHead, SetIdentity, Doing
<1>3. /\ job.req.branch \in Branches \cup {None} /\ job.req.author \in Authors \cup {None}
      /\ job.req.url \in Urls \cup {None}
  BY <1>2, JobFacts
<1>4. UNCHANGED <<row, live, healthy, resume, torn, up, faults, crashes>>
  BY DEF InitRepository, CreateOrigin, FetchOrigin, CheckoutStaged, SetHead, SetIdentity
<1>5. ASSUME NEW pc \in Pcs, NEW p \in Path, Go(pc, p),
             p.files = path.files, p.alien = path.alien, p.junk = path.junk
      PROVE  /\ path' \in Path /\ Moved(job'.pc, job.made, job.clean)
             /\ path'.files = path.files /\ path'.alien = path.alien /\ path'.junk = path.junk
  <2>1. path' = p /\ Moved(pc, job.made, job.clean)
    BY <1>2, <1>5, GoFacts
  <2>2. Moved(job'.pc, job.made, job.clean)
    BY <2>1 DEF Moved
  <2>3. QED
    BY <1>5, <2>1, <2>2
<1>6. CASE InitRepository
  <2>1. PICK p \in {[path EXCEPT !.git = "present", !.branch = job.req.branch]} : Go("init", p)
    BY <1>6 DEF InitRepository
  <2>2. p \in Path /\ p.files = path.files /\ p.alien = path.alien /\ p.junk = path.junk
    BY <1>1, <1>3 DEF Path
  <2>3. QED
    BY <1>2, <1>4, <1>5, <2>1, <2>2 DEF Pcs
<1>7. CASE CreateOrigin
  <2>1. PICK p \in {[path EXCEPT !.origin = job.req.url]} : Go("origin", p)
    BY <1>7 DEF CreateOrigin
  <2>2. p \in Path /\ p.files = path.files /\ p.alien = path.alien /\ p.junk = path.junk
    BY <1>1, <1>3 DEF Path
  <2>3. QED
    BY <1>2, <1>4, <1>5, <2>1, <2>2 DEF Pcs
<1>8. CASE FetchOrigin
  <2>1. PICK p \in {[path EXCEPT !.ref = job.req.url]} : Go("fetch", p)
    BY <1>8 DEF FetchOrigin
  <2>2. p \in Path /\ p.files = path.files /\ p.alien = path.alien /\ p.junk = path.junk
    BY <1>1, <1>3 DEF Path
  <2>3. QED
    BY <1>2, <1>4, <1>5, <2>1, <2>2 DEF Pcs
<1>9. CASE CheckoutStaged
  <2>1. PICK p \in {[path EXCEPT !.branch = None, !.head = job.req.url]} : Go("checkout", p)
    BY <1>9 DEF CheckoutStaged
  <2>2. p \in Path /\ p.files = path.files /\ p.alien = path.alien /\ p.junk = path.junk
    BY <1>1, <1>3 DEF Path
  <2>3. QED
    BY <1>2, <1>4, <1>5, <2>1, <2>2 DEF Pcs
<1>10. CASE SetHead
  <2>1. PICK p \in {[path EXCEPT !.branch = job.req.branch]} : Go("head", p)
    BY <1>10 DEF SetHead
  <2>2. p \in Path /\ p.files = path.files /\ p.alien = path.alien /\ p.junk = path.junk
    BY <1>1, <1>3 DEF Path
  <2>3. QED
    BY <1>2, <1>4, <1>5, <2>1, <2>2 DEF Pcs
<1>11. CASE SetIdentity
  <2>1. PICK p \in {[path EXCEPT !.author = job.req.author]} : Go("activate", p)
    BY <1>11 DEF SetIdentity
  <2>2. p \in Path /\ p.files = path.files /\ p.alien = path.alien /\ p.junk = path.junk
    BY <1>1, <1>3 DEF Path
  <2>3. QED
    BY <1>2, <1>4, <1>5, <2>1, <2>2 DEF Pcs
<1>12. QED
  BY <1>6, <1>7, <1>8, <1>9, <1>10, <1>11

\* ReserveGit makes .git, and knows it for its own.
LEMMA ReserveFacts ==
  ASSUME TypeOK, ReserveGit
  PROVE  /\ path' \in Path /\ job # None /\ Moved("reserve", job'.made, job'.clean)
         /\ "git" \in job'.made
         /\ \E j \in BOOLEAN : path' = [path EXCEPT !.junk = j, !.git = "reserved"] /\ (j => ~job'.clean)
<1>1. path \in Path /\ job # None
  BY DEF TypeOK, ReserveGit, Doing
<1>2. job \in Job
  BY <1>1, JobFacts
<1>3. CASE GoMade("reserve", [path EXCEPT !.junk = FALSE, !.git = "reserved"], "git")
  <2>1. [path EXCEPT !.junk = FALSE, !.git = "reserved"] \in Path
    BY <1>1 DEF Path
  <2>2. path' = [path EXCEPT !.junk = FALSE, !.git = "reserved"]
        /\ Moved("reserve", job.made \cup {"git"}, job.clean)
    BY <1>1, <1>3, GoMadeFacts DEF Pcs
  <2>3. QED
    BY <1>1, <2>1, <2>2 DEF Moved
<1>4. CASE /\ path' = [path EXCEPT !.git = "reserved"]
           /\ job' = [job EXCEPT !.pc = "reserve", !.made = {"git"}, !.clean = FALSE]
  <2>1. path' \in Path
    BY <1>1, <1>4 DEF Path
  <2>2. path' = [path EXCEPT !.junk = path.junk, !.git = "reserved"] /\ path.junk \in BOOLEAN
    BY <1>1, <1>4 DEF Path
  <2>3. job' \in Job /\ job'.pc = "reserve" /\ job'.made = {"git"} /\ job'.clean = FALSE
        /\ job'.req = job.req /\ job'.remote = job.remote
    BY <1>2, <1>4 DEF Job, Pcs
  <2>4. job' # None
    BY <2>3, NoneIsNoRequest
  <2>5. QED
    BY <1>1, <2>1, <2>2, <2>3, <2>4 DEF Moved
<1>5. QED
  BY <1>3, <1>4 DEF ReserveGit

\* Publishing adds an entry and its record, or turns to the cleanup.
LEMMA PublishFacts ==
  ASSUME TypeOK, PublishDir \/ LinkFile
  PROVE  /\ path' \in Path /\ job # None
         /\ UNCHANGED <<row, live, healthy, resume, torn, up, faults, crashes>>
         /\ \/ path' = path /\ Moved("undofile", job.made, job.clean)
            \/ \E e \in Entries : /\ e \notin path.files
                                  /\ path' = [path EXCEPT !.files = path.files \cup {e}]
                                  /\ Moved(job'.pc, job.made \cup {e}, job.clean)
                                  /\ \/ job.pc = "head" /\ job'.pc = "dir"
                                     \/ job.pc = "dir" /\ job'.pc = "publish"
<1>1. path \in Path /\ job # None
  BY DEF TypeOK, PublishDir, LinkFile, Doing
<1>2. UNCHANGED <<row, live, healthy, resume, torn, up, faults, crashes>>
  BY DEF PublishDir, LinkFile
<1>3. CASE Go("undofile", path)
  BY <1>1, <1>2, <1>3, GoFacts DEF Pcs
<1>4. ASSUME NEW e \in Entries, NEW pc \in Pcs, e \notin path.files,
             GoMade(pc, [path EXCEPT !.files = path.files \cup {e}], e)
      PROVE  /\ path' = [path EXCEPT !.files = path.files \cup {e}] /\ path' \in Path
             /\ Moved(pc, job.made \cup {e}, job.clean) /\ job'.pc = pc
  <2>1. [path EXCEPT !.files = path.files \cup {e}] \in Path
    BY <1>1 DEF Path
  <2>2. path' = [path EXCEPT !.files = path.files \cup {e}] /\ Moved(pc, job.made \cup {e}, job.clean)
    BY <1>1, <1>4, GoMadeFacts
  <2>3. QED
    BY <2>1, <2>2 DEF Moved
<1>5. CASE /\ job.pc = "head" /\ "dir" \notin path.files
           /\ GoMade("dir", [path EXCEPT !.files = path.files \cup {"dir"}], "dir")
  BY <1>1, <1>2, <1>4, <1>5 DEF Entries, Pcs
<1>6. CASE /\ job.pc = "dir" /\ "file" \notin path.files
           /\ GoMade("publish", [path EXCEPT !.files = path.files \cup {"file"}], "file")
  BY <1>1, <1>2, <1>4, <1>6 DEF Entries, Pcs
<1>7. CASE PublishDir
  <2>1. [path EXCEPT !.files = @ \cup {"dir"}] = [path EXCEPT !.files = path.files \cup {"dir"}]
    BY <1>1 DEF Path
  <2>2. QED
    BY <1>3, <1>5, <1>7, <2>1 DEF PublishDir, Doing
<1>8. CASE LinkFile
  <2>1. [path EXCEPT !.files = @ \cup {"file"}] = [path EXCEPT !.files = path.files \cup {"file"}]
    BY <1>1 DEF Path
  <2>2. QED
    BY <1>3, <1>6, <1>8, <2>1 DEF LinkFile, Doing
<1>9. QED
  BY <1>7, <1>8

\* The steps of a setup keep the types and the request.
LEMMA SetupStepTypes ==
  ASSUME TypeOK, SetupStep
  PROVE  TypeOK' /\ job # None /\ job' # None
<1>1. path' \in Path /\ job # None /\ job' \in Job /\ job' # None
  BY SetupWrites, ReserveFacts, PublishFacts DEF SetupStep, Moved
<1>2. UNCHANGED <<row, live, healthy, resume, torn, up, crashes>> /\ (Fault \/ UNCHANGED faults)
  BY DEF SetupStep, ReserveGit, InitRepository, CreateOrigin, FetchOrigin, CheckoutStaged, SetHead,
         PublishDir, LinkFile, SetIdentity
<1>3. QED
  BY <1>1, <1>2, FaultTypes DEF TypeOK

\* The steps that others take in the directory, and those of a failing setup.
UndoStep ==
    \/ ReserveFails \/ (\E e \in Entries : Outsider(e)) \/ AttemptFails
    \/ UndoFile \/ UndoDir \/ UndoGit

\* What others do: there are entries of theirs, and nothing of theirs is lost.
LEMMA OutsiderFacts ==
  ASSUME TypeOK, NEW e \in Entries, Outsider(e)
  PROVE  /\ path' \in Path /\ job # None /\ Moved(job.pc, job.made, FALSE)
         /\ UNCHANGED <<row, live, healthy, resume, torn, up, crashes>>
         /\ path.alien \subseteq path.files => path'.alien \subseteq path'.files
         /\ path.alien \subseteq path.files => path.alien \subseteq path'.files
         /\ \E f, a \in SUBSET Entries : path' = [path EXCEPT !.files = f, !.alien = a]
<1>1. path \in Path /\ job # None
  BY DEF TypeOK, Outsider
<1>2. job \in Job
  BY <1>1, JobFacts
<1>3. job' = [job EXCEPT !.clean = FALSE]
  BY DEF Outsider
<1>4. /\ job' \in Job /\ job'.pc = job.pc /\ job'.made = job.made /\ job'.clean = FALSE
      /\ job'.req = job.req /\ job'.remote = job.remote
  BY <1>2, <1>3 DEF Job
<1>5. Moved(job.pc, job.made, FALSE)
  BY <1>4, NoneIsNoRequest DEF Moved
<1>6. UNCHANGED <<row, live, healthy, resume, torn, up, crashes>>
  BY DEF Outsider
<1>7. CASE path' = [path EXCEPT !.files = @ \cup {"file"}, !.alien = @ \cup {"file"}]
  <2>1. path' = [path EXCEPT !.files = path.files \cup {"file"}, !.alien = path.alien \cup {"file"}]
    BY <1>1, <1>7 DEF Path
  <2>2. path.files \cup {"file"} \in SUBSET Entries /\ path.alien \cup {"file"} \in SUBSET Entries
    BY <1>1 DEF Path, Entries
  <2>3. path' \in Path /\ path'.files = path.files \cup {"file"}
        /\ path'.alien = path.alien \cup {"file"}
    BY <1>1, <2>1, <2>2 DEF Path
  <2>4. QED
    BY <1>1, <1>5, <1>6, <2>1, <2>2, <2>3
<1>8. CASE path.alien = {} /\ path' = [path EXCEPT !.files = {"dir"}, !.alien = {"dir"}]
  <2>1. {"dir"} \in SUBSET Entries
    BY DEF Entries
  <2>2. path' \in Path /\ path'.files = {"dir"} /\ path'.alien = {"dir"}
    BY <1>1, <1>8, <2>1 DEF Path
  <2>3. QED
    BY <1>1, <1>5, <1>6, <1>8, <2>1, <2>2
<1>9. QED
  BY <1>7, <1>8 DEF Outsider

\* A failing step of an attempt turns to the cleanup.
LEMMA AttemptFailsFacts ==
  ASSUME TypeOK, AttemptFails
  PROVE  /\ path' \in Path /\ job # None /\ Moved("undofile", job.made, job'.clean)
         /\ UNCHANGED <<row, live, healthy, resume, torn, up, crashes>>
         /\ \/ path' = path /\ job'.clean = job.clean
            \/ path' = [path EXCEPT !.files = path.files \cup {"dir"}] /\ ~job'.clean
<1>1. path \in Path /\ job # None
  BY DEF TypeOK, AttemptFails
<1>2. UNCHANGED <<row, live, healthy, resume, torn, up, crashes>>
  BY DEF AttemptFails
<1>3. CASE Go("undofile", path)
  <2>1. path' = path /\ Moved("undofile", job.made, job.clean)
    BY <1>1, <1>3, GoFacts DEF Pcs
  <2>2. QED
    BY <1>1, <1>2, <2>1 DEF Moved
<1>4. CASE GoUnclean("undofile", [path EXCEPT !.files = @ \cup {"dir"}])
  <2>1. [path EXCEPT !.files = @ \cup {"dir"}] = [path EXCEPT !.files = path.files \cup {"dir"}]
    BY <1>1 DEF Path
  <2>2. [path EXCEPT !.files = path.files \cup {"dir"}] \in Path
    BY <1>1 DEF Path, Entries
  <2>3. path' = [path EXCEPT !.files = path.files \cup {"dir"}] /\ Moved("undofile", job.made, FALSE)
    BY <1>1, <1>4, <2>1, GoUncleanFacts DEF Pcs
  <2>4. QED
    BY <1>1, <1>2, <2>2, <2>3 DEF Moved
<1>5. QED
  BY <1>3, <1>4 DEF AttemptFails

\* The cleanup of one entry removes it, and nothing of anybody else, or passes it over.
LEMMA UndoFacts ==
  ASSUME TypeOK, job # None, NEW e \in Entries, NEW pc \in Pcs, Undo(e, pc)
  PROVE  /\ path' \in Path /\ Moved(pc, job.made, job'.clean)
         /\ Fault \/ UNCHANGED faults
         /\ \/ path' = [path EXCEPT !.files = path.files \ {e}] /\ Removable(e) /\ job'.clean = job.clean
            \/ path' = path /\ ~job'.clean
            \/ path' = path /\ ~Removable(e) /\ job'.clean = job.clean
<1>1. path \in Path
  BY DEF TypeOK
<1>2. Fault \/ UNCHANGED faults
  BY DEF Undo
<1>3. CASE Removable(e) /\ Go(pc, [path EXCEPT !.files = @ \ {e}])
  <2>1. [path EXCEPT !.files = @ \ {e}] = [path EXCEPT !.files = path.files \ {e}]
    BY <1>1 DEF Path
  <2>2. [path EXCEPT !.files = path.files \ {e}] \in Path
    BY <1>1 DEF Path
  <2>3. path' = [path EXCEPT !.files = path.files \ {e}] /\ Moved(pc, job.made, job.clean)
    BY <1>3, <2>1, GoFacts
  <2>4. QED
    BY <1>2, <1>3, <2>2, <2>3 DEF Moved
<1>4. CASE GoUnclean(pc, path)
  <2>1. path' = path /\ Moved(pc, job.made, FALSE)
    BY <1>4, GoUncleanFacts
  <2>2. QED
    BY <1>1, <1>2, <2>1 DEF Moved
<1>5. CASE ~Removable(e) /\ Go(pc, path)
  <2>1. path' = path /\ Moved(pc, job.made, job.clean)
    BY <1>5, GoFacts
  <2>2. QED
    BY <1>1, <1>2, <1>5, <2>1 DEF Moved
<1>6. QED
  BY <1>3, <1>4, <1>5 DEF Undo

\* What UndoGit leaves is a directory.
LEMMA RemainsTypes ==
  ASSUME NEW p \in Path, NEW kept
  PROVE  /\ GitRemains(p, kept) \in Path
         /\ GitRemains(p, kept).files = p.files /\ GitRemains(p, kept).alien = p.alien
         /\ [EmptyPath EXCEPT !.junk = p.junk, !.files = p.files, !.alien = p.alien] \in Path
         /\ p.git # "absent" => GitRemains(p, kept).git # "absent"
<1>1. EmptyPath \in Path
  BY DEF EmptyPath, Path
<1>2. [EmptyPath EXCEPT !.junk = p.junk, !.files = p.files, !.alien = p.alien] \in Path
  BY <1>1 DEF Path
<1>3. /\ GitRemains(p, kept) \in Path
      /\ GitRemains(p, kept).files = p.files /\ GitRemains(p, kept).alien = p.alien
  BY DEF GitRemains, Path
<1>4. p.git # "absent" => GitRemains(p, kept).git # "absent"
  BY DEF GitRemains, Path
<1>5. QED
  BY <1>2, <1>3, <1>4

\* The steps of a failing setup keep the types.
LEMMA UndoStepTypes ==
  ASSUME TypeOK, UndoStep
  PROVE  TypeOK' /\ job # None
<1>1. path \in Path
  BY DEF TypeOK
<1>2. UNCHANGED <<row, live, healthy, torn, up, crashes>>
  BY DEF UndoStep, ReserveFails, Outsider, AttemptFails, UndoFile, UndoDir, UndoGit
<1>3. job # None
  BY DEF UndoStep, ReserveFails, Outsider, AttemptFails, UndoFile, UndoDir, UndoGit, Doing
<1>4. path' \in Path /\ (job' = None \/ job' \in Job) /\ (resume' = None \/ resume' \in Request)
      /\ (Fault \/ UNCHANGED faults)
  <2>1. ASSUME NEW e \in Entries, Outsider(e)
        PROVE  /\ path' \in Path /\ (job' = None \/ job' \in Job)
               /\ (resume' = None \/ resume' \in Request) /\ (Fault \/ UNCHANGED faults)
    BY <2>1, OutsiderFacts DEF Moved, Outsider, TypeOK
  <2>2. CASE AttemptFails
    BY <2>2, AttemptFailsFacts DEF Moved, AttemptFails, TypeOK
  <2>3. CASE UndoFile
    <3>1. Undo("file", "undodir") /\ resume' = resume
      BY <2>3 DEF UndoFile
    <3>2. "file" \in Entries /\ "undodir" \in Pcs
      BY DEF Entries, Pcs
    <3>3. QED
      BY <1>3, <3>1, <3>2, UndoFacts DEF Moved, TypeOK
  <2>4. CASE UndoDir
    <3>1. Undo("dir", "undogit") /\ resume' = resume
      BY <2>4 DEF UndoDir
    <3>2. "dir" \in Entries /\ "undogit" \in Pcs
      BY DEF Entries, Pcs
    <3>3. QED
      BY <1>3, <3>1, <3>2, UndoFacts DEF Moved, TypeOK
  <2>5. CASE ReserveFails
    <3>1. [path EXCEPT !.junk = FALSE] \in Path /\ [path EXCEPT !.junk = FALSE, !.git = "reserved"] \in Path
      BY <1>1 DEF Path
    <3>2. QED
      BY <1>1, <1>3, <2>5, <3>1, JobFacts DEF ReserveFails, Finish
  <2>6. CASE UndoGit
    BY <1>1, <1>3, <2>6, RemainsTypes, JobFacts DEF UndoGit, Finish
  <2>7. QED
    BY <2>1, <2>2, <2>3, <2>4, <2>5, <2>6 DEF UndoStep
<1>5. QED
  BY <1>2, <1>3, <1>4, FaultTypes DEF TypeOK

\* The steps of a change and of a removal of the remote, the first of a setup, and
\* the one that makes the client.
RemoteStep ==
    \/ InspectConfigure \/ FetchCandidate \/ CheckoutCandidate \/ SetOrigin \/ DeleteCandidate
    \/ DeleteOrigin \/ Provision \/ Activate

\* What DeleteCandidate does to the directory and to the request.
LEMMA DeleteCandidateFacts ==
  ASSUME TypeOK, DeleteCandidate
  PROVE  /\ path' \in Path /\ job # None /\ Moved("save", job.made, job'.clean)
         /\ path' = [path EXCEPT !.candidate = path'.candidate]
         /\ job'.clean => ~path'.candidate
<1>1. path \in Path /\ job # None
  BY DEF TypeOK, DeleteCandidate, Doing
<1>2. CASE Go("save", [path EXCEPT !.candidate = FALSE])
  <2>1. path' = [path EXCEPT !.candidate = FALSE] /\ Moved("save", job.made, job.clean)
    BY <1>1, <1>2, GoFacts DEF Pcs
  <2>2. path' \in Path /\ path'.candidate = FALSE
    BY <1>1, <2>1 DEF Path
  <2>3. QED
    BY <1>1, <2>1, <2>2 DEF Moved
<1>3. CASE GoUnclean("save", path)
  <2>1. path' = path /\ Moved("save", job.made, FALSE)
    BY <1>1, <1>3, GoUncleanFacts DEF Pcs
  <2>2. path = [path EXCEPT !.candidate = path.candidate]
    BY <1>1 DEF Path
  <2>3. QED
    BY <1>1, <2>1, <2>2 DEF Moved
<1>4. QED
  BY <1>2, <1>3 DEF DeleteCandidate

\* The other steps of requests keep the types.
LEMMA RemoteStepTypes ==
  ASSUME TypeOK, RemoteStep
  PROVE  TypeOK' /\ job # None
<1>1. path \in Path
  BY DEF TypeOK
<1>2. job # None
  BY DEF RemoteStep, InspectConfigure, FetchCandidate, CheckoutCandidate, SetOrigin,
         DeleteCandidate, DeleteOrigin, Provision, Activate, Doing
<1>3. path' \in Path /\ (job' = None \/ job' \in Job)
  <2>1. CASE InspectConfigure
    <3>1. [path EXCEPT !.candidate = TRUE] \in Path
      BY <1>1 DEF Path
    <3>2. CASE Finish(path)
      BY <1>1, <3>2 DEF Finish
    <3>3. CASE Go("candidate", [path EXCEPT !.candidate = TRUE])
      BY <1>2, <3>1, <3>3, GoFacts DEF Pcs, Moved
    <3>4. CASE Go("config", path)
      BY <1>1, <1>2, <3>4, GoFacts DEF Pcs, Moved
    <3>5. QED
      BY <2>1, <3>2, <3>3, <3>4 DEF InspectConfigure
  <2>2. CASE FetchCandidate
    <3>1. \A stays \in BOOLEAN : [path EXCEPT !.candidate = stays] \in Path
      BY <1>1 DEF Path
    <3>2. [path EXCEPT !.branch = None, !.head = job.req.url] \in Path
      BY <1>1, <1>2, JobFacts DEF Path
    <3>3. ASSUME NEW stays \in BOOLEAN, Finish([path EXCEPT !.candidate = stays])
          PROVE  path' \in Path /\ job' = None
      BY <3>1, <3>3 DEF Finish
    <3>4. CASE Go("config", path)
      BY <1>1, <1>2, <3>4, GoFacts DEF Pcs, Moved
    <3>5. CASE Go("detached", [path EXCEPT !.branch = None, !.head = job.req.url])
      BY <1>2, <3>2, <3>5, GoFacts DEF Pcs, Moved
    <3>6. QED
      BY <2>2, <3>3, <3>4, <3>5 DEF FetchCandidate
  <2>3. CASE CheckoutCandidate
    <3>1. [path EXCEPT !.branch = job.req.branch, !.files = Entries] \in Path
      BY <1>1, <1>2, JobFacts DEF Path
    <3>2. QED
      BY <1>2, <2>3, <3>1, GoFacts DEF CheckoutCandidate, Pcs, Moved
  <2>4. CASE SetOrigin
    <3>1. [path EXCEPT !.origin = job.req.url,
                       !.ref = IF Selected(job.req.url, job.req.branch) THEN job.req.url ELSE @]
             \in Path
      BY <1>1, <1>2, JobFacts DEF Path
    <3>2. QED
      BY <1>2, <2>4, <3>1, GoFacts DEF SetOrigin, Pcs, Moved
  <2>5. CASE DeleteCandidate
    BY <2>5, DeleteCandidateFacts DEF Moved
  <2>6. CASE DeleteOrigin
    <3>1. [path EXCEPT !.origin = None] \in Path
      BY <1>1 DEF Path
    <3>2. CASE Finish(path)
      BY <1>1, <3>2 DEF Finish
    <3>3. CASE Go("activate", [path EXCEPT !.origin = None])
      BY <1>2, <3>1, <3>3, GoFacts DEF Pcs, Moved
    <3>4. QED
      BY <2>6, <3>2, <3>3 DEF DeleteOrigin
  <2>7. CASE Provision
    <3>1. [path EXCEPT !.author = job.req.author] \in Path /\ [path EXCEPT !.junk = TRUE] \in Path
      BY <1>1, <1>2, JobFacts DEF Path
    <3>2. path.origin \in Urls \cup {None}
      BY <1>1 DEF Path
    <3>3. CASE Finish(path)
      BY <1>1, <3>3 DEF Finish
    <3>4. CASE /\ path' = [path EXCEPT !.author = job.req.author]
               /\ job' = [job EXCEPT !.pc = "activate",
                                     !.remote = IF job.req.flag THEN path.origin ELSE None]
      <4>1. job' \in Job
        BY <1>2, <3>2, <3>4, JobFacts DEF Job, Pcs
      <4>2. QED
        BY <3>1, <3>4, <4>1
    <3>5. CASE Go("activate", path)
      BY <1>1, <1>2, <3>5, GoFacts DEF Pcs, Moved
    <3>6. CASE Go("stage", [path EXCEPT !.junk = TRUE])
      BY <1>2, <3>1, <3>6, GoFacts DEF Pcs, Moved
    <3>7. QED
      BY <2>7, <3>3, <3>4, <3>5, <3>6 DEF Provision
  <2>8. CASE Activate
    BY <1>1, <1>2, <2>8, GoFacts DEF Activate, Pcs, Moved
  <2>9. QED
    BY <2>1, <2>2, <2>3, <2>4, <2>5, <2>6, <2>7, <2>8 DEF RemoteStep
<1>4. UNCHANGED <<row, live, healthy, resume, torn, up, crashes>> /\ (Fault \/ UNCHANGED faults)
  BY DEF RemoteStep, InspectConfigure, FetchCandidate, CheckoutCandidate, SetOrigin,
         DeleteCandidate, DeleteOrigin, Provision, Activate, Deferred
<1>5. QED
  BY <1>2, <1>3, <1>4, FaultTypes DEF TypeOK

\* What is saved is a row.
LEMMA SavedTypes ==
  ASSUME TypeOK, job # None
  PROVE  SavedRow(job) \in Row
<1>1. CASE job.req.kind = "setup"
  BY <1>1, JobFacts DEF SavedRow, Row
<1>2. CASE job.req.kind # "setup"
  BY <1>2, JobFacts DEF SavedRow, Row, TypeOK
<1>3. QED
  BY <1>1, <1>2

\* What Reconcile saves is a row.
LEMMA AdoptedTypes ==
  ASSUME NEW p \in Path
  PROVE  AdoptedRow(p) \in Row
  BY SetupConstants DEF AdoptedRow, Path, Row, Auths

\* The steps after the worktree is written, and those that are not of a request.
ServiceStep ==
    \/ Register \/ (\E r \in SetupRequests \cup ConfigureRequests \cup {RemoveRequest} : Begin(r))
    \/ StepFails \/ Save \/ Replace \/ EditFile \/ CommitFiles \/ Crash \/ Start

\* The remaining steps keep the types.
LEMMA ServiceStepTypes ==
  ASSUME TypeOK, ServiceStep
  PROVE  TypeOK'
<1>1. path \in Path /\ row \in Row /\ MaxFaults \in Nat /\ MaxCrashes \in Nat
  BY SetupConstants DEF TypeOK
<1>2. CASE Register
  <2>1. row' \in Row
    BY <1>1, <1>2 DEF Register, Row
  <2>2. QED
    BY <1>2, <2>1 DEF Register, TypeOK
<1>3. ASSUME NEW r \in SetupRequests \cup ConfigureRequests \cup {RemoveRequest}, Begin(r)
      PROVE  TypeOK'
  <2>1. r \in Request /\ r.url \in Urls \cup {None}
    BY RequestFacts DEF Request
  <2>2. job' \in Job
    BY <1>1, <1>3, <2>1 DEF Begin, Job, Pcs
  <2>3. QED
    BY <1>3, <2>2 DEF Begin, TypeOK
<1>4. CASE StepFails
  <2>1. job # None /\ job.req \in Request
    BY <1>4, JobFacts DEF StepFails
  <2>2. PICK left \in {FALSE, path.candidate} :
           /\ Finish([path EXCEPT !.candidate = left]) /\ resume' \in {None, job.req}
    BY <1>4 DEF StepFails
  <2>3. [path EXCEPT !.candidate = left] \in Path
    BY <1>1 DEF Path
  <2>4. path' \in Path /\ job' = None /\ (resume' = None \/ resume' \in Request)
    BY <2>1, <2>2, <2>3 DEF Finish
  <2>5. torn' \in BOOLEAN
    BY <1>4 DEF StepFails, TypeOK
  <2>6. faults' \in 0..MaxFaults /\ UNCHANGED <<row, live, healthy, up, crashes>>
    BY <1>4, FaultTypes DEF StepFails
  <2>7. QED
    BY <2>4, <2>5, <2>6 DEF TypeOK
<1>5. CASE Save
  <2>1. job # None /\ UNCHANGED <<live, path, healthy, up, crashes>>
    BY <1>5 DEF Save, ClientAtSave
  <2>2. CASE /\ row' = SavedRow(job) /\ job' = [job EXCEPT !.pc = "replace"]
             /\ torn' = (torn /\ job.req.kind # "setup") /\ UNCHANGED <<resume, faults>>
    <3>1. job' \in Job
      BY <2>1, <2>2, JobFacts DEF Job, Pcs
    <3>2. torn' \in BOOLEAN
      BY <2>2
    <3>3. QED
      BY <2>1, <2>2, <3>1, <3>2, SavedTypes DEF TypeOK
  <2>3. CASE /\ Fault /\ resume' = (IF job.clean THEN job.req ELSE None) /\ torn' = TRUE
             /\ job' = None /\ UNCHANGED row
    <3>1. faults' \in 0..MaxFaults
      BY <2>3, FaultTypes
    <3>2. QED
      BY <2>1, <2>3, <3>1, JobFacts DEF TypeOK
  <2>4. QED
    BY <1>5, <2>2, <2>3 DEF Save
<1>6. CASE Replace
  BY <1>1, <1>6, ClientTypes DEF Replace, TypeOK
<1>7. CASE EditFile
  <2>1. path' \in Path
    BY <1>1, <1>7 DEF EditFile, Path
  <2>2. QED
    BY <1>7, <2>1 DEF EditFile, TypeOK
<1>8. CASE CommitFiles
  <2>1. path' \in Path
    BY <1>1, <1>8 DEF CommitFiles, Path
  <2>2. QED
    BY <1>8, <2>1 DEF CommitFiles, TypeOK
<1>9. CASE Crash
  <2>1. crashes' \in 0..MaxCrashes
    BY <1>1, <1>9 DEF Crash, TypeOK
  <2>2. torn' \in BOOLEAN
    BY <1>9 DEF Crash, TypeOK
  <2>3. QED
    BY <1>9, <2>1, <2>2 DEF Crash, TypeOK
<1>10. CASE Start
  <2>1. AdoptedRow(path) \in Row
    BY <1>1, AdoptedTypes
  <2>2. [path EXCEPT !.author = AdoptedRow(path).author] \in Path
    BY <1>1, <2>1 DEF Path, Row
  <2>3. row' \in Row /\ path' \in Path /\ live' \in Client
    BY <1>1, <1>10, <2>1, <2>2, ClientTypes DEF Start, ReconcileRegistered
  <2>4. faults' \in 0..MaxFaults
    BY <1>10, FaultTypes DEF Start, ReconcileRegistered
  <2>5. healthy' \in BOOLEAN
    BY <1>10 DEF Start, Opens
  <2>6. torn' \in BOOLEAN
    BY <1>10 DEF Start, ReconcileRegistered, TypeOK
  <2>7. up' = TRUE /\ resume' = None /\ UNCHANGED <<job, crashes>>
    BY <1>10 DEF Start
  <2>8. QED
    BY <2>3, <2>4, <2>5, <2>6, <2>7 DEF TypeOK
<1>11. QED
  BY <1>2, <1>3, <1>4, <1>5, <1>6, <1>7, <1>8, <1>9, <1>10 DEF ServiceStep

\* Next, by the four kinds of step.
LEMMA NextSteps ==
  ASSUME Next
  PROVE  SetupStep \/ UndoStep \/ RemoteStep \/ ServiceStep
  BY DEF Next, SetupStep, UndoStep, RemoteStep, ServiceStep

\* The mounted directory and the empty row have their types.
LEMMA InitTypes ==
  ASSUME Init
  PROVE  TypeOK
<1>1. row \in Row
  BY DEF Init, Row, Auths
<1>2. EmptyPath \in Path
  BY DEF EmptyPath, Path
<1>3. [EmptyPath EXCEPT !.junk = TRUE] \in Path
  BY DEF EmptyPath, Path
<1>4. path \in Path
  <2>1. PICK b \in Branches \cup {None}, a \in Authors \cup {None}, u \in Urls \cup {None} :
           path \in {EmptyPath, [EmptyPath EXCEPT !.junk = TRUE], MountedWorktree(b, a, u)}
    BY DEF Init, Mounted
  <2>2. MountedWorktree(b, a, u) \in Path
    BY DEF EmptyPath, MountedWorktree, Path, Entries
  <2>3. QED
    BY <1>2, <1>3, <2>1, <2>2
<1>5. live \in Client
  BY <1>1, ClientTypes DEF Init
<1>6. faults \in 0..MaxFaults /\ crashes \in 0..MaxCrashes
  BY SetupConstants DEF Init
<1>7. {healthy, torn, up} \subseteq BOOLEAN /\ job = None /\ resume = None
  BY DEF Init
<1>8. QED
  BY <1>1, <1>4, <1>5, <1>6, <1>7 DEF TypeOK

-----------------------------------------------------------------------------
(* RepositorySetup: the inductive invariant.                               *)

\* No history and no origin.
Blank(p) == p.origin = None /\ p.head = None /\ ~p.ahead

\* The control points at which a setup takes back what it has made.
UndoPcs == {"undofile", "undodir", "undogit"}

\* The control points at which a setup has .git for its own and is not yet done.
OwnedPcs == {"reserve", "init", "origin", "fetch", "checkout", "head", "dir", "publish"} \cup UndoPcs

\* The worktree that a setup has made at each of its steps.
Attempted(j, p) ==
    LET r == j.req
    IN  /\ j.pc = "stage" => p.git = "absent" /\ Blank(p)
        /\ j.pc = "reserve" => p.git = "reserved" /\ Blank(p)
        /\ j.pc = "init" => p.git = "present" /\ p.branch = r.branch /\ Blank(p)
        /\ j.pc = "origin" => /\ r.mode = "remote" /\ p.git = "present" /\ p.branch = r.branch
                              /\ p.origin = r.url /\ p.head = None /\ ~p.ahead
        /\ j.pc \in {"fetch", "checkout", "head", "dir", "publish"} =>
              /\ r.mode = "remote" /\ ~EmptyRemote(r.url)
              /\ p.git = "present" /\ p.origin = r.url /\ p.ref = r.url /\ ~p.ahead
        /\ j.pc \in {"checkout", "head", "dir", "publish"} => p.head = r.url
        /\ j.pc \in {"head", "dir", "publish"} => p.branch = r.branch
        /\ j.pc \in UndoPcs => p.git # "absent"

\* What a setup may save: a retry of it would accept the worktree.
Savable(j, p) ==
    /\ Accepts(j.req, p) /\ p.git = "present" /\ p.branch = j.req.branch
    /\ p.author = j.req.author
    /\ j.remote # None => p.origin = j.remote

\* An attempt that has .git for its own is a setup, before the row is ready.
OwnInv ==
    job # None /\ ("git" \in job.made \/ job.pc = "stage") =>
        /\ job.req.kind = "setup" /\ job.req.mode \in {"init", "remote"} /\ job.remote = job.req.url
        /\ job.pc \in OwnedPcs \cup {"stage", "activate", "save", "replace"}
        /\ job.pc # "replace" => row.state = "registered"

\* A setup writes only where no ready row describes the directory, and saves only
\* what a retry of it would accept; resuming leaves a ready row as it was.
SetupInv ==
    job # None /\ job.req.kind = "setup" =>
        /\ job.pc \in OwnedPcs \cup {"begin", "stage", "activate", "save", "replace"}
        /\ job.pc \in OwnedPcs => "git" \in job.made
        /\ job.pc \in {"begin", "stage"} => job.made = {}
        /\ Attempted(job, path)
        /\ job.pc \in {"activate", "save"} => Savable(job, path)
        /\ job.pc = "activate" /\ job.req.mode # "adopt" /\ row.state = "ready" /\ ~torn =>
              Opens(row, path)

\* An attempt knows every entry that it has to take back, unless something stayed
\* or others wrote; the cleanup has taken back the ones it has passed.
CleanInv ==
    job # None /\ job.req.kind = "setup" =>
        /\ job.pc = "stage" => path.files = {}
        /\ "git" \in job.made /\ job.clean =>
              ~path.junk /\ path.alien = {} /\ path.files \subseteq job.made
        /\ job.pc = "undodir" /\ job.clean => "file" \notin path.files
        /\ job.pc = "undogit" /\ job.clean => path.files = {}

\* A change of the remote keeps the branch and the author that the row names.
ConfigureInv ==
    job # None /\ job.req.kind = "configure" =>
        /\ job.pc \in {"begin", "candidate", "detached", "config", "activate", "save", "replace"}
        /\ job.pc \notin {"begin", "replace"} =>
              /\ row.state = "ready" /\ row.branch = job.req.branch
              /\ path.git = "present" /\ job.remote = job.req.url
              /\ ~torn => path.author = row.author
              /\ job.pc # "detached" => path.branch = job.req.branch
        /\ job.pc \in {"candidate", "config"} /\ ~torn => Opens(row, path)
        /\ job.pc = "detached" /\ ~torn /\ row.remote # None => path.origin = row.remote
        /\ job.pc \in {"activate", "save"} => path.origin = job.req.url
        /\ job.pc = "save" /\ job.clean => ~path.candidate

\* A removal of the remote changes the origin and nothing else that the row names.
RemoveInv ==
    job # None /\ job.req.kind = "remove" =>
        /\ job.pc \in {"begin", "activate", "save", "replace"}
        /\ job.pc \in {"activate", "save"} =>
              /\ row.state = "ready" /\ row.remote # None /\ job.remote = None
              /\ path.git = "present" /\ path.origin = None
              /\ ~torn => path.branch # None /\ path.branch = row.branch /\ path.author = row.author

\* What the request under way is, at each of its control points.
RequestInv == OwnInv /\ SetupInv /\ CleanInv /\ ConfigureInv /\ RemoveInv

\* What a request knows when it begins.
BeginInv ==
    /\ job # None => WellFormed(job.req) /\ row.state # "unregistered"
    /\ job # None /\ job.pc = "begin" => job.remote = job.req.url

\* A ready row describes the directory whenever no request is between its first
\* write and its save.
OpenInv ==
    row.state = "ready" /\ ~torn /\ (job = None \/ job.pc \in {"begin", "replace"}) => Opens(row, path)

\* A directory without .git has no history that a setup would find, and a ready
\* row's has a .git; the entries of others are there.
PathInv ==
    /\ path.git = "absent" => Blank(path)
    /\ row.state = "ready" => path.git = "present"
    /\ path.alien \subseteq path.files

\* The row, the process and the request agree on where they are.
RowStateInv ==
    /\ row.state # "ready" => row.remote = None
    /\ ~up => job = None
    /\ job # None /\ job.pc = "replace" => row.state = "ready"

\* The request to be sent again, and that no other has begun since.
RetryInv ==
    /\ RetryResumes
    /\ resume # None /\ up => job = None /\ row.state # "unregistered"

\* The parts that no step of a request under way can disturb.
FrameInv == BeginInv /\ OpenInv /\ PathInv /\ RowStateInv /\ RetryInv /\ LiveClientIsSaved

\* The inductive invariant of RepositorySetup.
RepositoryInv == TypeOK /\ RequestInv /\ FrameInv

\* A step that moves a request on.
LEMMA GoFrame ==
  ASSUME RepositoryInv, up, job # None, job.pc # "replace",
         job' # None, job'.pc \notin {"begin", "replace"}, job'.req = job.req, PathInv',
         UNCHANGED <<row, live, healthy, resume, torn, up, crashes>>
  PROVE  FrameInv'
<1>1. BeginInv' /\ OpenInv'
  BY DEF RepositoryInv, FrameInv, BeginInv, OpenInv, WellFormed
<1>2. RowStateInv'
  BY DEF RepositoryInv, FrameInv, RowStateInv
<1>3. resume = None
  BY DEF RepositoryInv, FrameInv, RetryInv
<1>4. RetryInv' /\ LiveClientIsSaved'
  BY <1>3 DEF RepositoryInv, FrameInv, RetryInv, RetryResumes, LiveClientIsSaved, OpenedClient,
              BareClient
<1>5. QED
  BY <1>1, <1>2, <1>4 DEF FrameInv

\* A step that ends a request without saving it.
LEMMA FinishFrame ==
  ASSUME RepositoryInv, up, job # None, job.pc # "replace", job' = None, PathInv',
         row.state = "ready" /\ ~torn' => Opens(row, path'),
         resume' # None => RetryResumes',
         UNCHANGED <<row, live, healthy, up>>
  PROVE  RequestInv' /\ FrameInv'
<1>1. RequestInv' /\ BeginInv'
  BY DEF RequestInv, OwnInv, SetupInv, CleanInv, ConfigureInv, RemoveInv, BeginInv
<1>2. OpenInv'
  BY DEF OpenInv, Opens, InspectPath
<1>3. RowStateInv'
  BY DEF RepositoryInv, FrameInv, RowStateInv
<1>4. row.state # "unregistered"
  BY DEF RepositoryInv, FrameInv, BeginInv
<1>5. RetryInv' /\ LiveClientIsSaved'
  BY <1>4 DEF RepositoryInv, FrameInv, RetryInv, RetryResumes, LiveClientIsSaved, OpenedClient,
              BareClient
<1>6. QED
  BY <1>1, <1>2, <1>3, <1>5 DEF FrameInv

\* No request is to be sent again while one is under way.
LEMMA NoResume ==
  ASSUME RepositoryInv, up, job # None
  PROVE  resume = None
  BY DEF RepositoryInv, FrameInv, RetryInv

\* A step of an attempt that keeps the attempt going keeps the invariant.
LEMMA AttemptGoes ==
  ASSUME RepositoryInv, TypeOK', up, job # None, "git" \in job.made \/ job.pc = "stage",
         job.pc # "replace", "git" \in job'.made, job'.pc \in OwnedPcs \cup {"activate"},
         Moved(job'.pc, job'.made, job'.clean),
         UNCHANGED <<row, live, healthy, resume, torn, up, crashes>>,
         Attempted(job', path'), job'.pc = "activate" => Savable(job', path'),
         path'.git # "absent", path'.alien \subseteq path'.files,
         job'.clean => ~path'.junk /\ path'.alien = {} /\ path'.files \subseteq job'.made,
         job'.pc = "undodir" /\ job'.clean => "file" \notin path'.files,
         job'.pc = "undogit" /\ job'.clean => path'.files = {}
  PROVE  RepositoryInv'
<1>1. /\ job.req.kind = "setup" /\ job.req.mode \in {"init", "remote"} /\ job.remote = job.req.url
      /\ row.state = "registered"
  BY DEF RepositoryInv, RequestInv, OwnInv
<1>2. job' # None /\ job'.req = job.req /\ job'.remote = job.remote /\ job'.pc \notin {"begin", "stage", "replace"}
  BY DEF Moved, OwnedPcs, UndoPcs
<1>3. PathInv'
  BY <1>1 DEF PathInv
<1>4. FrameInv'
  BY <1>2, <1>3, GoFrame
<1>5. OwnInv'
  BY <1>1, <1>2 DEF OwnInv
<1>6. SetupInv'
  <2>1. Attempted(job, path)'
    BY DEF Attempted, Blank, EmptyRemote
  <2>2. job'.pc = "activate" => Savable(job, path)'
    BY <1>1, <1>2 DEF Savable, Accepts, Resumes, Adopts, InspectPath, EmptyRemote
  <2>3. QED
    BY <1>1, <1>2, <2>1, <2>2 DEF SetupInv, OwnedPcs, UndoPcs
<1>7. CleanInv'
  BY <1>2 DEF CleanInv
<1>8. ConfigureInv' /\ RemoveInv'
  BY <1>1, <1>2 DEF ConfigureInv, RemoveInv
<1>9. QED
  BY <1>4, <1>5, <1>6, <1>7, <1>8 DEF RepositoryInv, RequestInv

\* An attempt builds what it will save, step by step.
LEMMA SetupStepInv ==
  ASSUME RepositoryInv, SetupStep
  PROVE  RepositoryInv'
<1>1. TypeOK /\ TypeOK' /\ job # None /\ path \in Path
  BY SetupStepTypes DEF RepositoryInv, TypeOK
<1>2. up /\ job.req.kind = "setup" /\ job.pc \in OwnedPcs \cup {"stage"}
      /\ UNCHANGED <<row, live, healthy, resume, torn, up, crashes>>
  BY DEF SetupStep, ReserveGit, InitRepository, CreateOrigin, FetchOrigin, CheckoutStaged, SetHead,
         PublishDir, LinkFile, SetIdentity, Doing, OwnedPcs
<1>3. /\ Attempted(job, path) /\ (job.pc # "stage" => "git" \in job.made)
      /\ job.pc = "stage" => path.files = {}
      /\ "git" \in job.made /\ job.clean =>
            ~path.junk /\ path.alien = {} /\ path.files \subseteq job.made
      /\ path.alien \subseteq path.files
  BY <1>1, <1>2 DEF RepositoryInv, RequestInv, SetupInv, CleanInv, FrameInv, PathInv
<1>4. "git" \in job.made \/ job.pc = "stage"
  BY <1>3
<1>5. WellFormed(job.req) /\ job.req.mode \in {"init", "remote"} /\ job.remote = job.req.url
  BY <1>1, <1>4 DEF RepositoryInv, FrameInv, BeginInv, RequestInv, OwnInv
<1>6. job.pc # "replace"
  BY <1>2 DEF OwnedPcs, UndoPcs
<1>7. CASE ReserveGit
  <2>1. /\ Moved("reserve", job'.made, job'.clean) /\ "git" \in job'.made /\ job.pc = "stage"
    BY <1>1, <1>7, ReserveFacts DEF ReserveGit, Doing
  <2>2. PICK j \in BOOLEAN : path' = [path EXCEPT !.junk = j, !.git = "reserved"] /\ (j => ~job'.clean)
    BY <1>1, <1>7, ReserveFacts
  <2>3. /\ path'.git = "reserved" /\ path'.files = {} /\ path'.alien = {} /\ path'.junk = j
        /\ path'.origin = path.origin /\ path'.head = path.head /\ path'.ahead = path.ahead
    BY <1>1, <1>3, <2>1, <2>2 DEF Path
  <2>4. Blank(path')
    BY <1>3, <2>1, <2>3 DEF Attempted, Blank
  <2>5. job'.pc = "reserve"
    BY <2>1 DEF Moved
  <2>6. Attempted(job', path')
    BY <2>3, <2>4, <2>5 DEF Attempted, UndoPcs
  <2>7. "reserve" \in OwnedPcs
    BY DEF OwnedPcs
  <2>8. QED
    BY <1>1, <1>2, <1>4, <1>6, <2>1, <2>2, <2>3, <2>5, <2>6, <2>7, AttemptGoes
<1>8. CASE PublishDir \/ LinkFile
  <2>1. "git" \in job.made /\ job.pc \in {"head", "dir"}
    BY <1>3, <1>8 DEF PublishDir, LinkFile, Doing
  <2>2. CASE path' = path /\ Moved("undofile", job.made, job.clean)
    <3>1. job'.pc = "undofile" /\ job'.made = job.made /\ job'.clean = job.clean
      BY <2>2 DEF Moved
    <3>2. path'.git # "absent"
      BY <1>3, <2>1, <2>2 DEF Attempted
    <3>3. Attempted(job', path')
      BY <3>1, <3>2 DEF Attempted
    <3>4. "undofile" \in OwnedPcs
      BY DEF OwnedPcs, UndoPcs
    <3>5. QED
      BY <1>1, <1>2, <1>3, <1>4, <1>6, <2>1, <2>2, <3>1, <3>2, <3>3, <3>4, AttemptGoes
  <2>3. ASSUME NEW e \in Entries, path' = [path EXCEPT !.files = path.files \cup {e}],
               Moved(job'.pc, job.made \cup {e}, job.clean),
               \/ job.pc = "head" /\ job'.pc = "dir"
               \/ job.pc = "dir" /\ job'.pc = "publish"
        PROVE  RepositoryInv'
    <3>1. job'.made = job.made \cup {e} /\ job'.clean = job.clean /\ job'.req = job.req
      BY <2>3 DEF Moved
    <3>2. /\ path'.files = path.files \cup {e} /\ path'.alien = path.alien /\ path'.junk = path.junk
          /\ path'.git = path.git /\ path'.origin = path.origin /\ path'.ref = path.ref
          /\ path'.ahead = path.ahead /\ path'.head = path.head /\ path'.branch = path.branch
      BY <1>1, <2>3 DEF Path
    <3>3. path'.git # "absent"
      BY <1>3, <2>1, <3>2 DEF Attempted
    <3>4. Attempted(job', path')
      BY <1>3, <2>3, <3>1, <3>2 DEF Attempted, UndoPcs
    <3>5. "dir" \in OwnedPcs /\ "publish" \in OwnedPcs
      BY DEF OwnedPcs
    <3>6. job'.clean => ~path'.junk /\ path'.alien = {} /\ path'.files \subseteq job'.made
      BY <1>3, <2>1, <3>1, <3>2
    <3>7. path'.alien \subseteq path'.files
      BY <1>3, <3>2
    <3>8. QED
      BY <1>1, <1>2, <1>4, <1>6, <2>1, <2>3, <3>1, <3>3, <3>4, <3>5, <3>6, <3>7, AttemptGoes
  <2>4. QED
    BY <1>1, <1>8, <2>2, <2>3, PublishFacts
<1>9. CASE InitRepository \/ CreateOrigin \/ FetchOrigin \/ CheckoutStaged \/ SetHead \/ SetIdentity
  <2>1. /\ Moved(job'.pc, job.made, job.clean)
        /\ path'.files = path.files /\ path'.alien = path.alien /\ path'.junk = path.junk
    BY <1>1, <1>9, SetupWrites
  <2>2. job'.made = job.made /\ job'.clean = job.clean /\ job'.req = job.req /\ job'.remote = job.remote
    BY <2>1 DEF Moved
  <2>3. "git" \in job.made
    BY <1>3, <1>9 DEF InitRepository, CreateOrigin, FetchOrigin, CheckoutStaged, SetHead, SetIdentity,
                      Doing
  <2>4. /\ job'.clean => ~path'.junk /\ path'.alien = {} /\ path'.files \subseteq job'.made
        /\ path'.alien \subseteq path'.files
    BY <1>3, <2>1, <2>2, <2>3
  <2>5. ASSUME NEW pc \in {"init", "origin", "fetch", "checkout", "head", "activate"}, job'.pc = pc,
               Attempted(job', path'), path'.git # "absent", pc = "activate" => Savable(job', path')
        PROVE  RepositoryInv'
    <3>1. pc \in OwnedPcs \cup {"activate"} /\ pc \notin {"undodir", "undogit"}
      BY DEF OwnedPcs
    <3>2. QED
      BY <1>1, <1>2, <1>4, <1>6, <2>1, <2>2, <2>3, <2>4, <2>5, <3>1, AttemptGoes
  <2>6. CASE InitRepository
    <3>1. job'.pc = "init" /\ job.pc = "reserve"
          /\ path' = [path EXCEPT !.git = "present", !.branch = job.req.branch]
      BY <1>1, <2>6, GoFacts DEF InitRepository, Doing, Pcs, Moved
    <3>2. path'.git = "present" /\ path'.branch = job.req.branch /\ path'.origin = path.origin
          /\ path'.head = path.head /\ path'.ahead = path.ahead
      BY <1>1, <3>1 DEF Path
    <3>3. Attempted(job', path')
      BY <1>3, <2>2, <3>1, <3>2 DEF Attempted, Blank, UndoPcs
    <3>4. QED
      BY <2>5, <3>1, <3>2, <3>3
  <2>7. CASE CreateOrigin
    <3>1. job'.pc = "origin" /\ job.pc = "init" /\ job.req.mode = "remote"
          /\ path' = [path EXCEPT !.origin = job.req.url]
      BY <1>1, <2>7, GoFacts DEF CreateOrigin, Doing, Pcs, Moved
    <3>2. path'.git = path.git /\ path'.branch = path.branch /\ path'.origin = job.req.url
          /\ path'.head = path.head /\ path'.ahead = path.ahead
      BY <1>1, <3>1 DEF Path
    <3>3. Attempted(job', path') /\ path'.git # "absent"
      BY <1>3, <2>2, <3>1, <3>2 DEF Attempted, Blank, UndoPcs
    <3>4. QED
      BY <2>5, <3>1, <3>2, <3>3
  <2>8. CASE FetchOrigin
    <3>1. job'.pc = "fetch" /\ job.pc = "origin" /\ ~EmptyRemote(job.req.url)
          /\ path' = [path EXCEPT !.ref = job.req.url]
      BY <1>1, <2>8, GoFacts DEF FetchOrigin, Doing, Pcs, Moved
    <3>2. path'.git = path.git /\ path'.branch = path.branch /\ path'.origin = path.origin
          /\ path'.ahead = path.ahead /\ path'.ref = job.req.url
      BY <1>1, <3>1 DEF Path
    <3>3. Attempted(job', path') /\ path'.git # "absent"
      BY <1>3, <2>2, <3>1, <3>2 DEF Attempted, UndoPcs
    <3>4. QED
      BY <2>5, <3>1, <3>2, <3>3
  <2>9. CASE CheckoutStaged
    <3>1. job'.pc = "checkout" /\ job.pc = "fetch"
          /\ path' = [path EXCEPT !.branch = None, !.head = job.req.url]
      BY <1>1, <2>9, GoFacts DEF CheckoutStaged, Doing, Pcs, Moved
    <3>2. path'.git = path.git /\ path'.origin = path.origin /\ path'.ahead = path.ahead
          /\ path'.ref = path.ref /\ path'.head = job.req.url
      BY <1>1, <3>1 DEF Path
    <3>3. Attempted(job', path') /\ path'.git # "absent"
      BY <1>3, <2>2, <3>1, <3>2 DEF Attempted, UndoPcs
    <3>4. QED
      BY <2>5, <3>1, <3>2, <3>3
  <2>10. CASE SetHead
    <3>1. job'.pc = "head" /\ job.pc = "checkout" /\ path' = [path EXCEPT !.branch = job.req.branch]
      BY <1>1, <2>10, GoFacts DEF SetHead, Doing, Pcs, Moved
    <3>2. path'.git = path.git /\ path'.origin = path.origin /\ path'.ahead = path.ahead
          /\ path'.ref = path.ref /\ path'.head = path.head /\ path'.branch = job.req.branch
      BY <1>1, <3>1 DEF Path
    <3>3. Attempted(job', path') /\ path'.git # "absent"
      BY <1>3, <2>2, <3>1, <3>2 DEF Attempted, UndoPcs
    <3>4. QED
      BY <2>5, <3>1, <3>2, <3>3
  <2>11. CASE SetIdentity
    <3>1. job'.pc = "activate" /\ path' = [path EXCEPT !.author = job.req.author]
      BY <1>1, <2>11, GoFacts DEF SetIdentity, Pcs, Moved
    <3>2. /\ path.git = "present" /\ path.branch = job.req.branch /\ path.origin = job.req.url
          /\ ~path.ahead
          /\ job.req.mode = "init" => path.head = None /\ path.origin = None
          /\ job.req.mode = "remote" =>
                IF EmptyRemote(job.req.url) THEN path.head = None
                                            ELSE path.head = job.req.url /\ path.ref = job.req.url
      <4>1. CASE Doing("setup", "publish")
        BY <1>3, <4>1 DEF Attempted, Doing
      <4>2. CASE Doing("setup", "init") /\ job.req.mode = "init"
        BY <1>2, <1>3, <1>5, <4>2 DEF Attempted, Doing, Blank, WellFormed
      <4>3. CASE Doing("setup", "origin") /\ EmptyRemote(job.req.url)
        BY <1>3, <4>3 DEF Attempted, Doing
      <4>4. QED
        BY <2>11, <4>1, <4>2, <4>3 DEF SetIdentity
    <3>3. /\ path'.git = "present" /\ path'.branch = job.req.branch /\ path'.author = job.req.author
          /\ path'.origin = path.origin /\ path'.head = path.head /\ path'.ref = path.ref
          /\ path'.ahead = path.ahead
      BY <1>1, <3>1, <3>2 DEF Path
    <3>4. Resumes(job.req, path')
      BY <1>5, <3>2, <3>3 DEF Resumes, InspectPath
    <3>5. Savable(job', path')
      BY <1>2, <1>5, <2>2, <3>2, <3>3, <3>4 DEF Savable, Accepts
    <3>6. Attempted(job', path')
      BY <3>1 DEF Attempted, UndoPcs
    <3>7. QED
      BY <2>5, <3>1, <3>3, <3>5, <3>6
  <2>12. QED
    BY <1>9, <2>6, <2>7, <2>8, <2>9, <2>10, <2>11
<1>10. QED
  BY <1>7, <1>8, <1>9 DEF SetupStep

\* The states in which an attempt fails, others write, or the cleanup is at work.
LEMMA OwnFacts ==
  ASSUME RepositoryInv, job # None, "git" \in job.made, job.pc # "replace"
  PROVE  /\ job.req.kind = "setup" /\ job.req.mode \in {"init", "remote"} /\ job.remote = job.req.url
         /\ row.state = "registered" /\ Attempted(job, path) /\ path.git # "absent"
         /\ job.pc \in OwnedPcs \cup {"activate", "save"}
         /\ job.pc \in {"activate", "save"} => Savable(job, path)
         /\ job.clean => ~path.junk /\ path.alien = {} /\ path.files \subseteq job.made
         /\ path.alien \subseteq path.files
         /\ job.pc = "undodir" /\ job.clean => "file" \notin path.files
         /\ job.pc = "undogit" /\ job.clean => path.files = {}
<1>1. /\ job.req.kind = "setup" /\ job.req.mode \in {"init", "remote"} /\ job.remote = job.req.url
      /\ row.state = "registered"
  BY DEF RepositoryInv, RequestInv, OwnInv
<1>2. /\ Attempted(job, path) /\ job.pc \in OwnedPcs \cup {"activate", "save"}
      /\ job.pc \in {"activate", "save"} => Savable(job, path)
  BY <1>1 DEF RepositoryInv, RequestInv, SetupInv, OwnInv
<1>3. path.git # "absent"
  BY <1>2 DEF Attempted, OwnedPcs, UndoPcs, Savable
<1>4. QED
  BY <1>1, <1>2, <1>3 DEF RepositoryInv, RequestInv, CleanInv, FrameInv, PathInv

\* Whatever others write, an attempt stays what it was, no longer clean.
LEMMA OutsiderInv ==
  ASSUME RepositoryInv, NEW e \in Entries, Outsider(e)
  PROVE  RepositoryInv'
<1>1. TypeOK /\ TypeOK' /\ job # None /\ path \in Path
  BY UndoStepTypes DEF RepositoryInv, TypeOK, UndoStep
<1>2. up /\ "git" \in job.made /\ job.pc \notin {"save", "replace"}
  BY DEF Outsider
<1>3. /\ Moved(job.pc, job.made, FALSE) /\ UNCHANGED <<row, live, healthy, resume, torn, up, crashes>>
      /\ path'.alien \subseteq path'.files
  BY <1>1, <1>2, OutsiderFacts, OwnFacts
<1>4. PICK f, a \in SUBSET Entries : path' = [path EXCEPT !.files = f, !.alien = a]
  BY <1>1, OutsiderFacts
<1>5. /\ path'.git = path.git /\ path'.origin = path.origin /\ path'.ref = path.ref
      /\ path'.ahead = path.ahead /\ path'.head = path.head /\ path'.branch = path.branch
      /\ path'.author = path.author
  BY <1>1, <1>4 DEF Path
<1>6. job'.pc = job.pc /\ job'.made = job.made /\ job'.clean = FALSE /\ job'.req = job.req
      /\ job'.remote = job.remote
  BY <1>3 DEF Moved
<1>7. Attempted(job', path') /\ path'.git # "absent" /\ job.pc \in OwnedPcs \cup {"activate"}
  BY <1>1, <1>2, <1>5, <1>6, OwnFacts DEF Attempted, Blank
<1>8. job.pc = "activate" => Savable(job', path')
  <2>1. ASSUME job.pc = "activate"
        PROVE  Savable(job', path')
    <3>1. Savable(job, path) /\ job.req.kind = "setup" /\ job.req.mode \in {"init", "remote"}
      BY <1>1, <1>2, <2>1, OwnFacts
    <3>2. Resumes(job.req, path)
      BY <3>1 DEF Savable, Accepts, Adopts, InspectPath
    <3>3. Resumes(job.req, path')
      BY <1>5, <3>2 DEF Resumes, InspectPath
    <3>4. QED
      BY <1>5, <1>6, <3>1, <3>3 DEF Savable, Accepts
  <2>2. QED
    BY <2>1
<1>9. QED
  BY <1>1, <1>2, <1>3, <1>6, <1>7, <1>8, AttemptGoes

\* A failing step of an attempt turns to the cleanup.
LEMMA AttemptFailsInv ==
  ASSUME RepositoryInv, AttemptFails
  PROVE  RepositoryInv'
<1>1. TypeOK /\ TypeOK' /\ job # None /\ path \in Path
  BY UndoStepTypes DEF RepositoryInv, TypeOK, UndoStep
<1>2. up /\ "git" \in job.made /\ job.pc # "replace"
  BY DEF AttemptFails
<1>3. /\ Moved("undofile", job.made, job'.clean)
      /\ UNCHANGED <<row, live, healthy, resume, torn, up, crashes>>
      /\ \/ path' = path /\ job'.clean = job.clean
         \/ path' = [path EXCEPT !.files = path.files \cup {"dir"}] /\ ~job'.clean
  BY <1>1, AttemptFailsFacts
<1>4. job'.pc = "undofile" /\ job'.made = job.made /\ "undofile" \in OwnedPcs
  BY <1>3 DEF Moved, OwnedPcs, UndoPcs
<1>5. path'.git = path.git /\ path'.alien = path.alien /\ path.files \subseteq path'.files
  BY <1>1, <1>3 DEF Path
<1>6. path'.git # "absent" /\ path'.alien \subseteq path'.files
  BY <1>1, <1>2, <1>5, OwnFacts
<1>7. Attempted(job', path')
  BY <1>4, <1>6 DEF Attempted
<1>8. job'.clean => ~path'.junk /\ path'.alien = {} /\ path'.files \subseteq job'.made
  BY <1>1, <1>2, <1>3, <1>4, OwnFacts
<1>9. QED
  BY <1>1, <1>2, <1>3, <1>4, <1>6, <1>7, <1>8, AttemptGoes

\* The cleanup passes from entry to entry, and misses none when it stays clean.
LEMMA UndoEntryInv ==
  ASSUME RepositoryInv, UndoFile \/ UndoDir
  PROVE  RepositoryInv'
<1>1. TypeOK /\ TypeOK' /\ job # None /\ path \in Path
  BY UndoStepTypes DEF RepositoryInv, TypeOK, UndoStep
<1>2. up /\ job.req.kind = "setup" /\ job.pc \in {"undofile", "undodir"}
      /\ UNCHANGED <<row, live, healthy, resume, torn, up, crashes>>
  BY DEF UndoFile, UndoDir, Doing
<1>3. "git" \in job.made
  BY <1>1, <1>2 DEF RepositoryInv, RequestInv, SetupInv, OwnedPcs, UndoPcs
<1>4. ASSUME NEW e \in Entries, NEW pc \in {"undodir", "undogit"}, Undo(e, pc),
             \/ e = "file" /\ pc = "undodir" /\ job.pc = "undofile"
             \/ e = "dir" /\ pc = "undogit" /\ job.pc = "undodir"
      PROVE  RepositoryInv'
  <2>1. pc \in Pcs /\ pc \in OwnedPcs /\ pc \in UndoPcs
    BY DEF Pcs, OwnedPcs, UndoPcs
  <2>2. /\ Moved(pc, job.made, job'.clean)
        /\ \/ path' = [path EXCEPT !.files = path.files \ {e}] /\ Removable(e) /\ job'.clean = job.clean
           \/ path' = path /\ ~job'.clean
           \/ path' = path /\ ~Removable(e) /\ job'.clean = job.clean
    BY <1>1, <1>4, <2>1, UndoFacts
  <2>3. job'.pc = pc /\ job'.made = job.made
    BY <2>2 DEF Moved
  <2>4. path'.git = path.git /\ path'.alien = path.alien /\ path'.junk = path.junk
        /\ path'.files \in {path.files, path.files \ {e}}
        /\ (path'.files # path.files => Removable(e))
    BY <1>1, <2>2 DEF Path
  <2>5. path'.git # "absent" /\ path'.alien \subseteq path'.files
    BY <1>1, <1>2, <1>3, <2>4, OwnFacts DEF Removable
  <2>6. Attempted(job', path')
    BY <2>1, <2>3, <2>5 DEF Attempted, UndoPcs
  <2>7. job'.clean => /\ ~path'.junk /\ path'.alien = {} /\ path'.files \subseteq job'.made
                      /\ job.clean
    BY <1>1, <1>2, <1>3, <2>2, <2>3, <2>4, OwnFacts
  <2>8. job'.clean => e \notin path'.files
    <3>1. CASE path' = [path EXCEPT !.files = path.files \ {e}]
      BY <1>1, <3>1 DEF Path
    <3>2. CASE path' = path /\ ~Removable(e) /\ job'.clean = job.clean
      <4>1. job.clean => path.alien = {} /\ path.files \subseteq job.made
        BY <1>1, <1>2, <1>3, OwnFacts
      <4>2. QED
        BY <3>2, <4>1 DEF Removable
    <3>3. QED
      BY <2>2, <3>1, <3>2
  <2>9. /\ pc = "undodir" /\ job'.clean => "file" \notin path'.files
        /\ pc = "undogit" /\ job'.clean => path'.files = {}
    <3>1. pc = "undodir" /\ job'.clean => "file" \notin path'.files
      BY <1>4, <2>8
    <3>2. ASSUME pc = "undogit", job'.clean
          PROVE  path'.files = {}
      <4>1. "file" \notin path.files
        BY <1>1, <1>2, <1>3, <1>4, <2>7, <3>2, OwnFacts
      <4>2. "dir" \notin path'.files /\ "file" \notin path'.files
        BY <1>4, <2>4, <2>8, <3>2, <4>1
      <4>3. path'.files \subseteq Entries
        BY <1>1 DEF TypeOK, Path
      <4>4. QED
        BY <4>2, <4>3 DEF Entries
    <3>3. QED
      BY <3>1, <3>2
  <2>10. QED
    BY <1>1, <1>2, <1>3, <2>1, <2>2, <2>3, <2>5, <2>6, <2>7, <2>9, AttemptGoes
<1>5. CASE UndoFile
  BY <1>4, <1>5 DEF UndoFile, Doing, Entries
<1>6. CASE UndoDir
  BY <1>4, <1>6 DEF UndoDir, Doing, Entries
<1>7. QED
  BY <1>5, <1>6

\* The end of a failed attempt: .git goes, and a clean one leaves the directory empty.
LEMMA EndOfAttemptInv ==
  ASSUME RepositoryInv, ReserveFails \/ UndoGit
  PROVE  RepositoryInv'
<1>1. TypeOK /\ TypeOK' /\ job # None /\ path \in Path
  BY UndoStepTypes DEF RepositoryInv, TypeOK, UndoStep
<1>2. up /\ job.req.kind = "setup" /\ job.pc \in {"stage", "undogit"} /\ job' = None
      /\ UNCHANGED <<row, live, healthy, torn, up, crashes>>
  BY DEF ReserveFails, UndoGit, Doing, Finish
<1>3. /\ job.req.mode \in {"init", "remote"} /\ row.state = "registered" /\ Attempted(job, path)
      /\ job.pc = "stage" => path.files = {} /\ path.alien = {}
      /\ job.pc = "undogit" => "git" \in job.made
      /\ path.alien \subseteq path.files
  BY <1>1, <1>2 DEF RepositoryInv, RequestInv, OwnInv, SetupInv, CleanInv, FrameInv, PathInv, OwnedPcs,
                    UndoPcs
<1>4. ASSUME path'.git = "absent" => Blank(path'), path'.alien \subseteq path'.files,
             resume' # None => /\ resume' = job.req
                               /\ path'.git = "absent" /\ ~path'.junk /\ path'.files = {}
      PROVE  RepositoryInv'
  <2>1. PathInv'
    BY <1>2, <1>3, <1>4 DEF PathInv, Blank
  <2>2. resume' # None => RetryResumes'
    <3>1. ASSUME resume' # None
          PROVE  Accepts(resume', path')
      <4>1. InspectPath(path') = "empty"
        BY <1>4, <3>1 DEF InspectPath
      <4>2. QED
        BY <1>2, <1>3, <1>4, <3>1, <4>1 DEF Accepts
    <3>2. resume' # None => Accepts(resume, path)'
      BY <1>2, <1>3, <1>4, <3>1 DEF Accepts, Resumes, Adopts, InspectPath
    <3>3. resume' # None => resume'.kind = "setup"
      BY <1>2, <1>4
    <3>4. QED
      BY <3>2, <3>3 DEF RetryResumes
  <2>3. QED
    BY <1>1, <1>2, <1>3, <2>1, <2>2, FinishFrame DEF RepositoryInv
<1>5. CASE ReserveFails
  <2>1. job.pc = "stage" /\ path.git = "absent" /\ Blank(path) /\ path.files = {} /\ path.alien = {}
    BY <1>3, <1>5 DEF ReserveFails, Doing, Attempted
  <2>2. CASE path' = [path EXCEPT !.junk = FALSE] /\ resume' = job.req
    <3>1. path'.git = "absent" /\ Blank(path') /\ path'.files = {} /\ path'.alien = {} /\ ~path'.junk
      BY <1>1, <2>1, <2>2 DEF Blank, Path
    <3>2. QED
      BY <1>4, <2>2, <3>1
  <2>3. CASE path' = path /\ resume' = None
    BY <1>4, <2>1, <2>3
  <2>4. CASE path' = [path EXCEPT !.junk = FALSE, !.git = "reserved"] /\ resume' = None
    <3>1. path'.git = "reserved" /\ path'.files = {} /\ path'.alien = {}
      BY <1>1, <2>1, <2>4 DEF Path
    <3>2. QED
      BY <1>4, <2>4, <3>1
  <2>5. QED
    BY <1>5, <2>2, <2>3, <2>4 DEF ReserveFails, Finish
<1>6. CASE UndoGit
  <2>1. job.pc = "undogit" /\ path.git # "absent" /\ "git" \in job.made
    BY <1>3, <1>6 DEF UndoGit, Doing, Attempted, UndoPcs
  <2>2. CASE /\ path' = [EmptyPath EXCEPT !.junk = path.junk, !.files = path.files, !.alien = path.alien]
             /\ resume' = IF job.clean THEN job.req ELSE None
    <3>1. path'.git = "absent" /\ path'.junk = path.junk /\ path'.files = path.files
          /\ path'.alien = path.alien /\ Blank(path')
      BY <2>2 DEF EmptyPath, Blank
    <3>2. job.clean => ~path.junk /\ path.files = {}
      BY <1>1, <2>1, OwnFacts
    <3>3. QED
      BY <1>3, <1>4, <2>2, <3>1, <3>2
  <2>3. CASE /\ \E kept \in SUBSET {"HEAD", "config", "refs"} : Finish(GitRemains(path, kept))
             /\ resume' = None
    <3>1. PICK kept \in SUBSET {"HEAD", "config", "refs"} : path' = GitRemains(path, kept)
      BY <2>3 DEF Finish
    <3>2. path'.git # "absent" /\ path'.files = path.files /\ path'.alien = path.alien
      BY <1>1, <2>1, <3>1, RemainsTypes
    <3>3. QED
      BY <1>3, <1>4, <2>3, <3>2
  <2>4. QED
    BY <1>6, <2>2, <2>3 DEF UndoGit, Finish
<1>7. QED
  BY <1>5, <1>6

\* A setup begins on an empty directory, on its own leftovers, or adopts.
LEMMA ProvisionInv ==
  ASSUME RepositoryInv, Provision
  PROVE  RepositoryInv'
<1>1. TypeOK /\ TypeOK' /\ job # None /\ path \in Path
  BY RemoteStepTypes DEF RepositoryInv, TypeOK, RemoteStep
<1>2. up /\ job.req.kind = "setup" /\ job.pc = "begin"
      /\ UNCHANGED <<row, live, healthy, resume, torn, up, faults, crashes>>
  BY DEF Provision, Doing
<1>3. WellFormed(job.req) /\ job.remote = job.req.url /\ job.made = {} /\ row.state # "unregistered"
  BY <1>1, <1>2 DEF RepositoryInv, FrameInv, BeginInv, RequestInv, SetupInv
<1>4. row.state = "ready" /\ ~torn => Opens(row, path)
  BY <1>2 DEF RepositoryInv, FrameInv, OpenInv
<1>5. PathInv /\ resume = None
  BY <1>1, <1>2, NoResume DEF RepositoryInv, FrameInv
<1>6. CASE Finish(path)
  <2>1. job' = None /\ path' = path
    BY <1>6 DEF Finish
  <2>2. PathInv'
    BY <1>2, <1>5, <2>1 DEF PathInv, Blank
  <2>3. QED
    BY <1>1, <1>2, <1>4, <1>5, <2>1, <2>2, FinishFrame DEF RepositoryInv
<1>7. ASSUME job' # None, job'.req = job.req, job'.made = {}, job'.pc = "activate",
             path'.git = "present", path'.files = path.files, path'.alien = path.alien,
             Savable(job, path)',
             job.req.mode # "adopt" /\ row.state = "ready" /\ ~torn => Opens(row, path)'
      PROVE  RepositoryInv'
  <2>1. PathInv'
    BY <1>5, <1>7 DEF PathInv
  <2>2. FrameInv'
    BY <1>1, <1>2, <1>7, <2>1, GoFrame
  <2>3. Attempted(job, path)'
    BY <1>7 DEF Attempted, UndoPcs
  <2>4. SetupInv'
    BY <1>2, <1>7, <2>3 DEF SetupInv, OwnedPcs, UndoPcs
  <2>5. OwnInv' /\ CleanInv' /\ ConfigureInv' /\ RemoveInv'
    BY <1>2, <1>7 DEF OwnInv, CleanInv, ConfigureInv, RemoveInv
  <2>6. QED
    BY <1>1, <2>2, <2>4, <2>5 DEF RepositoryInv, RequestInv
<1>8. CASE /\ Accepts(job.req, path) /\ job.req.mode = "adopt"
           /\ path' = [path EXCEPT !.author = job.req.author]
           /\ job' = [job EXCEPT !.pc = "activate",
                                 !.remote = IF job.req.flag THEN path.origin ELSE None]
  <2>1. job'.pc = "activate" /\ job'.req = job.req /\ job'.made = {}
        /\ (job'.remote # None => job'.remote = path.origin)
    BY <1>1, <1>3, <1>8, JobFacts DEF Job
  <2>2. job' # None
    <3>1. path.origin \in Urls \cup {None}
      BY <1>1 DEF Path
    <3>2. job' \in Job
      BY <1>1, <1>8, <3>1, JobFacts DEF Job, Pcs
    <3>3. QED
      BY <3>2, NoneIsNoRequest
  <2>3. path.git = "present" /\ path.branch = job.req.branch
    <3>1. Adopts(job.req, path)
      BY <1>2, <1>8 DEF Accepts, Resumes
    <3>2. QED
      BY <3>1 DEF Adopts, InspectPath
  <2>4. path'.git = "present" /\ path'.branch = job.req.branch /\ path'.author = job.req.author
        /\ path'.origin = path.origin /\ path'.files = path.files /\ path'.alien = path.alien
    BY <1>1, <1>8, <2>3 DEF Path
  <2>5. Accepts(job.req, path)'
    BY <1>2, <1>8, <2>1, <2>4 DEF Accepts, Adopts, InspectPath
  <2>6. Savable(job, path)'
    BY <2>1, <2>4, <2>5 DEF Savable
  <2>7. QED
    BY <1>7, <1>8, <2>1, <2>2, <2>4, <2>6
<1>9. CASE /\ Accepts(job.req, path) /\ job.req.mode # "adopt" /\ InspectPath(path) = "worktree"
           /\ Go("activate", path)
  <2>1. job' # None /\ job'.pc = "activate" /\ job'.req = job.req /\ job'.made = {}
        /\ job'.remote = job.remote /\ path' = path
    BY <1>1, <1>3, <1>9, GoFacts DEF Pcs, Moved
  <2>2. Resumes(job.req, path)
    BY <1>2, <1>9 DEF Accepts, Adopts
  <2>3. path.git = "present" /\ path.branch = job.req.branch /\ path.author = job.req.author
        /\ (job.remote # None => path.origin = job.remote)
    BY <1>2, <1>3, <2>2 DEF Resumes, InspectPath, WellFormed
  <2>4. Accepts(job.req, path)'
    BY <1>2, <2>1, <2>2 DEF Accepts, Resumes, InspectPath
  <2>5. Savable(job, path)'
    BY <2>1, <2>3, <2>4 DEF Savable
  <2>6. row.state = "ready" /\ ~torn => Opens(row, path)'
    BY <1>2, <1>4, <2>1 DEF Opens, InspectPath
  <2>7. QED
    BY <1>7, <2>1, <2>3, <2>5, <2>6
<1>10. CASE /\ Accepts(job.req, path) /\ job.req.mode # "adopt" /\ InspectPath(path) # "worktree"
            /\ Go("stage", [path EXCEPT !.junk = TRUE])
  <2>1. job' # None /\ job'.pc = "stage" /\ job'.req = job.req /\ job'.made = {}
        /\ job'.remote = job.remote /\ path' = [path EXCEPT !.junk = TRUE]
    BY <1>1, <1>3, <1>10, GoFacts DEF Pcs, Moved
  <2>2. path.git = "absent" /\ path.files = {}
    <3>1. InspectPath(path) = "empty"
      BY <1>2, <1>10 DEF Accepts, Adopts, Resumes
    <3>2. QED
      BY <1>1, <3>1 DEF InspectPath, Path
  <2>3. path'.git = "absent" /\ Blank(path') /\ path'.files = {} /\ path'.alien = path.alien
    BY <1>1, <1>5, <2>1, <2>2 DEF Blank, Path, PathInv
  <2>4. row.state = "registered"
    BY <1>1, <1>3, <1>5, <2>2 DEF PathInv, TypeOK, Row
  <2>5. PathInv'
    BY <1>2, <1>5, <2>2, <2>3, <2>4 DEF PathInv, Blank
  <2>6. FrameInv'
    BY <1>1, <1>2, <2>1, <2>5, GoFrame
  <2>7. Attempted(job, path)'
    BY <2>1, <2>3 DEF Attempted, Blank, UndoPcs
  <2>8. job.req.mode \in {"init", "remote"}
    BY <1>2, <1>3, <1>10 DEF WellFormed, Modes
  <2>9. SetupInv' /\ OwnInv' /\ CleanInv'
    BY <1>2, <1>3, <2>1, <2>3, <2>4, <2>7, <2>8 DEF SetupInv, OwnInv, CleanInv, OwnedPcs, UndoPcs
  <2>10. ConfigureInv' /\ RemoveInv'
    BY <1>2, <2>1 DEF ConfigureInv, RemoveInv
  <2>11. QED
    BY <1>1, <2>6, <2>9, <2>10 DEF RepositoryInv, RequestInv
<1>11. QED
  BY <1>6, <1>8, <1>9, <1>10 DEF Provision

\* The client is made for what will be saved.
LEMMA ActivateInv ==
  ASSUME RepositoryInv, Activate
  PROVE  RepositoryInv'
<1>1. TypeOK /\ TypeOK' /\ job # None /\ path \in Path
  BY RemoteStepTypes DEF RepositoryInv, TypeOK, RemoteStep
<1>2. up /\ job.req.kind \in {"setup", "remove"} /\ job.pc = "activate"
      /\ UNCHANGED <<row, live, healthy, resume, torn, up, faults, crashes>>
  BY DEF Activate, Doing
<1>3. path' = path /\ Moved("save", job.made, job.clean)
  BY <1>1, GoFacts DEF Activate, Pcs
<1>4. job' # None /\ job'.pc = "save" /\ job'.req = job.req /\ job'.remote = job.remote
      /\ job'.made = job.made /\ job'.clean = job.clean
  BY <1>3 DEF Moved
<1>5. PathInv'
  BY <1>2, <1>3 DEF RepositoryInv, FrameInv, PathInv, Blank
<1>6. FrameInv'
  BY <1>1, <1>2, <1>4, <1>5, GoFrame
<1>7. OwnInv' /\ CleanInv'
  BY <1>1, <1>2, <1>3, <1>4 DEF RepositoryInv, RequestInv, OwnInv, CleanInv
<1>8. Attempted(job, path)'
  BY <1>4 DEF Attempted, UndoPcs
<1>9. job.req.kind = "setup" => Savable(job, path)'
  <2>1. job.req.kind = "setup" => Savable(job, path)
    BY <1>1, <1>2 DEF RepositoryInv, RequestInv, SetupInv
  <2>2. job.req.kind = "setup" /\ Accepts(job.req, path) => Accepts(job.req, path)'
    BY <1>2, <1>3, <1>4 DEF Accepts, Resumes, Adopts, InspectPath, EmptyRemote
  <2>3. QED
    BY <1>3, <1>4, <2>1, <2>2 DEF Savable
<1>10. SetupInv'
  BY <1>4, <1>8, <1>9 DEF SetupInv, OwnedPcs, UndoPcs
<1>11. ConfigureInv' /\ RemoveInv'
  BY <1>1, <1>2, <1>3, <1>4 DEF RepositoryInv, RequestInv, ConfigureInv, RemoveInv
<1>12. QED
  BY <1>1, <1>6, <1>7, <1>10, <1>11 DEF RepositoryInv, RequestInv

\* The change of the remote.
ConfigureStep == InspectConfigure \/ FetchCandidate \/ CheckoutCandidate \/ SetOrigin \/ DeleteCandidate

\* A change of the remote keeps what the row names until it is saved.
LEMMA ConfigureStepInv ==
  ASSUME RepositoryInv, ConfigureStep
  PROVE  RepositoryInv'
<1>1. TypeOK /\ TypeOK' /\ job # None /\ path \in Path
  BY RemoteStepTypes DEF RepositoryInv, TypeOK, RemoteStep, ConfigureStep
<1>2. up /\ job.req.kind = "configure" /\ job.pc # "replace"
      /\ UNCHANGED <<row, live, healthy, resume, torn, up, crashes>>
  BY DEF ConfigureStep, InspectConfigure, FetchCandidate, CheckoutCandidate, SetOrigin,
         DeleteCandidate, Doing
<1>3. WellFormed(job.req) /\ "git" \notin job.made
  BY <1>1, <1>2 DEF RepositoryInv, FrameInv, BeginInv, RequestInv, OwnInv
<1>4. PathInv /\ resume = None
  BY <1>1, <1>2, NoResume DEF RepositoryInv, FrameInv
<1>5. /\ job.pc \notin {"begin", "replace"} =>
            /\ row.state = "ready" /\ row.branch = job.req.branch
            /\ path.git = "present" /\ job.remote = job.req.url
            /\ ~torn => path.author = row.author
            /\ job.pc # "detached" => path.branch = job.req.branch
      /\ job.pc \in {"candidate", "config"} /\ ~torn => Opens(row, path)
      /\ job.pc = "detached" /\ ~torn /\ row.remote # None => path.origin = row.remote
      /\ job.pc \in {"activate", "save"} => path.origin = job.req.url
  BY <1>1, <1>2 DEF RepositoryInv, RequestInv, ConfigureInv
<1>6. ASSUME NEW pc \in {"candidate", "detached", "config", "activate", "save"},
             Moved(pc, job.made, job'.clean), path'.git = "present", path.alien = path'.alien,
             path.files \subseteq path'.files, ConfigureInv'
      PROVE  RepositoryInv'
  <2>1. job' # None /\ job'.pc = pc /\ job'.req = job.req /\ job'.made = job.made
    BY <1>6 DEF Moved
  <2>2. SetupInv' /\ RemoveInv' /\ OwnInv' /\ CleanInv'
    BY <1>2, <1>3, <2>1 DEF SetupInv, RemoveInv, OwnInv, CleanInv
  <2>3. PathInv'
    BY <1>4, <1>6 DEF PathInv
  <2>4. FrameInv'
    BY <1>1, <1>2, <2>1, <2>3, GoFrame
  <2>5. QED
    BY <1>1, <1>6, <2>2, <2>4 DEF RepositoryInv, RequestInv
<1>7. CASE InspectConfigure
  <2>1. job.pc = "begin"
    BY <1>7 DEF InspectConfigure, Doing
  <2>2. row.state = "ready" /\ ~torn => Opens(row, path)
    BY <2>1 DEF RepositoryInv, FrameInv, OpenInv
  <2>3. job.remote = job.req.url
    BY <1>1, <2>1 DEF RepositoryInv, FrameInv, BeginInv
  <2>4. CASE Finish(path)
    <3>1. job' = None /\ path' = path
      BY <2>4 DEF Finish
    <3>2. PathInv'
      BY <1>2, <1>4, <3>1 DEF PathInv, Blank
    <3>3. QED
      BY <1>1, <1>2, <1>4, <2>2, <3>1, <3>2, FinishFrame DEF RepositoryInv
  <2>5. CASE /\ ConfigureAccepts(job.req, path)
             /\ \/ Go("candidate", [path EXCEPT !.candidate = TRUE]) \/ Go("config", path)
    <3>1. PICK pc \in {"candidate", "config"} :
             /\ Moved(pc, job.made, job.clean)
             /\ path' \in {path, [path EXCEPT !.candidate = TRUE]}
      BY <1>1, <2>5, GoFacts DEF Pcs
    <3>2. job'.pc = pc /\ job'.req = job.req /\ job'.remote = job.remote /\ job'.clean = job.clean
      BY <3>1 DEF Moved
    <3>3. path'.git = path.git /\ path'.branch = path.branch /\ path'.author = path.author
          /\ path'.origin = path.origin /\ path'.files = path.files /\ path'.alien = path.alien
      BY <1>1, <3>1 DEF Path
    <3>4. row.state = "ready" /\ row.branch = job.req.branch /\ path.git = "present"
          /\ path.branch = job.req.branch
      BY <2>5 DEF ConfigureAccepts, InspectPath
    <3>5. ~torn => Opens(row, path) /\ path.author = row.author /\ Opens(row, path')
      BY <2>2, <3>3, <3>4 DEF Opens, InspectPath
    <3>6. ~torn => Opens(row, path)'
      BY <1>2, <3>5 DEF Opens, InspectPath
    <3>7. ConfigureInv'
      BY <1>2, <2>3, <3>2, <3>3, <3>4, <3>5, <3>6 DEF ConfigureInv
    <3>8. QED
      BY <1>6, <3>1, <3>2, <3>3, <3>4, <3>7
  <2>6. QED
    BY <1>7, <2>4, <2>5 DEF InspectConfigure
<1>8. CASE FetchCandidate
  <2>1. job.pc = "candidate"
    BY <1>8 DEF FetchCandidate, Doing
  <2>2. ~torn => Opens(row, path)
    BY <1>5, <2>1
  <2>3. CASE Go("config", path)
    <3>1. Moved("config", job.made, job.clean) /\ path' = path
      BY <1>1, <2>3, GoFacts DEF Pcs
    <3>2. job'.pc = "config" /\ job'.req = job.req /\ job'.remote = job.remote
          /\ job'.clean = job.clean
      BY <3>1 DEF Moved
    <3>3. ~torn => Opens(row, path)'
      BY <1>2, <2>2, <3>1 DEF Opens, InspectPath
    <3>4. ConfigureInv'
      BY <1>2, <1>5, <2>1, <3>1, <3>2, <3>3 DEF ConfigureInv
    <3>5. QED
      BY <1>5, <1>6, <2>1, <3>1, <3>2, <3>4
  <2>4. ASSUME NEW stays \in BOOLEAN, Finish([path EXCEPT !.candidate = stays])
        PROVE  RepositoryInv'
    <3>1. job' = None /\ path' = [path EXCEPT !.candidate = stays]
      BY <2>4 DEF Finish
    <3>2. path'.git = path.git /\ path'.branch = path.branch /\ path'.author = path.author
          /\ path'.origin = path.origin /\ path'.files = path.files /\ path'.alien = path.alien
      BY <1>1, <3>1 DEF Path
    <3>3. ~torn => Opens(row, path')
      BY <2>2, <3>2 DEF Opens, InspectPath
    <3>4. PathInv'
      BY <1>2, <1>4, <1>5, <2>1, <3>2 DEF PathInv
    <3>5. QED
      BY <1>1, <1>2, <1>4, <3>1, <3>3, <3>4, FinishFrame DEF RepositoryInv
  <2>5. CASE Go("detached", [path EXCEPT !.branch = None, !.head = job.req.url])
    <3>1. Moved("detached", job.made, job.clean)
          /\ path' = [path EXCEPT !.branch = None, !.head = job.req.url]
      BY <1>1, <2>5, GoFacts DEF Pcs
    <3>2. job'.pc = "detached" /\ job'.req = job.req /\ job'.remote = job.remote
          /\ job'.clean = job.clean
      BY <3>1 DEF Moved
    <3>3. path'.git = path.git /\ path'.author = path.author /\ path'.origin = path.origin
          /\ path'.files = path.files /\ path'.alien = path.alien
      BY <1>1, <3>1 DEF Path
    <3>4. ConfigureInv'
      BY <1>2, <1>5, <2>1, <2>2, <3>2, <3>3 DEF ConfigureInv, Opens
    <3>5. QED
      BY <1>5, <1>6, <2>1, <3>1, <3>2, <3>3, <3>4
  <2>6. QED
    BY <1>8, <2>3, <2>4, <2>5 DEF FetchCandidate
<1>9. CASE CheckoutCandidate
  <2>1. job.pc = "detached"
    BY <1>9 DEF CheckoutCandidate, Doing
  <2>2. Moved("config", job.made, job.clean)
        /\ path' = [path EXCEPT !.branch = job.req.branch, !.files = Entries]
    BY <1>1, <1>9, GoFacts DEF CheckoutCandidate, Pcs
  <2>3. job'.pc = "config" /\ job'.req = job.req /\ job'.remote = job.remote /\ job'.clean = job.clean
    BY <2>2 DEF Moved
  <2>4. path'.git = path.git /\ path'.author = path.author /\ path'.branch = job.req.branch
        /\ path'.origin = path.origin /\ path'.files = Entries /\ path'.alien = path.alien
    BY <1>1, <2>2 DEF Path
  <2>5. ~torn => Opens(row, path')
    BY <1>2, <1>3, <1>5, <2>1, <2>4, SetupConstants DEF Opens, InspectPath, WellFormed
  <2>6. ~torn => Opens(row, path)'
    BY <1>2, <2>5 DEF Opens, InspectPath
  <2>7. ConfigureInv'
    BY <1>2, <1>5, <2>1, <2>3, <2>4, <2>6 DEF ConfigureInv
  <2>8. path.files \subseteq path'.files
    BY <1>1, <2>4 DEF Path
  <2>9. QED
    BY <1>5, <1>6, <2>1, <2>2, <2>3, <2>4, <2>7, <2>8
<1>10. CASE SetOrigin
  <2>1. job.pc = "config"
    BY <1>10 DEF SetOrigin, Doing
  <2>2. Moved("activate", job.made, job.clean)
        /\ path' = [path EXCEPT !.origin = job.req.url,
                      !.ref = IF Selected(job.req.url, job.req.branch) THEN job.req.url ELSE @]
    BY <1>1, <1>10, GoFacts DEF SetOrigin, Pcs
  <2>3. job'.pc = "activate" /\ job'.req = job.req /\ job'.remote = job.remote
        /\ job'.clean = job.clean
    BY <2>2 DEF Moved
  <2>4. path'.git = path.git /\ path'.author = path.author /\ path'.branch = path.branch
        /\ path'.origin = job.req.url /\ path'.files = path.files /\ path'.alien = path.alien
    BY <1>1, <2>2 DEF Path
  <2>5. ConfigureInv'
    BY <1>2, <1>5, <2>1, <2>3, <2>4 DEF ConfigureInv
  <2>6. QED
    BY <1>5, <1>6, <2>1, <2>2, <2>3, <2>4, <2>5
<1>11. CASE DeleteCandidate
  <2>1. job.pc = "activate"
    BY <1>11 DEF DeleteCandidate, Doing
  <2>2. /\ Moved("save", job.made, job'.clean)
        /\ path' = [path EXCEPT !.candidate = path'.candidate]
        /\ job'.clean => ~path'.candidate
    BY <1>1, <1>11, DeleteCandidateFacts
  <2>3. job'.pc = "save" /\ job'.req = job.req /\ job'.remote = job.remote
    BY <2>2 DEF Moved
  <2>4. path'.git = path.git /\ path'.author = path.author /\ path'.branch = path.branch
        /\ path'.origin = path.origin /\ path'.files = path.files /\ path'.alien = path.alien
    BY <1>1, <2>2 DEF Path
  <2>5. ConfigureInv'
    BY <1>2, <1>5, <2>1, <2>2, <2>3, <2>4 DEF ConfigureInv
  <2>6. QED
    BY <1>5, <1>6, <2>1, <2>2, <2>3, <2>4, <2>5
<1>12. QED
  BY <1>7, <1>8, <1>9, <1>10, <1>11 DEF ConfigureStep

\* A removal of the remote deletes the origin.
LEMMA DeleteOriginInv ==
  ASSUME RepositoryInv, DeleteOrigin
  PROVE  RepositoryInv'
<1>1. TypeOK /\ TypeOK' /\ job # None /\ path \in Path
  BY RemoteStepTypes DEF RepositoryInv, TypeOK, RemoteStep
<1>2. up /\ job.req.kind = "remove" /\ job.pc = "begin"
      /\ UNCHANGED <<row, live, healthy, resume, torn, up, faults, crashes>>
  BY DEF DeleteOrigin, Doing
<1>3. WellFormed(job.req) /\ job.remote = job.req.url /\ "git" \notin job.made
  BY <1>1, <1>2 DEF RepositoryInv, FrameInv, BeginInv, RequestInv, OwnInv
<1>4. row.state = "ready" /\ ~torn => Opens(row, path)
  BY <1>2 DEF RepositoryInv, FrameInv, OpenInv
<1>5. PathInv /\ resume = None
  BY <1>1, <1>2, NoResume DEF RepositoryInv, FrameInv
<1>6. CASE Finish(path)
  <2>1. job' = None /\ path' = path
    BY <1>6 DEF Finish
  <2>2. PathInv'
    BY <1>2, <1>5, <2>1 DEF PathInv, Blank
  <2>3. QED
    BY <1>1, <1>2, <1>4, <1>5, <2>1, <2>2, FinishFrame DEF RepositoryInv
<1>7. CASE RemoveAccepts(path) /\ Go("activate", [path EXCEPT !.origin = None])
  <2>1. job' # None /\ job'.pc = "activate" /\ job'.req = job.req /\ job'.made = job.made
        /\ job'.remote = job.remote /\ path' = [path EXCEPT !.origin = None]
    BY <1>1, <1>7, GoFacts DEF Pcs, Moved
  <2>2. path'.git = path.git /\ path'.author = path.author /\ path'.branch = path.branch
        /\ path'.origin = None /\ path'.files = path.files /\ path'.alien = path.alien
    BY <1>1, <2>1 DEF Path
  <2>3. row.state = "ready" /\ row.remote # None /\ path.git = "present"
    BY <1>7 DEF RemoveAccepts, InspectPath
  <2>4. ~torn => path.branch # None /\ path.branch = row.branch /\ path.author = row.author
    BY <1>4, <2>3 DEF Opens
  <2>5. job.remote = None
    BY <1>2, <1>3 DEF WellFormed
  <2>6. RemoveInv'
    BY <1>2, <2>1, <2>2, <2>3, <2>4, <2>5 DEF RemoveInv
  <2>7. SetupInv' /\ ConfigureInv' /\ OwnInv' /\ CleanInv'
    BY <1>2, <1>3, <2>1 DEF SetupInv, ConfigureInv, OwnInv, CleanInv
  <2>8. PathInv'
    BY <1>5, <2>2, <2>3 DEF PathInv
  <2>9. FrameInv'
    BY <1>1, <1>2, <2>1, <2>8, GoFrame
  <2>10. QED
    BY <1>1, <2>6, <2>7, <2>9 DEF RepositoryInv, RequestInv
<1>8. QED
  BY <1>6, <1>7 DEF DeleteOrigin
\* The client of a row without a remote has no credentials.
LEMMA BareIsOpened ==
  ASSUME NEW w \in Row, w.remote = None
  PROVE  OpenedClient(w) = BareClient(w)
  BY DEF OpenedClient, BareClient

\* A request begins from what the row and the directory are.
LEMMA BeginStepInv ==
  ASSUME RepositoryInv, NEW r \in SetupRequests \cup ConfigureRequests \cup {RemoveRequest}, Begin(r)
  PROVE  RepositoryInv'
<1>1. TypeOK' /\ WellFormed(r) /\ r \in Request
  BY ServiceStepTypes, RequestFacts DEF RepositoryInv, ServiceStep
<1>2. job = None /\ up /\ row.state # "unregistered" /\ resume' = None
      /\ UNCHANGED <<row, path, live, healthy, torn, up, faults, crashes>>
  BY DEF Begin
<1>3. job'.req = r /\ job'.pc = "begin" /\ job'.made = {} /\ job'.remote = r.url
  BY DEF Begin
<1>4. RequestInv'
  <2>1. r.kind \in {"setup", "configure", "remove"}
    BY <1>1 DEF Request
  <2>2. Attempted(job, path)'
    BY <1>3 DEF Attempted, UndoPcs
  <2>3. SetupInv' /\ OwnInv' /\ CleanInv'
    BY <1>3, <2>2 DEF SetupInv, OwnInv, CleanInv, OwnedPcs, UndoPcs
  <2>4. ConfigureInv' /\ RemoveInv'
    BY <1>3, <2>1 DEF ConfigureInv, RemoveInv
  <2>5. QED
    BY <2>3, <2>4 DEF RequestInv
<1>5. WellFormed(job.req)'
  BY <1>1, <1>3 DEF WellFormed
<1>6. BeginInv' /\ OpenInv'
  BY <1>2, <1>3, <1>5 DEF RepositoryInv, FrameInv, BeginInv, OpenInv, Opens, InspectPath
<1>7. PathInv' /\ RowStateInv' /\ RetryInv' /\ LiveClientIsSaved'
  BY <1>2, <1>3 DEF RepositoryInv, FrameInv, PathInv, Blank, RowStateInv, RetryInv, RetryResumes,
                    LiveClientIsSaved, OpenedClient, BareClient
<1>8. QED
  BY <1>1, <1>4, <1>6, <1>7 DEF RepositoryInv, FrameInv

\* A failing step leaves a directory that the row still describes, unless it is torn,
\* and that the request sent again accepts, unless the temporary remote stayed.
LEMMA StepFailsInv ==
  ASSUME RepositoryInv, StepFails
  PROVE  RepositoryInv'
<1>1. TypeOK /\ TypeOK' /\ job # None /\ path \in Path /\ job.req \in Request
  BY ServiceStepTypes, JobFacts DEF RepositoryInv, ServiceStep, StepFails, TypeOK
<1>2. up /\ job.pc \notin {"stage", "save", "replace"} /\ "git" \notin job.made /\ job' = None
      /\ torn' = (torn \/ Wrote(job)) /\ UNCHANGED <<row, live, healthy, up>>
  BY DEF StepFails, Finish
<1>3. PICK left \in {FALSE, path.candidate} :
         /\ path' = [path EXCEPT !.candidate = left]
         /\ resume' = IF job.pc \in {"begin", "detached"} \/ (job.req.kind = "configure" /\ left)
                      THEN None
                      ELSE job.req
  BY DEF StepFails, Finish
<1>4. /\ path'.git = path.git /\ path'.branch = path.branch /\ path'.author = path.author
      /\ path'.origin = path.origin /\ path'.head = path.head /\ path'.ahead = path.ahead
      /\ path'.ref = path.ref /\ path'.files = path.files /\ path'.alien = path.alien
      /\ path'.candidate = left /\ path'.junk = path.junk
  BY <1>1, <1>3 DEF Path
<1>5. PathInv'
  BY <1>2, <1>4 DEF RepositoryInv, FrameInv, PathInv, Blank
<1>6. job.pc = "begin" /\ row.state = "ready" /\ ~torn => Opens(row, path)
  BY DEF RepositoryInv, FrameInv, OpenInv
<1>7. Opens(row, path) => Opens(row, path')
  BY <1>4 DEF Opens, InspectPath
<1>8. ASSUME row.state = "ready" /\ ~torn' => Opens(row, path), resume' # None => RetryResumes'
      PROVE  RepositoryInv'
  BY <1>1, <1>2, <1>5, <1>7, <1>8, FinishFrame DEF RepositoryInv
<1>9. CASE job.req.kind = "setup"
  <2>1. job.pc \in {"begin", "activate"}
    BY <1>1, <1>2, <1>9 DEF RepositoryInv, RequestInv, SetupInv
  <2>2. row.state = "ready" /\ ~torn' => Opens(row, path)
    BY <1>1, <1>2, <1>6, <1>9, <2>1 DEF RepositoryInv, RequestInv, SetupInv, Wrote
  <2>3. ASSUME resume' # None
        PROVE  RetryResumes'
    <3>1. job.pc = "activate" /\ resume' = job.req
      BY <1>3, <2>1, <2>3
    <3>2. Accepts(job.req, path)
      BY <1>1, <1>9, <3>1 DEF RepositoryInv, RequestInv, SetupInv, Savable
    <3>3. InspectPath(path') = InspectPath(path)
      BY <1>4 DEF InspectPath
    <3>4. Accepts(job.req, path')
      BY <1>4, <1>9, <3>2, <3>3 DEF Accepts, Resumes, Adopts
    <3>5. Accepts(resume, path)'
      BY <1>9, <3>1, <3>4 DEF Accepts, Resumes, Adopts, InspectPath
    <3>6. QED
      BY <1>9, <3>1, <3>5 DEF RetryResumes
  <2>4. QED
    BY <1>8, <2>2, <2>3
<1>10. CASE job.req.kind = "configure"
  <2>1. row.state = "ready" /\ ~torn' => Opens(row, path)
    BY <1>1, <1>2, <1>6, <1>10 DEF RepositoryInv, RequestInv, ConfigureInv, Wrote
  <2>2. ASSUME resume' # None
        PROVE  RetryResumes'
    <3>1. job.pc \notin {"begin", "detached"} /\ ~left /\ resume' = job.req
      BY <1>3, <1>10, <2>2
    <3>2. /\ row.state = "ready" /\ row.branch = job.req.branch
          /\ path.branch = job.req.branch /\ path.git = "present"
      BY <1>1, <1>2, <1>10, <3>1 DEF RepositoryInv, RequestInv, ConfigureInv
    <3>3. /\ [job.req EXCEPT !.flag = TRUE].flag /\ [job.req EXCEPT !.flag = TRUE].kind = "configure"
          /\ [job.req EXCEPT !.flag = TRUE].branch = job.req.branch
      BY <1>1, <1>10 DEF Request
    <3>4. QED
      BY <1>2, <1>4, <1>10, <3>1, <3>2, <3>3
         DEF RetryResumes, Accepts, ConfigureAccepts, MayReplace, InspectPath
  <2>3. QED
    BY <1>8, <2>1, <2>2
<1>11. CASE job.req.kind = "remove"
  <2>1. job.pc \in {"begin", "activate"}
    BY <1>1, <1>2, <1>11 DEF RepositoryInv, RequestInv, RemoveInv
  <2>2. row.state = "ready" /\ ~torn' => Opens(row, path)
    BY <1>2, <1>6, <1>11, <2>1 DEF Wrote
  <2>3. ASSUME resume' # None
        PROVE  RetryResumes'
    <3>1. job.pc = "activate" /\ resume' = job.req
      BY <1>3, <2>1, <2>3
    <3>2. row.state = "ready" /\ row.remote # None /\ path.origin = None /\ path.git = "present"
      BY <1>1, <1>11, <3>1 DEF RepositoryInv, RequestInv, RemoveInv
    <3>3. QED
      BY <1>2, <1>4, <1>11, <3>1, <3>2 DEF RetryResumes, Accepts, RemoveAccepts, InspectPath
  <2>4. QED
    BY <1>8, <2>2, <2>3
<1>12. QED
  BY <1>1, <1>9, <1>10, <1>11 DEF Request

\* A save makes the row describe the directory; a failing one leaves what a retry accepts.
LEMMA SaveInv ==
  ASSUME RepositoryInv, Save
  PROVE  RepositoryInv'
<1>1. TypeOK /\ TypeOK' /\ job # None /\ job \in Job /\ path \in Path /\ row \in Row
      /\ job.req \in Request
  BY ServiceStepTypes, JobFacts DEF RepositoryInv, ServiceStep, Save, TypeOK
<1>2. up /\ job.pc = "save" /\ UNCHANGED <<live, path, healthy, up>>
  BY DEF Save, ClientAtSave
<1>3. WellFormed(job.req) /\ row.state # "unregistered" /\ resume = None
  BY <1>1, <1>2 DEF RepositoryInv, FrameInv, BeginInv, RetryInv
<1>4. job.req.kind \in {"setup", "configure", "remove"} /\ path.git = "present"
  <2>1. job.req.kind \in {"setup", "configure", "remove"}
    BY <1>1 DEF Request
  <2>2. QED
    BY <1>1, <1>2, <2>1 DEF RepositoryInv, RequestInv, SetupInv, Savable, ConfigureInv, RemoveInv
<1>5. CASE /\ row' = SavedRow(job) /\ job' = [job EXCEPT !.pc = "replace"]
           /\ torn' = (torn /\ job.req.kind # "setup") /\ UNCHANGED <<resume, faults>>
  <2>1. job'.pc = "replace" /\ job'.req = job.req /\ job'.made = job.made /\ job'.clean = job.clean
        /\ job'.remote = job.remote
    BY <1>1, <1>5 DEF Job
  <2>2. row'.state = "ready"
    BY <1>1, <1>2, <1>4, <1>5 DEF SavedRow, RepositoryInv, RequestInv, ConfigureInv, RemoveInv, Row
  <2>3. Attempted(job, path)'
    BY <2>1 DEF Attempted, UndoPcs
  <2>4. RequestInv'
    <3>1. SetupInv' /\ ConfigureInv' /\ RemoveInv'
      BY <1>4, <2>1, <2>3 DEF SetupInv, ConfigureInv, RemoveInv, OwnedPcs, UndoPcs
    <3>2. OwnInv' /\ CleanInv'
      BY <1>1, <1>2, <2>1 DEF RepositoryInv, RequestInv, OwnInv, CleanInv
    <3>3. QED
      BY <3>1, <3>2 DEF RequestInv
  <2>5. ~torn' => Opens(row', path)
    <3>1. CASE job.req.kind = "setup"
      <4>1. row'.branch = job.req.branch /\ row'.author = job.req.author /\ row'.remote = job.remote
        BY <1>5, <3>1 DEF SavedRow
      <4>2. /\ path.branch = job.req.branch /\ path.author = job.req.author
            /\ job.remote # None => path.origin = job.remote
        BY <1>1, <1>2, <3>1 DEF RepositoryInv, RequestInv, SetupInv, Savable
      <4>3. path.branch # None
        BY <1>3, <3>1, <4>2, SetupConstants DEF WellFormed
      <4>4. QED
        BY <1>4, <4>1, <4>2, <4>3 DEF Opens, InspectPath
    <3>2. CASE job.req.kind = "configure"
      <4>1. row'.branch = row.branch /\ row'.author = row.author /\ row'.remote = job.remote
        BY <1>1, <1>5, <3>2 DEF SavedRow, Row
      <4>2. /\ row.branch = job.req.branch /\ path.branch = job.req.branch
            /\ ~torn => path.author = row.author
            /\ job.remote = job.req.url /\ path.origin = job.req.url
        BY <1>1, <1>2, <3>2 DEF RepositoryInv, RequestInv, ConfigureInv
      <4>3. path.branch # None
        BY <1>3, <3>2, <4>2, SetupConstants DEF WellFormed
      <4>4. QED
        BY <1>4, <1>5, <3>2, <4>1, <4>2, <4>3 DEF Opens, InspectPath
    <3>3. CASE job.req.kind = "remove"
      <4>1. row'.branch = row.branch /\ row'.author = row.author /\ row'.remote = job.remote
        BY <1>1, <1>5, <3>3 DEF SavedRow, Row
      <4>2. /\ ~torn => path.branch # None /\ path.branch = row.branch /\ path.author = row.author
            /\ job.remote = None
        BY <1>1, <1>2, <3>3 DEF RepositoryInv, RequestInv, RemoveInv
      <4>3. QED
        BY <1>4, <1>5, <3>3, <4>1, <4>2 DEF Opens, InspectPath
    <3>4. QED
      BY <1>4, <3>1, <3>2, <3>3
  <2>6. OpenInv'
    BY <1>2, <2>5 DEF OpenInv, Opens, InspectPath
  <2>7. WellFormed(job.req)'
    BY <1>3, <2>1 DEF WellFormed
  <2>8. BeginInv' /\ RowStateInv'
    BY <1>2, <2>1, <2>2, <2>7 DEF BeginInv, RowStateInv
  <2>9. PathInv'
    BY <1>2, <1>4 DEF RepositoryInv, FrameInv, PathInv
  <2>10. job' # None
    BY <1>1, <1>5, NoneIsNoRequest DEF Job, Pcs
  <2>11. RetryInv' /\ LiveClientIsSaved'
    BY <1>3, <1>5, <2>1, <2>10 DEF RetryInv, RetryResumes, LiveClientIsSaved
  <2>12. QED
    BY <1>1, <2>4, <2>6, <2>8, <2>9, <2>11 DEF RepositoryInv, FrameInv
<1>6. CASE /\ resume' = (IF job.clean THEN job.req ELSE None) /\ torn' = TRUE /\ job' = None
           /\ UNCHANGED row
  <2>1. ASSUME resume' # None
        PROVE  RetryResumes'
    <3>1. job.clean /\ resume' = job.req
      BY <1>6, <2>1
    <3>2. CASE job.req.kind = "setup"
      <4>1. Accepts(job.req, path)
        BY <1>1, <1>2, <3>2 DEF RepositoryInv, RequestInv, SetupInv, Savable
      <4>2. QED
        BY <1>2, <1>6, <3>1, <3>2, <4>1 DEF RetryResumes, Accepts, Resumes, Adopts, InspectPath
    <3>3. CASE job.req.kind = "configure"
      <4>1. /\ row.state = "ready" /\ row.branch = job.req.branch
            /\ path.branch = job.req.branch /\ ~path.candidate
        BY <1>1, <1>2, <3>1, <3>3 DEF RepositoryInv, RequestInv, ConfigureInv
      <4>2. /\ [job.req EXCEPT !.flag = TRUE].flag /\ [job.req EXCEPT !.flag = TRUE].kind = "configure"
            /\ [job.req EXCEPT !.flag = TRUE].branch = job.req.branch
        BY <1>1, <3>3 DEF Request
      <4>3. QED
        BY <1>2, <1>4, <1>6, <3>1, <3>3, <4>1, <4>2
           DEF RetryResumes, Accepts, ConfigureAccepts, MayReplace, InspectPath
    <3>4. CASE job.req.kind = "remove"
      <4>1. row.state = "ready" /\ row.remote # None /\ path.origin = None
        BY <1>1, <1>2, <3>4 DEF RepositoryInv, RequestInv, RemoveInv
      <4>2. QED
        BY <1>2, <1>4, <1>6, <3>1, <3>4, <4>1 DEF RetryResumes, Accepts, RemoveAccepts, InspectPath
    <3>5. QED
      BY <1>4, <3>2, <3>3, <3>4
  <2>2. PathInv'
    BY <1>2, <1>6 DEF RepositoryInv, FrameInv, PathInv, Blank
  <2>3. QED
    BY <1>1, <1>2, <1>6, <2>1, <2>2, FinishFrame DEF RepositoryInv
<1>7. QED
  BY <1>5, <1>6 DEF Save

\* Steps outside a request, with no request under way after them.
LEMMA IdleStepInv ==
  ASSUME RepositoryInv, Register \/ Replace \/ EditFile \/ CommitFiles \/ Crash
  PROVE  RepositoryInv'
<1>1. TypeOK /\ TypeOK' /\ path \in Path /\ row \in Row
  BY ServiceStepTypes DEF RepositoryInv, ServiceStep, TypeOK
<1>2. up /\ job' = None
  BY DEF Register, Replace, EditFile, CommitFiles, Crash, RepositoryInv, FrameInv, BeginInv
<1>3. RequestInv' /\ BeginInv'
  BY <1>2 DEF RequestInv, OwnInv, SetupInv, CleanInv, ConfigureInv, RemoveInv, BeginInv
<1>4. CASE Register
  <2>1. row.state = "unregistered" /\ resume = None /\ row'.remote = row.remote
        /\ row'.branch = row.branch /\ row'.auth = row.auth /\ row'.state = "registered"
        /\ UNCHANGED <<path, live, healthy, job, resume, torn, up, faults, crashes>>
    BY <1>1, <1>4 DEF Register, Row, RepositoryInv, FrameInv, RetryInv
  <2>2. OpenInv' /\ PathInv' /\ RowStateInv' /\ RetryInv'
    BY <1>2, <2>1 DEF RepositoryInv, FrameInv, OpenInv, PathInv, Blank, RowStateInv, RetryInv,
                      RetryResumes
  <2>3. LiveClientIsSaved'
    BY <1>2, <2>1 DEF RepositoryInv, FrameInv, LiveClientIsSaved, OpenedClient, BareClient
  <2>4. QED
    BY <1>1, <1>3, <2>2, <2>3 DEF RepositoryInv, FrameInv
<1>5. CASE Replace
  <2>1. job # None /\ job.pc = "replace" /\ live' = OpenedClient(row) /\ resume = None
        /\ UNCHANGED <<row, path, healthy, resume, torn, up, faults, crashes>>
    BY <1>2, <1>5 DEF Replace, RepositoryInv, FrameInv, RetryInv
  <2>2. OpenInv'
    BY <2>1 DEF RepositoryInv, FrameInv, OpenInv, Opens, InspectPath
  <2>3. PathInv' /\ RowStateInv' /\ RetryInv'
    BY <1>2, <2>1 DEF RepositoryInv, FrameInv, PathInv, Blank, RowStateInv, RetryInv, RetryResumes
  <2>4. LiveClientIsSaved'
    BY <2>1 DEF LiveClientIsSaved, OpenedClient, BareClient
  <2>5. QED
    BY <1>1, <1>3, <2>2, <2>3, <2>4 DEF RepositoryInv, FrameInv
<1>6. CASE EditFile \/ CommitFiles
  <2>1. /\ job = None /\ row.state = "ready"
        /\ UNCHANGED <<row, live, healthy, job, resume, torn, up, faults, crashes>>
    BY <1>6 DEF EditFile, CommitFiles
  <2>2. path'.git = path.git /\ path'.branch = path.branch /\ path'.author = path.author
        /\ path'.origin = path.origin /\ path'.candidate = path.candidate
        /\ path'.files = path.files /\ path'.alien = path.alien
    BY <1>1, <1>6 DEF EditFile, CommitFiles, Path
  <2>3. OpenInv'
    BY <2>1, <2>2 DEF RepositoryInv, FrameInv, OpenInv, Opens, InspectPath
  <2>4. PathInv' /\ RowStateInv'
    BY <2>1, <2>2 DEF RepositoryInv, FrameInv, PathInv, RowStateInv
  <2>5. LiveClientIsSaved'
    BY <2>1 DEF RepositoryInv, FrameInv, LiveClientIsSaved, OpenedClient, BareClient
  <2>6. RetryResumes'
    <3>1. CASE resume = None \/ resume.kind = "setup"
      BY <2>1, <3>1 DEF RetryResumes
    <3>2. CASE resume # None /\ resume.kind # "setup"
      <4>1. resume \in Request
        BY <1>1, <3>2 DEF TypeOK
      <4>2. resume.kind \in {"configure", "remove"}
        BY <3>2, <4>1 DEF Request
      <4>3. CASE resume.kind = "configure"
        <5>1. [resume EXCEPT !.flag = TRUE].kind = "configure"
          BY <4>1, <4>3 DEF Request
        <5>2. ConfigureAccepts([resume EXCEPT !.flag = TRUE], path)
          BY <1>2, <2>1, <3>2, <4>3, <5>1 DEF RepositoryInv, FrameInv, RetryInv, RetryResumes,
                                              Accepts
        <5>3. ConfigureAccepts([resume EXCEPT !.flag = TRUE], path)'
          BY <2>1, <2>2, <5>2 DEF ConfigureAccepts, InspectPath, MayReplace
        <5>4. Accepts([resume EXCEPT !.flag = TRUE], path)'
          BY <2>1, <5>1, <5>3 DEF Accepts
        <5>5. QED
          BY <2>1, <4>3, <5>4 DEF RetryResumes
      <4>4. CASE resume.kind = "remove"
        <5>1. RemoveAccepts(path)
          BY <1>2, <2>1, <3>2, <4>4 DEF RepositoryInv, FrameInv, RetryInv, RetryResumes, Accepts
        <5>2. RemoveAccepts(path)'
          BY <2>1, <2>2, <5>1 DEF RemoveAccepts, InspectPath
        <5>3. Accepts(resume, path)'
          BY <2>1, <4>4, <5>2 DEF Accepts
        <5>4. QED
          BY <2>1, <4>4, <5>3 DEF RetryResumes
      <4>5. QED
        BY <4>2, <4>3, <4>4
    <3>3. QED
      BY <3>1, <3>2
  <2>7. RetryInv'
    BY <2>1, <2>6 DEF RepositoryInv, FrameInv, RetryInv
  <2>8. QED
    BY <1>1, <1>3, <2>3, <2>4, <2>5, <2>7 DEF RepositoryInv, FrameInv
<1>7. CASE Crash
  <2>1. /\ ~up' /\ torn' = (torn \/ (job # None /\ job.pc # "replace"))
        /\ UNCHANGED <<row, path, live, healthy, resume, faults>>
    BY <1>7 DEF Crash
  <2>2. OpenInv'
    BY <1>2, <2>1 DEF RepositoryInv, FrameInv, OpenInv, Opens, InspectPath
  <2>3. PathInv' /\ RowStateInv' /\ RetryInv' /\ LiveClientIsSaved'
    BY <1>2, <2>1 DEF RepositoryInv, FrameInv, PathInv, Blank, RowStateInv, RetryInv, RetryResumes,
                      LiveClientIsSaved
  <2>4. QED
    BY <1>1, <1>3, <2>2, <2>3 DEF RepositoryInv, FrameInv
<1>8. QED
  BY <1>4, <1>5, <1>6, <1>7

\* Reconcile opens what the row describes, or adopts the worktree.
LEMMA StartInv ==
  ASSUME RepositoryInv, Start
  PROVE  RepositoryInv'
<1>1. TypeOK /\ TypeOK' /\ path \in Path /\ row \in Row
  BY ServiceStepTypes DEF RepositoryInv, ServiceStep, TypeOK
<1>2. job = None /\ job' = None /\ resume' = None /\ up'
  BY DEF Start, RepositoryInv, FrameInv, RowStateInv
<1>3. RequestInv' /\ BeginInv' /\ RetryInv'
  BY <1>2 DEF RequestInv, OwnInv, SetupInv, CleanInv, ConfigureInv, RemoveInv, BeginInv, RetryInv,
              RetryResumes
<1>4. row.state # "ready" => OpenedClient(row) = BareClient(row)
  BY <1>1, BareIsOpened DEF RepositoryInv, FrameInv, RowStateInv
<1>5. CASE row.state = "registered" /\ InspectPath(path) = "worktree" /\ path.branch # None
  <2>1. path' \in {path, [path EXCEPT !.author = AdoptedRow(path).author]}
    BY <1>5 DEF Start, ReconcileRegistered
  <2>2. path.git = "present"
    BY <1>5 DEF InspectPath
  <2>3. path'.git = "present" /\ path'.branch = path.branch
        /\ path'.files = path.files /\ path'.alien = path.alien
    BY <1>1, <2>1, <2>2 DEF Path
  <2>4. PathInv'
    BY <2>3 DEF RepositoryInv, FrameInv, PathInv
  <2>5. CASE /\ path' = [path EXCEPT !.author = AdoptedRow(path).author]
             /\ row' = AdoptedRow(path) /\ live' = OpenedClient(AdoptedRow(path))
    <3>1. row'.state = "ready" /\ row'.branch = path.branch /\ row'.remote = None
          /\ row'.author = AdoptedRow(path).author
      BY <2>5 DEF AdoptedRow
    <3>2. path'.author = AdoptedRow(path).author
      BY <1>1, <2>5 DEF Path
    <3>3. Opens(row, path)'
      BY <1>5, <2>3, <3>1, <3>2 DEF Opens, InspectPath
    <3>4. OpenInv' /\ RowStateInv'
      BY <1>2, <3>1, <3>3 DEF OpenInv, RowStateInv
    <3>5. LiveClientIsSaved'
      BY <2>5 DEF LiveClientIsSaved, OpenedClient, BareClient
    <3>6. QED
      BY <1>1, <1>3, <2>4, <3>4, <3>5 DEF RepositoryInv, FrameInv
  <2>6. CASE row' = row /\ live' = BareClient(row)
    <3>1. OpenInv' /\ RowStateInv'
      BY <1>2, <1>5, <2>6 DEF RepositoryInv, FrameInv, OpenInv, RowStateInv
    <3>2. live' = OpenedClient(row)
      BY <1>4, <1>5, <2>6
    <3>3. LiveClientIsSaved'
      BY <2>6, <3>2 DEF LiveClientIsSaved, OpenedClient, BareClient
    <3>4. QED
      BY <1>1, <1>3, <2>4, <3>1, <3>3 DEF RepositoryInv, FrameInv
  <2>7. QED
    BY <1>5, <2>5, <2>6 DEF Start, ReconcileRegistered
<1>6. CASE ~(row.state = "registered" /\ InspectPath(path) = "worktree" /\ path.branch # None)
  <2>1. row' = row /\ path' = path /\ torn' = torn
    BY <1>6 DEF Start, ReconcileRegistered
  <2>2. PathInv' /\ RowStateInv'
    BY <1>2, <2>1 DEF RepositoryInv, FrameInv, PathInv, Blank, RowStateInv
  <2>3. OpenInv'
    BY <1>2, <2>1 DEF RepositoryInv, FrameInv, OpenInv, Opens, InspectPath
  <2>4. healthy' => live' = OpenedClient(row)
    <3>1. CASE row.state = "ready"
      BY <3>1 DEF Start
    <3>2. CASE row.state # "ready"
      BY <1>4, <1>6, <3>2 DEF Start, ReconcileRegistered
    <3>3. QED
      BY <3>1, <3>2
  <2>5. LiveClientIsSaved'
    BY <2>1, <2>4 DEF LiveClientIsSaved, OpenedClient, BareClient
  <2>6. QED
    BY <1>1, <1>3, <2>2, <2>3, <2>5 DEF RepositoryInv, FrameInv
<1>7. QED
  BY <1>5, <1>6


-----------------------------------------------------------------------------
(* RepositorySetup: the theorems.                                          *)

\* The invariant holds initially.
LEMMA InitRepositoryInv ==
  ASSUME Init
  PROVE  RepositoryInv
<1>1. TypeOK
  BY InitTypes
<1>2. (path.git = "absent" => Blank(path)) /\ path.alien = {}
  <2>1. PICK b \in Branches \cup {None}, a \in Authors \cup {None}, u \in Urls \cup {None} :
           path \in {EmptyPath, [EmptyPath EXCEPT !.junk = TRUE], MountedWorktree(b, a, u)}
    BY DEF Init, Mounted
  <2>2. MountedWorktree(b, a, u).git = "present" /\ MountedWorktree(b, a, u).alien = {}
    BY DEF EmptyPath, MountedWorktree
  <2>3. Blank(EmptyPath) /\ Blank([EmptyPath EXCEPT !.junk = TRUE]) /\ EmptyPath.alien = {}
        /\ [EmptyPath EXCEPT !.junk = TRUE].alien = {}
    BY DEF EmptyPath, Blank
  <2>4. QED
    BY <2>1, <2>2, <2>3
<1>3. row.state = "unregistered" /\ row.remote = None /\ row \in Row
  BY <1>1 DEF Init, TypeOK
<1>4. live = OpenedClient(row)
  BY <1>3, BareIsOpened DEF Init
<1>5. job = None /\ resume = None /\ up
  BY DEF Init
<1>6. RequestInv
  BY <1>5 DEF RequestInv, OwnInv, SetupInv, CleanInv, ConfigureInv, RemoveInv
<1>7. FrameInv
  BY <1>2, <1>3, <1>4, <1>5 DEF FrameInv, BeginInv, OpenInv, PathInv, RowStateInv, RetryInv,
                                RetryResumes, LiveClientIsSaved
<1>8. QED
  BY <1>1, <1>6, <1>7 DEF RepositoryInv

\* Every step keeps it.
LEMMA NextRepositoryInv ==
  ASSUME RepositoryInv, [Next]_vars
  PROVE  RepositoryInv'
<1>1. CASE SetupStep
  BY <1>1, SetupStepInv
<1>2. CASE UndoStep
  BY <1>2, OutsiderInv, AttemptFailsInv, UndoEntryInv, EndOfAttemptInv DEF UndoStep
<1>3. CASE RemoteStep
  BY <1>3, ProvisionInv, ActivateInv, ConfigureStepInv, DeleteOriginInv DEF RemoteStep, ConfigureStep
<1>4. CASE ServiceStep
  BY <1>4, BeginStepInv, StepFailsInv, SaveInv, IdleStepInv, StartInv DEF ServiceStep
<1>5. CASE UNCHANGED vars
  <2>1. TypeOK' /\ BeginInv' /\ PathInv' /\ RowStateInv' /\ LiveClientIsSaved'
    BY <1>5 DEF RepositoryInv, FrameInv, vars, TypeOK, BeginInv, WellFormed, PathInv, Blank,
                RowStateInv, LiveClientIsSaved, OpenedClient, BareClient
  <2>2. SetupInv'
    BY <1>5 DEF RepositoryInv, RequestInv, vars, SetupInv, Attempted, Blank, Savable, Accepts,
                Resumes, Adopts, Opens, InspectPath
  <2>3. ConfigureInv' /\ RemoveInv' /\ OpenInv'
    BY <1>5 DEF RepositoryInv, RequestInv, FrameInv, vars, ConfigureInv, RemoveInv, OpenInv, Opens,
                InspectPath
  <2>4. OwnInv' /\ CleanInv'
    BY <1>5 DEF RepositoryInv, RequestInv, vars, OwnInv, CleanInv
  <2>5. RetryInv'
    BY <1>5 DEF RepositoryInv, FrameInv, vars, RetryInv, RetryResumes, Accepts, Resumes, Adopts,
                ConfigureAccepts, MayReplace, RemoveAccepts, InspectPath
  <2>6. QED
    BY <2>1, <2>2, <2>3, <2>4, <2>5 DEF RepositoryInv, RequestInv, FrameInv
<1>6. QED
  BY <1>1, <1>2, <1>3, <1>4, <1>5, NextSteps

\* The inductive invariant holds always: the worktree, the row and the live client
\* agree at every control point of Setup, ConfigureRemote, RemoveRemote and Reconcile.
THEOREM RepositoryInvariance == Spec => []RepositoryInv
<1>1. Init => RepositoryInv
  BY InitRepositoryInv
<1>2. RepositoryInv /\ [Next]_vars => RepositoryInv'
  BY NextRepositoryInv
<1>3. QED
  BY <1>1, <1>2, PTL DEF Spec

\* The row, the directory, the request and the live client have their types
\* (RepositoryStore, Provisioner, RepositoryService).
THEOREM RepositoryTypeCorrect == Spec => []TypeOK
<1>1. RepositoryInv => TypeOK
  BY DEF RepositoryInv
<1>2. QED
  BY <1>1, RepositoryInvariance, PTL

\* Between a save and Replace aside, the client that serves is the one of the
\* saved row, whatever step or save failed (Setup, ConfigureRemote, RemoveRemote).
THEOREM ClientIsSaved == Spec => []LiveClientIsSaved
<1>1. RepositoryInv => LiveClientIsSaved
  BY DEF RepositoryInv, FrameInv
<1>2. QED
  BY <1>1, RepositoryInvariance, PTL

\* A ready repository can be opened at the next start, unless a write of the
\* worktree missed its save (Open, Reconcile).
THEOREM ReadyIsOpenable == Spec => []ReadyReopens
<1>1. RepositoryInv => ReadyReopens
  BY DEF RepositoryInv, FrameInv, OpenInv, ReadyReopens
<1>2. QED
  BY <1>1, RepositoryInvariance, PTL

\* A request that failed, at a step or at its save, and took back what it had to is
\* accepted when it is sent again (sdkProvisionInit, sdkProvisionRemote,
\* repositoryAttempt.cleanup, ConfigureRemote, RemoveRemote).
THEOREM RetriesResume == Spec => []RetryResumes
<1>1. RepositoryInv => RetryResumes
  BY DEF RepositoryInv, FrameInv, RetryInv
<1>2. QED
  BY <1>1, RepositoryInvariance, PTL

\* No step takes an entry of somebody else away.
LEMMA KeepsAlien ==
  ASSUME RepositoryInv, [Next]_vars
  PROVE  path.alien \subseteq path'.files
<1>1. TypeOK /\ path \in Path /\ path.alien \subseteq path.files
  BY DEF RepositoryInv, FrameInv, PathInv, TypeOK
<1>2. CASE SetupStep
  <2>1. CASE ReserveGit
    <3>1. path'.files = path.files
      BY <1>1, <2>1, ReserveFacts DEF Path
    <3>2. QED
      BY <1>1, <3>1
  <2>2. CASE PublishDir \/ LinkFile
    <3>1. path' = path \/ \E e \in Entries : path' = [path EXCEPT !.files = path.files \cup {e}]
      BY <1>1, <2>2, PublishFacts
    <3>2. path.files \subseteq path'.files
      BY <1>1, <3>1 DEF Path
    <3>3. QED
      BY <1>1, <3>2
  <2>3. QED
    BY <1>1, <1>2, <2>1, <2>2, SetupWrites DEF SetupStep
<1>3. CASE UndoStep
  <2>1. job # None
    BY <1>1, <1>3, UndoStepTypes
  <2>2. ASSUME NEW e \in Entries, NEW pc \in Pcs, Undo(e, pc)
        PROVE  path.alien \subseteq path'.files
    <3>1. path' = path \/ (path' = [path EXCEPT !.files = path.files \ {e}] /\ e \notin path.alien)
      BY <1>1, <2>1, <2>2, UndoFacts DEF Removable
    <3>2. QED
      BY <1>1, <3>1 DEF Path
  <2>3. CASE UndoFile \/ UndoDir
    BY <2>2, <2>3 DEF UndoFile, UndoDir, Entries, Pcs
  <2>4. CASE AttemptFails
    <3>1. path.files \subseteq path'.files
      BY <1>1, <2>4, AttemptFailsFacts DEF Path
    <3>2. QED
      BY <1>1, <3>1
  <2>5. CASE UndoGit
    <3>1. CASE path' = [EmptyPath EXCEPT !.junk = path.junk, !.files = path.files, !.alien = path.alien]
      BY <1>1, <3>1 DEF EmptyPath
    <3>2. ASSUME NEW kept, path' = GitRemains(path, kept)
          PROVE  path.alien \subseteq path'.files
      BY <1>1, <3>2, RemainsTypes
    <3>3. QED
      BY <2>5, <3>1, <3>2 DEF UndoGit, Finish
  <2>6. CASE ReserveFails
    <3>1. path'.files = path.files
      BY <1>1, <2>6 DEF ReserveFails, Finish, Path
    <3>2. QED
      BY <1>1, <3>1
  <2>7. CASE \E e \in Entries : Outsider(e)
    BY <1>1, <2>7, OutsiderFacts
  <2>8. QED
    BY <1>3, <2>3, <2>4, <2>5, <2>6, <2>7 DEF UndoStep
<1>4. CASE RemoteStep \/ ServiceStep
  <2>1. path'.files = path.files \/ path'.files = Entries
    BY <1>1, <1>4 DEF RemoteStep, InspectConfigure, FetchCandidate, CheckoutCandidate, SetOrigin,
          DeleteCandidate, DeleteOrigin, Provision, Activate, ServiceStep, Register, Begin, StepFails,
          Save, Replace, EditFile, CommitFiles, Crash, Start, ReconcileRegistered, Go, GoUnclean,
          Finish, Path
  <2>2. path.files \subseteq Entries
    BY <1>1 DEF Path
  <2>3. QED
    BY <1>1, <2>1, <2>2
<1>5. CASE UNCHANGED vars
  BY <1>1, <1>5 DEF vars
<1>6. QED
  BY <1>2, <1>3, <1>4, <1>5, NextSteps

\* Whatever fails, and whenever others write to the directory, no step of a setup, of
\* its cleanup or of any other request takes away an entry that somebody else made
\* (repositoryAttempt.publishWorktree, cleanup, removeRootContents).
THEOREM CleanupSparesOthers == Spec => CleanupIsOwn
<1>1. RepositoryInv /\ [Next]_vars => [path.alien \subseteq path'.files]_vars
  BY KeepsAlien
<1>2. QED
  BY <1>1, RepositoryInvariance, PTL DEF Spec, CleanupIsOwn

-----------------------------------------------------------------------------
(* StackCommit: types.                                                     *)

\* The commits that requests remember and parents name exist.
GitShape ==
    /\ GitTypeOK
    /\ \A c \in Requests : req[c].base \in Ids \cup {0}
    /\ \A c \in Requests : req[c].pc \in {"readback", "set"} => req[c].hash \in Ids
    /\ \A k \in Ids : commits[k].parent \in Ids \cup {0}

\* A new commit leaves the older ones as they are.
LEMMA AppendFacts ==
  ASSUME commits \in Seq(Commit), NEW e \in Commit, commits' = Append(commits, e)
  PROVE  /\ commits' \in Seq(Commit) /\ Len(commits) \in Nat /\ Len(commits') = Len(commits) + 1
         /\ Ids' = Ids \cup {Len(commits) + 1} /\ Len(commits) + 1 \notin Ids \cup {0}
         /\ \A k \in Ids : commits'[k] = commits[k]
         /\ commits'[Len(commits) + 1] = e
<1>1. Len(commits) \in Nat
  BY LenProperties
<1>2. /\ commits' \in Seq(Commit) /\ Len(commits') = Len(commits) + 1
      /\ \A k \in 1..Len(commits) : commits'[k] = commits[k]
      /\ commits'[Len(commits) + 1] = e
  BY <1>1, AppendProperties
<1>3. QED
  BY <1>1, <1>2 DEF Ids

\* Trees and pasts of the commits there are.
LEMMA TreeTypes ==
  ASSUME commits \in Seq(Commit), NEW k \in Ids \cup {0}
  PROVE  TreeOf(k) \in Tree /\ Past(k) \subseteq Nat /\ k \in Nat
<1>1. EmptyTree \in Tree
  BY DEF EmptyTree, Tree
<1>2. k # 0 => commits[k] \in Commit /\ k \in Nat
  BY LenProperties, ElementOfSeq DEF Ids
<1>3. QED
  BY <1>1, <1>2 DEF TreeOf, Past, Commit

\* The fields of a request.
LEMMA RequestTypes ==
  ASSUME GitTypeOK, NEW c \in Requests
  PROVE  /\ req[c] \in GitRequest /\ req[c].original \in Tree /\ req[c].committed \in Nat
         /\ req[c].base \in Nat /\ req[c].hash \in Nat
         /\ req[c].scope \in Stacks \cup {Repository, NoStack}
  BY DEF GitTypeOK, GitRequest

\* The goroutine of a request keeps its request's record or starts a new one.
LEMMA NoRequestTypes == NoRequest \in GitRequest /\ NoRequest.pc = "idle" /\ NoRequest.base = 0
  BY DEF NoRequest, GitRequest, EmptyTree, Tree

\* A commit or an edit is of a stack, a pull or a push of the repository.
ScopeFacts(c) ==
    /\ req[c].pc \in CommitWork => req[c].scope \in Stacks /\ c \in Committers
    /\ req[c].pc = "edit" => req[c].scope \in Stacks
    /\ req[c].pc \in {"pull", "push"} => req[c].scope = Repository
    /\ req[c].pc # "idle" => req[c].scope \in Stacks \cup {Repository}

\* The coordinator's flags stand for the requests that hold them, and no two
\* requests hold scopes that overlap.
GitLockInv ==
    /\ \A c \in Requests : ScopeFacts(c)
    /\ \A c \in Requests : req[c].pc # "idle" =>
          IF req[c].scope = Repository THEN coord.repository ELSE req[c].scope \in coord.stacks
    /\ \A c, d \in Requests : (c # d /\ req[c].pc # "idle" /\ req[d].pc # "idle") =>
          req[c].scope # Repository /\ req[c].scope # req[d].scope

\* A step of goroutine c, as the other goroutines see it.
LEMMA ServeFrame ==
  ASSUME GitTypeOK, NEW c \in Requests, Serve(c)
  PROVE  \A d \in Requests \ {c} : req'[d] = req[d]
<1>1. req \in [Requests -> GitRequest]
  BY DEF GitTypeOK
<1>2. QED
  BY <1>1 DEF Serve, Arrive, WriteFile, ReadIndex, ReadHead, Reset, Add, CommitIndex, ReadBack,
              SetIndex, Fail, Restore, Pull, Push, Leave, Returned

\* The request of a call that has returned.
LEMMA ReturnedRequest ==
  ASSUME GitTypeOK, NEW c \in Requests, req' = Returned(c)
  PROVE  /\ req' \in [Requests -> GitRequest]
         /\ req'[c].pc = "leave" /\ req'[c].scope = req[c].scope /\ req'[c].base = 0
<1>1. req \in [Requests -> GitRequest] /\ req[c].scope \in Stacks \cup {Repository, NoStack}
  BY RequestTypes DEF GitTypeOK
<1>2. PICK r : r = [NoRequest EXCEPT !.pc = "leave", !.scope = req[c].scope]
  OBVIOUS
<1>3. r \in GitRequest /\ r.pc = "leave" /\ r.scope = req[c].scope /\ r.base = 0
  BY <1>1, <1>2, NoRequestTypes DEF GitRequest
<1>4. req' = [req EXCEPT ![c] = r]
  BY <1>2 DEF Returned
<1>5. QED
  BY <1>1, <1>3, <1>4

\* The request of c after each of its steps.
LEMMA ServeRequest ==
  ASSUME GitTypeOK, GitLockInv, NEW c \in Requests, Serve(c)
  PROVE  /\ req' \in [Requests -> GitRequest]
         /\ \/ /\ req[c].pc = "idle" /\ req'[c].pc \in {"edit", "index"} /\ req'[c].scope \in Stacks
               /\ req'[c].pc = "index" => c \in Committers
               /\ req'[c].base = 0
            \/ /\ req[c].pc = "idle" /\ req'[c].pc \in {"pull", "push"}
               /\ req'[c].scope = Repository /\ req'[c].base = 0
            \/ req[c].pc = "leave" /\ req'[c] = NoRequest
            \/ /\ req[c].pc \notin {"idle", "leave"} /\ req'[c].scope = req[c].scope
               /\ coord' = coord
               /\ req'[c].pc = "leave" \/ (req[c].pc \in CommitWork /\ req'[c].pc \in CommitWork)
               /\ req'[c].base \in {req[c].base, head, 0}
<1>1. req \in [Requests -> GitRequest] /\ req[c] \in GitRequest
  BY DEF GitTypeOK
<1>2. ASSUME NEW s \in Stacks, NEW pc \in {"edit", "index"}, Arrive(c, pc, s),
             pc = "index" => c \in Committers
      PROVE  /\ req' \in [Requests -> GitRequest]
             /\ req[c].pc = "idle" /\ req'[c].pc \in {"edit", "index"} /\ req'[c].scope \in Stacks
             /\ req'[c].pc = "index" => c \in Committers
             /\ req'[c].base = 0
  <2>1. PICK q : q = [NoRequest EXCEPT !.pc = pc, !.scope = s]
    OBVIOUS
  <2>2. q \in GitRequest /\ q.pc = pc /\ q.scope = s /\ q.base = 0
    BY <2>1, NoRequestTypes DEF GitRequest, CommitWork, CommitPcs
  <2>3. req' = [req EXCEPT ![c] = q] /\ req[c].pc = "idle"
    BY <1>2, <2>1 DEF Arrive
  <2>4. req'[c] = q
    BY <1>1, <2>3
  <2>5. QED
    BY <1>1, <1>2, <2>2, <2>3, <2>4
<1>3. ASSUME NEW pc \in {"pull", "push"}, Arrive(c, pc, Repository)
      PROVE  /\ req' \in [Requests -> GitRequest]
             /\ req[c].pc = "idle" /\ req'[c].pc \in {"pull", "push"}
             /\ req'[c].scope = Repository /\ req'[c].base = 0
  <2>1. PICK q : q = [NoRequest EXCEPT !.pc = pc, !.scope = Repository]
    OBVIOUS
  <2>2. q \in GitRequest /\ q.pc = pc /\ q.scope = Repository /\ q.base = 0
    BY <2>1, NoRequestTypes DEF GitRequest, CommitWork, CommitPcs
  <2>3. req' = [req EXCEPT ![c] = q] /\ req[c].pc = "idle"
    BY <1>3, <2>1 DEF Arrive
  <2>4. req'[c] = q
    BY <1>1, <2>3
  <2>5. QED
    BY <1>1, <2>2, <2>3, <2>4
<1>4. CASE Leave(c)
  BY <1>1, <1>4, NoRequestTypes DEF Leave
<1>5. ASSUME NEW r \in GitRequest, req' = [req EXCEPT ![c] = r], r.scope = req[c].scope,
             req[c].pc \in CommitWork, r.pc \in CommitWork,
             r.base \in {req[c].base, head, 0}, coord' = coord
      PROVE  /\ req' \in [Requests -> GitRequest]
             /\ req[c].pc \notin {"idle", "leave"} /\ req'[c].scope = req[c].scope
             /\ coord' = coord
             /\ req[c].pc \in CommitWork /\ req'[c].pc \in CommitWork
             /\ req'[c].base \in {req[c].base, head, 0}
  BY <1>1, <1>5 DEF CommitWork, CommitPcs
<1>6. CASE req' = Returned(c) /\ coord' = coord /\ req[c].pc \in CommitWork \cup {"edit", "pull", "push"}
  BY <1>6, ReturnedRequest DEF CommitWork, CommitPcs
<1>7. CASE Reset(c) \/ Add(c)
  <2>1. PICK r : r = req'[c]
    OBVIOUS
  <2>2. /\ r \in GitRequest /\ r.scope = req[c].scope /\ r.base \in {req[c].base, head, 0}
        /\ r.pc \in {"add", "commit"} /\ req' = [req EXCEPT ![c] = r]
    BY <1>1, <1>7, <2>1 DEF Reset, Add, GitRequest, CommitWork, CommitPcs
  <2>3. coord' = coord /\ req[c].pc \in CommitWork
    BY <1>7 DEF Reset, Add, CommitWork, CommitPcs
  <2>4. QED
    BY <1>5, <2>2, <2>3 DEF CommitWork, CommitPcs
<1>8. CASE Fail(c)
  <2>1. CASE req[c].pc \in IndexIsReset
    <3>1. PICK r : r = req'[c]
      OBVIOUS
    <3>2. /\ r \in GitRequest /\ r.scope = req[c].scope /\ r.base = req[c].base
          /\ r.pc = "restore" /\ req' = [req EXCEPT ![c] = r]
      BY <1>1, <1>8, <2>1, <3>1 DEF Fail, GitRequest, CommitWork
    <3>3. coord' = coord /\ req[c].pc \in CommitWork
      BY <1>8, <2>1 DEF Fail, IndexIsReset, CommitWork, CommitPcs
    <3>4. QED
      BY <1>5, <3>2, <3>3 DEF CommitWork
  <2>2. CASE req[c].pc \notin IndexIsReset
    BY <1>6, <1>8, <2>2 DEF Fail, CommitWork
  <2>3. QED
    BY <2>1, <2>2
<1>9. CASE ReadIndex(c) \/ ReadBack(c) \/ ReadHead(c) \/ CommitIndex(c)
  <2>1. index \in Tree /\ head \in Nat /\ Len(commits) + 1 \in Nat
    BY TreeTypes, LenProperties DEF GitTypeOK
  <2>2. PICK r : r = req'[c]
    OBVIOUS
  <2>3. /\ r \in GitRequest /\ r.scope = req[c].scope /\ r.base \in {req[c].base, head, 0}
        /\ r.pc \in {"head", "set", "reset", "readback"}
        /\ req' = [req EXCEPT ![c] = r]
    <3>1. CASE ReadIndex(c)
      BY <1>1, <2>1, <2>2, <3>1 DEF ReadIndex, GitRequest, CommitWork, CommitPcs
    <3>2. CASE ReadBack(c)
      <4>1. index[req[c].scope] \in Nat
        BY <2>1, <3>2 DEF ReadBack, GitLockInv, ScopeFacts, CommitWork, CommitPcs, Tree
      <4>2. QED
        BY <1>1, <2>2, <3>2, <4>1 DEF ReadBack, GitRequest, CommitWork, CommitPcs
    <3>3. CASE ReadHead(c)
      BY <1>1, <2>1, <2>2, <3>3 DEF ReadHead, GitRequest, CommitWork, CommitPcs
    <3>4. CASE CommitIndex(c)
      BY <1>1, <2>1, <2>2, <3>4 DEF CommitIndex, GitRequest, CommitWork, CommitPcs
    <3>5. QED
      BY <1>9, <3>1, <3>2, <3>3, <3>4
  <2>4. coord' = coord /\ req[c].pc \in CommitWork
    BY <1>9 DEF ReadIndex, ReadBack, ReadHead, CommitIndex, CommitWork, CommitPcs
  <2>5. QED
    BY <1>5, <2>3, <2>4 DEF CommitWork, CommitPcs
<1>10. CASE WriteFile(c) \/ Pull(c) \/ Push(c) \/ Restore(c) \/ SetIndex(c)
  <2>1. req' = Returned(c) /\ coord' = coord /\ req[c].pc \in CommitWork \cup {"edit", "pull", "push"}
    BY <1>10 DEF WriteFile, Pull, Push, Restore, SetIndex, CommitWork, CommitPcs
  <2>2. QED
    BY <1>6, <2>1
<1>11. QED
  BY <1>2, <1>3, <1>4, <1>7, <1>8, <1>9, <1>10 DEF Serve

\* The coordinator keeps the scopes of the requests apart.
LEMMA GitLockStep ==
  ASSUME GitTypeOK, GitLockInv, NEW c \in Requests, Serve(c)
  PROVE  GitLockInv' /\ coord' \in CoordinatorOf(Stacks)
<1>1. coord \in CoordinatorOf(Stacks) /\ req[c].scope \in Stacks \cup {Repository, NoStack}
  BY RequestTypes DEF GitTypeOK
<1>2. \A d \in Requests \ {c} : req'[d] = req[d]
  BY ServeFrame
<1>3. Repository \notin Stacks
  BY CommitConstants
<1>4. ASSUME NEW s \in Stacks, NEW pc \in {"edit", "index"}, Arrive(c, pc, s),
             pc = "index" => c \in Committers
      PROVE  GitLockInv' /\ coord' \in CoordinatorOf(Stacks)
  <2>1. /\ Try(coord, FALSE, {s}) /\ coord' = Granted(coord, FALSE, {s})
        /\ req[c].pc = "idle" /\ req' = [req EXCEPT ![c] = [NoRequest EXCEPT !.pc = pc, !.scope = s]]
    BY <1>3, <1>4, Zenon DEF Arrive
  <2>2. req'[c].pc = pc /\ req'[c].scope = s
    BY <2>1 DEF GitTypeOK, NoRequest
  <2>3. coord'.repository = coord.repository /\ coord'.stacks = coord.stacks \cup {s}
        /\ coord.repository = FALSE /\ s \notin coord.stacks
    BY <1>1, <2>1 DEF Try, Granted, CoordinatorOf
  <2>4. coord' \in CoordinatorOf(Stacks)
    BY <1>1, <2>1 DEF Granted, CoordinatorOf
  <2>5. QED
    BY <1>2, <1>3, <1>4, <2>2, <2>3, <2>4 DEF GitLockInv, ScopeFacts, CommitWork, CommitPcs
<1>5. ASSUME NEW pc \in {"pull", "push"}, Arrive(c, pc, Repository)
      PROVE  GitLockInv' /\ coord' \in CoordinatorOf(Stacks)
  <2>1. /\ Try(coord, TRUE, {}) /\ coord' = Granted(coord, TRUE, {})
        /\ req[c].pc = "idle"
        /\ req' = [req EXCEPT ![c] = [NoRequest EXCEPT !.pc = pc, !.scope = Repository]]
    <3>1. {Repository} \cap Stacks = {}
      BY <1>3
    <3>2. QED
      BY <1>5, <3>1, Zenon DEF Arrive
  <2>2. req'[c].pc = pc /\ req'[c].scope = Repository
    BY <2>1 DEF GitTypeOK, NoRequest
  <2>3. coord'.repository /\ coord.stacks = {} /\ coord.repository = FALSE
    BY <1>1, <2>1 DEF Try, Granted, CoordinatorOf
  <2>4. coord' \in CoordinatorOf(Stacks)
    BY <1>1, <2>1 DEF Granted, CoordinatorOf
  <2>5. \A d \in Requests : req[d].pc = "idle"
    BY <2>3 DEF GitLockInv
  <2>6. QED
    BY <1>2, <1>3, <2>2, <2>3, <2>4, <2>5 DEF GitLockInv, ScopeFacts, CommitWork, CommitPcs
<1>6. CASE Leave(c)
  <2>1. /\ req[c].pc = "leave" /\ req'[c].pc = "idle"
        /\ coord' = Released(coord, req[c].scope = Repository, {req[c].scope} \cap Stacks)
    BY <1>6, NoRequestTypes DEF Leave, GitTypeOK
  <2>2. coord'.stacks = coord.stacks \ ({req[c].scope} \cap Stacks)
        /\ (req[c].scope # Repository => coord'.repository = coord.repository)
    BY <1>1, <2>1 DEF Released, CoordinatorOf
  <2>3. coord' \in CoordinatorOf(Stacks)
    BY <1>1, <2>1 DEF Released, CoordinatorOf
  <2>4. \A d \in Requests \ {c} : req[d].pc # "idle" =>
           req[d].scope # Repository /\ req[d].scope # req[c].scope
    BY <2>1 DEF GitLockInv
  <2>5. QED
    BY <1>2, <2>1, <2>2, <2>3, <2>4 DEF GitLockInv, ScopeFacts, CommitWork, CommitPcs
<1>7. CASE /\ req[c].pc \notin {"idle", "leave"} /\ req'[c].scope = req[c].scope /\ coord' = coord
           /\ req'[c].pc = "leave" \/ (req[c].pc \in CommitWork /\ req'[c].pc \in CommitWork)
  <2>1. \A d \in Requests : req'[d].scope = req[d].scope /\ (req'[d].pc # "idle" => req[d].pc # "idle")
    BY <1>2, <1>7
  <2>2. \A d \in Requests : ScopeFacts(d)'
    BY <1>2, <1>7, <2>1 DEF GitLockInv, ScopeFacts, CommitWork, CommitPcs
  <2>3. QED
    BY <1>1, <1>7, <2>1, <2>2 DEF GitLockInv
<1>8. CASE WriteFile(c) \/ ReadIndex(c) \/ ReadHead(c) \/ Reset(c) \/ Add(c) \/ CommitIndex(c)
           \/ ReadBack(c) \/ SetIndex(c) \/ Fail(c) \/ Restore(c) \/ Pull(c) \/ Push(c)
  <2>1. req[c].pc \notin {"idle", "leave"}
    BY <1>8 DEF WriteFile, ReadIndex, ReadHead, Reset, Add, CommitIndex, ReadBack, SetIndex, Fail,
                Restore, Pull, Push, CommitPcs
  <2>2. QED
    BY <1>7, <2>1, ServeRequest
<1>9. QED
  BY <1>4, <1>5, <1>6, <1>8 DEF Serve


\* The fates of staged work.
LEMMA StagedTypes == WasReset \in Staged /\ Unsettled \in Staged /\ \A v \in Nat : Kept(v) \in Staged
  BY DEF WasReset, Unsettled, Kept, Staged

\* Whichever commits are cut off.
LEMMA CutOffTypes ==
  ASSUME GitTypeOK, NEW cs
  PROVE  CutOff(cs) \in [Stacks -> Staged]
  BY StagedTypes DEF CutOff, GitTypeOK

\* The steps of requests keep the types.
LEMMA GitShapeServe ==
  ASSUME GitShape, GitLockInv, NEW c \in Requests, Serve(c)
  PROVE  GitShape'
<1>1. /\ req' \in [Requests -> GitRequest] /\ coord' \in CoordinatorOf(Stacks)
      /\ \A d \in Requests \ {c} : req'[d] = req[d]
  BY ServeRequest, GitLockStep, ServeFrame DEF GitShape
<1>2. /\ work \in Tree /\ index \in Tree /\ staged \in [Stacks -> Staged] /\ met \subseteq Requests
      /\ commits \in Seq(Commit)
      /\ head \in Ids \cup {0} /\ remote \in Ids \cup {0} /\ acked \subseteq Ids
      /\ req \in [Requests -> GitRequest]
      /\ req[c].original \in Tree /\ req[c].committed \in Nat /\ req[c].base \in Ids \cup {0}
  BY RequestTypes DEF GitShape, GitTypeOK
<1>3. \A s \in Stacks, v \in Nat, t \in Tree : [t EXCEPT ![s] = v] \in Tree /\ t[s] \in Nat
  BY DEF Tree
<1>4. CASE CommitIndex(c)
  <2>1. PICK e : e = [tree |-> index, past |-> Past(head) \cup {Len(commits) + 1},
                      parent |-> head, stack |-> req[c].scope, saved |-> work[req[c].scope],
                      alone |-> c \notin met]
    OBVIOUS
  <2>2. req[c].scope \in Stacks /\ work[req[c].scope] \in Nat
    BY <1>2, <1>3, <1>4 DEF GitLockInv, ScopeFacts, CommitIndex, CommitWork, CommitPcs
  <2>3. Past(head) \subseteq Nat /\ head \in Nat /\ Len(commits) + 1 \in Nat
    BY <1>2, TreeTypes, LenProperties
  <2>4. e \in Commit /\ e.parent = head
    BY <1>2, <2>1, <2>2, <2>3 DEF Commit
  <2>5. commits' = Append(commits, e) /\ head' = Len(commits) + 1
        /\ req' = [req EXCEPT ![c].pc = "readback", ![c].hash = Len(commits) + 1]
        /\ UNCHANGED <<work, index, remote, acked, coord, staged, met>>
    BY <1>4, <2>1 DEF CommitIndex, history
  <2>6. /\ commits' \in Seq(Commit) /\ Ids' = Ids \cup {Len(commits) + 1}
        /\ \A k \in Ids : commits'[k] = commits[k]
        /\ commits'[Len(commits) + 1] = e
    BY <1>2, <2>4, <2>5, AppendFacts
  <2>7. GitTypeOK'
    BY <1>1, <1>2, <2>5, <2>6 DEF GitTypeOK
  <2>8. req'[c].hash = Len(commits) + 1 /\ req'[c].base = req[c].base
    BY <1>2, <2>5 DEF GitRequest
  <2>9. \A k \in Ids' : commits'[k].parent \in Ids' \cup {0}
    BY <1>2, <2>4, <2>6 DEF GitShape
  <2>10. \A d \in Requests : /\ req'[d].base \in Ids' \cup {0}
                             /\ req'[d].pc \in {"readback", "set"} => req'[d].hash \in Ids'
    BY <1>1, <2>6, <2>8 DEF GitShape
  <2>11. QED
    BY <2>7, <2>9, <2>10 DEF GitShape
<1>5. ASSUME commits' = commits, {work', index'} \subseteq Tree,
             staged' \in [Stacks -> Staged], met' \subseteq Requests,
             {head', remote'} \subseteq Ids \cup {0}, acked' \subseteq Ids,
             req'[c].base \in Ids \cup {0},
             req'[c].pc \in {"readback", "set"} => req'[c].hash \in Ids
      PROVE  GitShape'
  <2>1. Ids' = Ids
    BY <1>5 DEF Ids
  <2>2. GitTypeOK'
    BY <1>1, <1>2, <1>5, <2>1 DEF GitTypeOK
  <2>3. QED
    BY <1>1, <1>5, <2>1, <2>2 DEF GitShape
<1>6. req'[c].base \in Ids \cup {0}
  BY <1>2, ServeRequest, NoRequestTypes DEF GitShape
<1>7. ~CommitIndex(c) => (req'[c].pc \in {"readback", "set"} => req'[c].hash \in Ids)
  <2>1. CASE ReadBack(c)
    BY <1>2, <2>1 DEF ReadBack, GitShape, GitRequest
  <2>2. CASE ~ReadBack(c) /\ ~CommitIndex(c)
    <3>1. req'[c].pc \notin {"readback", "set"}
      <4>1. ASSUME NEW pc \in {"edit", "index", "pull", "push"}, NEW x, Arrive(c, pc, x)
            PROVE  req'[c].pc = pc
        BY <1>2, <4>1 DEF Arrive, NoRequest
      <4>2. CASE ReadIndex(c) \/ ReadHead(c) \/ Reset(c) \/ Add(c) \/ Leave(c)
        BY <1>2, <4>2 DEF ReadIndex, ReadHead, Reset, Add, Leave, NoRequest, GitRequest
      <4>3. CASE WriteFile(c) \/ SetIndex(c) \/ Restore(c) \/ Pull(c) \/ Push(c)
        <5>1. req' = Returned(c)
          BY <4>3 DEF WriteFile, SetIndex, Restore, Pull, Push
        <5>2. QED
          BY <5>1, ReturnedRequest DEF GitShape
      <4>4. CASE Fail(c)
        <5>1. CASE req' = Returned(c)
          BY <5>1, ReturnedRequest DEF GitShape
        <5>2. CASE req' # Returned(c)
          BY <1>2, <4>4, <5>2 DEF Fail, GitRequest
        <5>3. QED
          BY <5>1, <5>2
      <4>5. QED
        BY <2>2, <4>1, <4>2, <4>3, <4>4 DEF Serve
    <3>2. QED
      BY <3>1
  <2>3. QED
    BY <2>1, <2>2
<1>8. CASE ~CommitIndex(c)
  <2>1. commits' = commits
    BY <1>8 DEF Serve, Arrive, WriteFile, ReadIndex, ReadHead, Reset, Add, ReadBack, SetIndex, Fail,
                Restore, Pull, Push, Leave
  <2>2. {head', remote'} \subseteq Ids \cup {0}
    BY <1>2, <1>8 DEF Serve, Arrive, WriteFile, ReadIndex, ReadHead, Reset, Add, ReadBack, SetIndex,
                      Fail, Restore, Pull, Push, Leave
  <2>3. acked' \subseteq Ids
    <3>1. req[c].pc = "set" => req[c].hash \in Ids
      BY DEF GitShape
    <3>2. QED
      BY <1>2, <1>8, <3>1 DEF Serve, Arrive, WriteFile, ReadIndex, ReadHead, Reset, Add, ReadBack,
                              SetIndex, Fail, Restore, Pull, Push, Leave
  <2>4. TreeOf(req[c].base) \in Tree /\ TreeOf(remote) \in Tree
    BY <1>2, TreeTypes
  <2>5. req[c].pc \in CommitWork \cup {"edit"} => req[c].scope \in Stacks
    BY DEF GitLockInv, ScopeFacts
  <2>6. {work', index'} \subseteq Tree
    <3>1. CASE WriteFile(c)
      <4>1. req[c].scope \in Stacks /\ work[req[c].scope] \in Nat
        BY <1>2, <1>3, <2>5, <3>1 DEF WriteFile
      <4>2. work' = [work EXCEPT ![req[c].scope] = work[req[c].scope] + 1] /\ index' = index
        BY <3>1 DEF WriteFile
      <4>3. work[req[c].scope] + 1 \in Nat
        BY <4>1
      <4>4. work' \in Tree
        BY <1>2, <1>3, <4>1, <4>2, <4>3
      <4>5. QED
        BY <1>2, <4>2, <4>4
    <3>2. CASE Reset(c) \/ Restore(c) \/ Pull(c)
      BY <1>2, <2>4, <3>2 DEF Reset, ResetIndex, Restore, Pull
    <3>3. CASE Add(c)
      <4>1. req[c].scope \in Stacks /\ work[req[c].scope] \in Nat
        BY <1>2, <1>3, <2>5, <3>3 DEF Add, CommitWork, CommitPcs
      <4>2. index' = [index EXCEPT ![req[c].scope] = work[req[c].scope]] /\ work' = work
        BY <3>3 DEF Add
      <4>3. index' \in Tree
        BY <1>2, <1>3, <4>1, <4>2
      <4>4. QED
        BY <1>2, <4>2, <4>3
    <3>4. CASE SetIndex(c)
      <4>1. req[c].scope \in Stacks
        BY <2>5, <3>4 DEF SetIndex, CommitWork, CommitPcs
      <4>2. index' = [req[c].original EXCEPT ![req[c].scope] = req[c].committed] /\ work' = work
        BY <3>4 DEF SetIndex, Merged
      <4>3. index' \in Tree
        BY <1>2, <1>3, <4>1, <4>2
      <4>4. QED
        BY <1>2, <4>2, <4>3
    <3>5. CASE UNCHANGED <<work, index>>
      BY <1>2, <3>5
    <3>6. QED
      BY <1>8, <3>1, <3>2, <3>3, <3>4, <3>5
         DEF Serve, Arrive, ReadIndex, ReadHead, ReadBack, Fail, Push, Leave
  <2>7. staged' \in [Stacks -> Staged] /\ met' \subseteq Requests
    <3>1. CASE SetIndex(c)
      <4>1. staged' = [staged EXCEPT ![req[c].scope] = IF c \in met THEN staged[req[c].scope]
                                                       ELSE Kept(req[c].committed)]
            /\ met' = met
        BY <1>2, <3>1 DEF SetIndex
      <4>2. Kept(req[c].committed) \in Staged
        BY <1>2, StagedTypes
      <4>3. QED
        BY <1>2, <4>1, <4>2
    <3>2. CASE Restore(c)
      BY <1>2, <3>2, CutOffTypes DEF Restore, GitShape
    <3>3. CASE Pull(c)
      <4>1. staged' = [s \in Stacks |-> Kept(TreeOf(remote)[s])] /\ met' = met
        BY <3>3 DEF Pull
      <4>2. QED
        BY <1>2, <1>3, <2>4, <4>1, StagedTypes
    <3>4. ASSUME NEW pc, NEW x, Arrive(c, pc, x)
          PROVE  staged' \in [Stacks -> Staged] /\ met' \subseteq Requests
      BY <1>2, <3>4, StagedTypes DEF Arrive
    <3>5. CASE Leave(c)
      BY <1>2, <3>5 DEF Leave
    <3>6. CASE UNCHANGED history
      BY <1>2, <3>6 DEF history
    <3>7. QED
      BY <1>8, <3>1, <3>2, <3>3, <3>4, <3>5, <3>6
         DEF Serve, WriteFile, ReadIndex, ReadHead, Reset, Add, ReadBack, Fail, Push
  <2>8. QED
    BY <1>5, <1>6, <1>7, <1>8, <2>1, <2>2, <2>3, <2>6, <2>7
<1>9. QED
  BY <1>4, <1>8

\* The operator, other clones and crashes keep the types and the locks.
LEMMA GitShapeEnvironment ==
  ASSUME GitShape, GitLockInv, GitEnvironment
  PROVE  GitShape' /\ GitLockInv'
<1>1. /\ work \in Tree /\ index \in Tree /\ staged \in [Stacks -> Staged] /\ met \subseteq Requests
      /\ commits \in Seq(Commit)
      /\ head \in Ids \cup {0} /\ remote \in Ids \cup {0} /\ acked \subseteq Ids
      /\ req \in [Requests -> GitRequest] /\ coord \in CoordinatorOf(Stacks)
  BY DEF GitShape, GitTypeOK
<1>2. \A s \in Stacks, v \in Nat, t \in Tree : [t EXCEPT ![s] = v] \in Tree /\ t[s] \in Nat
  BY DEF Tree
<1>3. ASSUME NEW s \in Stacks, Stage(s)
      PROVE  GitShape' /\ GitLockInv'
  <2>1. index' \in Tree /\ staged' \in [Stacks -> Staged] /\ Ids' = Ids
    BY <1>1, <1>2, <1>3, StagedTypes DEF Stage, Ids
  <2>2. GitTypeOK'
    BY <1>1, <1>3, <2>1 DEF Stage, GitTypeOK
  <2>3. GitLockInv'
    BY <1>3 DEF Stage, GitLockInv, ScopeFacts
  <2>4. QED
    BY <1>3, <2>1, <2>2, <2>3 DEF Stage, GitShape
<1>4. ASSUME NEW s \in Stacks, Upstream(s)
      PROVE  GitShape' /\ GitLockInv'
  <2>1. PICK e : e = [tree |-> [TreeOf(remote) EXCEPT ![s] = MaxVer + 1],
                      past |-> Past(remote) \cup {Len(commits) + 1}, parent |-> remote,
                      stack |-> NoStack, saved |-> 0, alone |-> TRUE]
    OBVIOUS
  <2>2. TreeOf(remote) \in Tree /\ Past(remote) \subseteq Nat /\ remote \in Nat
        /\ Len(commits) + 1 \in Nat /\ MaxVer + 1 \in Nat
    BY <1>1, TreeTypes, LenProperties, CommitConstants
  <2>3. e \in Commit /\ e.parent = remote
    BY <1>2, <2>1, <2>2 DEF Commit
  <2>4. commits' = Append(commits, e) /\ remote' = Len(commits) + 1
        /\ UNCHANGED <<work, index, head, acked, req, coord, staged, met>>
    BY <1>4, <2>1 DEF Upstream, history
  <2>5. /\ commits' \in Seq(Commit) /\ Ids' = Ids \cup {Len(commits) + 1}
        /\ \A k \in Ids : commits'[k] = commits[k]
        /\ commits'[Len(commits) + 1] = e
    BY <1>1, <2>3, <2>4, AppendFacts
  <2>6. GitTypeOK'
    BY <1>1, <2>4, <2>5 DEF GitTypeOK
  <2>7. \A k \in Ids' : commits'[k].parent \in Ids' \cup {0}
    BY <1>1, <2>3, <2>5 DEF GitShape
  <2>8. GitLockInv'
    BY <2>4 DEF GitLockInv, ScopeFacts
  <2>9. QED
    BY <2>4, <2>5, <2>6, <2>7, <2>8 DEF GitShape
<1>5. CASE GitCrash
  <2>1. \A d \in Requests : req'[d] = NoRequest
    BY <1>5 DEF GitCrash
  <2>2. req' \in [Requests -> GitRequest] /\ Ids' = Ids
    BY <1>5, NoRequestTypes DEF GitCrash, Ids
  <2>3. coord' \in CoordinatorOf(Stacks)
    BY <1>5 DEF GitCrash, FreeCoordinator, CoordinatorOf
  <2>4. GitTypeOK'
    BY <1>1, <1>5, <2>2, <2>3, CutOffTypes DEF GitCrash, GitTypeOK, GitShape
  <2>5. GitLockInv'
    BY <2>1, NoRequestTypes DEF GitLockInv, ScopeFacts, CommitWork, CommitPcs
  <2>6. QED
    BY <1>5, <2>1, <2>2, <2>4, <2>5, NoRequestTypes DEF GitCrash, GitShape
<1>6. QED
  BY <1>3, <1>4, <1>5 DEF GitEnvironment

\* A new repository has the types, and nobody holds a lock.
LEMMA GitInitShape ==
  ASSUME GitInit
  PROVE  GitShape /\ GitLockInv
<1>1. EmptyTree \in Tree /\ work \in Tree /\ index \in Tree /\ staged \in [Stacks -> Staged]
      /\ met \subseteq Requests
  BY StagedTypes DEF GitInit, EmptyTree, Tree
<1>2. FirstCommit \in Commit /\ FirstCommit.parent = 0
  BY <1>1 DEF FirstCommit, Commit
<1>3. /\ commits \in Seq(Commit) /\ Len(commits) \in {0, 1}
      /\ \A k \in 1..Len(commits) : commits[k] = FirstCommit
  <2>1. CASE commits = <<>>
    BY <2>1
  <2>2. CASE commits = <<FirstCommit>>
    BY <1>2, <2>2
  <2>3. QED
    BY <2>1, <2>2 DEF GitInit
<1>4. head \in Ids \cup {0} /\ remote \in Ids \cup {0} /\ acked \subseteq Ids
  BY <1>3 DEF GitInit, Ids
<1>5. req \in [Requests -> GitRequest] /\ coord \in CoordinatorOf(Stacks)
      /\ \A c \in Requests : req[c] = NoRequest
  BY NoRequestTypes DEF GitInit, FreeCoordinator, CoordinatorOf
<1>6. GitTypeOK
  BY <1>1, <1>3, <1>4, <1>5 DEF GitTypeOK
<1>7. \A k \in Ids : commits[k].parent \in Ids \cup {0}
  BY <1>2, <1>3 DEF Ids
<1>8. GitLockInv
  BY <1>5, NoRequestTypes DEF GitLockInv, ScopeFacts, CommitWork, CommitPcs
<1>9. QED
  BY <1>5, <1>6, <1>7, <1>8, NoRequestTypes DEF GitShape

\* Every step keeps both.
LEMMA GitShapeNext ==
  ASSUME GitShape, GitLockInv, [GitNext]_gitVars
  PROVE  GitShape' /\ GitLockInv'
<1>1. CASE GitNext
  BY <1>1, GitShapeServe, GitLockStep, GitShapeEnvironment DEF GitNext, GitShape
<1>2. CASE UNCHANGED gitVars
  BY <1>2 DEF gitVars, history, GitShape, GitTypeOK, GitLockInv, ScopeFacts, Ids
<1>3. QED
  BY <1>1, <1>2

\* Trees, commits, requests and locks have their types, for any number of
\* goroutines and committers (sdkCommit, Coordinator.Try).
THEOREM GitTypeCorrect == GitSpec => []GitTypeOK
<1>1. GitInit => GitShape /\ GitLockInv
  BY GitInitShape
<1>2. GitShape /\ GitLockInv /\ [GitNext]_gitVars => (GitShape /\ GitLockInv)'
  BY GitShapeNext
<1>3. GitShape => GitTypeOK
  BY DEF GitShape
<1>4. QED
  BY <1>1, <1>2, <1>3, PTL DEF GitSpec


-----------------------------------------------------------------------------
(* StackCommit: the history, the index and the commits made from it.       *)

\* The past of a commit is closed.
PastInv ==
    /\ \A k \in Ids : k \in commits[k].past /\ commits[k].past \subseteq Ids
    /\ \A k \in Ids : \A j \in commits[k].past : commits[j].past \subseteq commits[k].past

\* The control points at which a request uses the index as its own.
Using == CommitWork \cup {"pull"}

\* Whoever uses the index with others has met them, and knows nothing about staged work.
MetInv ==
    /\ \A c \in met : req[c].pc \in CommitWork \cup {"leave"}
    /\ \A c, d \in Requests : c # d /\ req[c].pc \in Using /\ req[d].pc \in Using => c \in met
    /\ (\E c \in met : req[c].pc \in CommitWork) => \A s \in Stacks : staged[s] = Unsettled

\* What the request of c has done to the index, and what it remembers of it, if no other
\* commit overlapped it.
IndexOf(c) ==
    c \notin met =>
        /\ req[c].pc \in {"index", "pull", "head", "reset"} => AsStaged(index)
        /\ req[c].pc \in {"head", "reset"} \cup IndexIsReset => AsStaged(req[c].original)
        /\ req[c].pc = "reset" => req[c].base = head
        /\ req[c].pc = "add" => index = TreeOf(head)
        /\ req[c].pc = "commit" => index = [TreeOf(head) EXCEPT ![req[c].scope] = work[req[c].scope]]
        /\ req[c].pc \in IndexIsReset =>
              \A s \in Stacks \ {req[c].scope} : index[s] = TreeOf(head)[s]

\* The index, request by request, and outside of them.
IndexInv == StagedWorkSurvives /\ \A c \in Requests : IndexOf(c)

\* The inductive invariant of commits.
CommitInv == GitShape /\ GitLockInv /\ PastInv /\ MetInv /\ IndexInv /\ CommitIsStackScoped

\* A commit on top of the branch k extends its past.
LEMMA PastExtends ==
  ASSUME GitShape, PastInv, NEW k \in Ids \cup {0}, NEW e \in Commit, commits' = Append(commits, e),
         e.past = Past(k) \cup {Len(commits) + 1}
  PROVE  PastInv' /\ \A j \in Ids \cup {0} : Past(j)' = Past(j)
<1>1. commits \in Seq(Commit)
  BY DEF GitShape, GitTypeOK
<1>2. PICK n : n = Len(commits) + 1
  OBVIOUS
<1>3. /\ Ids' = Ids \cup {n} /\ n \notin Ids \cup {0}
      /\ \A j \in Ids : commits'[j] = commits[j]
      /\ commits'[n] = e
  BY <1>1, <1>2, AppendFacts
<1>4. Past(k) \subseteq Ids /\ \A j \in Past(k) : commits[j].past \subseteq Past(k)
  BY DEF Past, PastInv
<1>5. \A j \in Ids' : j \in commits'[j].past /\ commits'[j].past \subseteq Ids'
  BY <1>2, <1>3, <1>4 DEF PastInv
<1>6. ASSUME NEW j \in Ids', NEW i \in commits'[j].past
      PROVE  commits'[i].past \subseteq commits'[j].past
  <2>1. CASE j \in Ids
    <3>1. i \in commits[j].past /\ i \in Ids
      BY <1>3, <1>6, <2>1 DEF PastInv
    <3>2. commits[i].past \subseteq commits[j].past
      BY <2>1, <3>1 DEF PastInv
    <3>3. QED
      BY <1>3, <2>1, <3>1, <3>2
  <2>2. CASE j = n
    <3>1. CASE i = n
      BY <2>2, <3>1
    <3>2. CASE i \in Past(k)
      <4>1. i \in Ids /\ commits[i].past \subseteq Past(k)
        BY <1>4, <3>2
      <4>2. QED
        BY <1>2, <1>3, <2>2, <4>1
    <3>3. QED
      BY <1>2, <1>3, <1>6, <2>2, <3>1, <3>2
  <2>3. QED
    BY <1>3, <2>1, <2>2
<1>7. PastInv'
  BY <1>5, <1>6 DEF PastInv
<1>8. \A j \in Ids \cup {0} : Past(j)' = Past(j)
  BY <1>3 DEF Past
<1>9. QED
  BY <1>7, <1>8


\* What AsStaged says after a step of a tree that the step leaves alone.
AsStagedNext(tree) ==
    \A s \in Stacks :
        /\ staged'[s].fate = "kept" => tree[s] = staged'[s].ver
        /\ staged'[s].fate = "reset" => \E k \in Past(head)' \cup {0} : tree[s] = TreeOf(k)'[s]

\* No commit changes; a new one extends the past of the branch it is made on.
LEMMA CommitsGrow ==
  ASSUME GitShape, GitLockInv, PastInv, GitNext
  PROVE  PastInv' /\ \A k \in Ids \cup {0} : TreeOf(k)' = TreeOf(k) /\ Past(k)' = Past(k)
<1>1. /\ commits \in Seq(Commit) /\ head \in Ids \cup {0} /\ remote \in Ids \cup {0}
      /\ work \in Tree /\ index \in Tree
  BY DEF GitShape, GitTypeOK
<1>2. ASSUME NEW e \in Commit, commits' = Append(commits, e), NEW b \in Ids \cup {0},
             e.past = Past(b) \cup {Len(commits) + 1}
      PROVE  PastInv' /\ \A k \in Ids \cup {0} : TreeOf(k)' = TreeOf(k) /\ Past(k)' = Past(k)
  <2>1. PastInv' /\ \A k \in Ids \cup {0} : Past(k)' = Past(k)
    BY <1>2, PastExtends
  <2>2. \A k \in Ids : commits'[k] = commits[k]
    BY <1>1, <1>2, AppendFacts
  <2>3. \A k \in Ids \cup {0} : TreeOf(k)' = TreeOf(k)
    BY <2>2 DEF TreeOf
  <2>4. QED
    BY <2>1, <2>3
<1>3. ASSUME NEW c \in Requests, CommitIndex(c)
      PROVE  PastInv' /\ \A k \in Ids \cup {0} : TreeOf(k)' = TreeOf(k) /\ Past(k)' = Past(k)
  <2>1. PICK e : e = [tree |-> index, past |-> Past(head) \cup {Len(commits) + 1},
                      parent |-> head, stack |-> req[c].scope, saved |-> work[req[c].scope],
                      alone |-> c \notin met]
    OBVIOUS
  <2>2. req[c].scope \in Stacks /\ work[req[c].scope] \in Nat
    BY <1>1, <1>3 DEF GitLockInv, ScopeFacts, CommitIndex, CommitWork, CommitPcs, Tree
  <2>3. Past(head) \subseteq Nat /\ head \in Nat /\ Len(commits) + 1 \in Nat
    BY <1>1, TreeTypes, LenProperties
  <2>4. e \in Commit /\ e.past = Past(head) \cup {Len(commits) + 1}
    BY <1>1, <2>1, <2>2, <2>3 DEF Commit
  <2>5. commits' = Append(commits, e)
    BY <1>3, <2>1 DEF CommitIndex
  <2>6. QED
    BY <1>1, <1>2, <2>4, <2>5
<1>4. ASSUME NEW s \in Stacks, Upstream(s)
      PROVE  PastInv' /\ \A k \in Ids \cup {0} : TreeOf(k)' = TreeOf(k) /\ Past(k)' = Past(k)
  <2>1. PICK e : e = [tree |-> [TreeOf(remote) EXCEPT ![s] = MaxVer + 1],
                      past |-> Past(remote) \cup {Len(commits) + 1}, parent |-> remote,
                      stack |-> NoStack, saved |-> 0, alone |-> TRUE]
    OBVIOUS
  <2>2. TreeOf(remote) \in Tree /\ Past(remote) \subseteq Nat /\ remote \in Nat
        /\ Len(commits) + 1 \in Nat /\ MaxVer + 1 \in Nat
    BY <1>1, TreeTypes, LenProperties, CommitConstants
  <2>3. [TreeOf(remote) EXCEPT ![s] = MaxVer + 1] \in Tree
    BY <2>2 DEF Tree
  <2>4. e \in Commit /\ e.past = Past(remote) \cup {Len(commits) + 1}
    BY <2>1, <2>2, <2>3 DEF Commit
  <2>5. commits' = Append(commits, e)
    BY <1>4, <2>1 DEF Upstream
  <2>6. QED
    BY <1>1, <1>2, <2>4, <2>5
<1>5. CASE commits' = commits
  BY <1>5 DEF PastInv, Ids, TreeOf, Past
<1>6. QED
  BY <1>3, <1>4, <1>5 DEF GitNext, Serve, GitEnvironment, Stage, GitCrash, Arrive, WriteFile,
     ReadIndex, ReadHead, Reset, Add, ReadBack, SetIndex, Fail, Restore, Pull, Push, Leave

\* The checked-out branch only moves forward, but for the reset of a commit that met another.
LEMMA HeadMoves ==
  ASSUME GitShape, GitLockInv, PastInv, IndexInv, GitNext
  PROVE  \/ Past(head) \subseteq Past(head)'
         \/ \E c \in met : req[c].pc = "reset" /\ req'[c].pc = "add"
<1>1. /\ commits \in Seq(Commit) /\ head \in Ids \cup {0} /\ remote \in Ids \cup {0}
      /\ req \in [Requests -> GitRequest] /\ work \in Tree /\ index \in Tree
  BY DEF GitShape, GitTypeOK
<1>2. \A k \in Ids \cup {0} : Past(k)' = Past(k)
  BY CommitsGrow
<1>3. CASE head' = head
  BY <1>1, <1>2, <1>3 DEF Past
<1>4. ASSUME NEW c \in Requests, CommitIndex(c)
      PROVE  Past(head) \subseteq Past(head)'
  <2>1. PICK e : e = [tree |-> index, past |-> Past(head) \cup {Len(commits) + 1},
                      parent |-> head, stack |-> req[c].scope, saved |-> work[req[c].scope],
                      alone |-> c \notin met]
    OBVIOUS
  <2>2. req[c].scope \in Stacks /\ work[req[c].scope] \in Nat
    BY <1>1, <1>4 DEF GitLockInv, ScopeFacts, CommitIndex, CommitWork, CommitPcs, Tree
  <2>3. Past(head) \subseteq Nat /\ head \in Nat /\ Len(commits) + 1 \in Nat
    BY <1>1, TreeTypes, LenProperties
  <2>4. e \in Commit /\ e.past = Past(head) \cup {Len(commits) + 1}
    BY <1>1, <2>1, <2>2, <2>3 DEF Commit
  <2>5. commits' = Append(commits, e) /\ head' = Len(commits) + 1
    BY <1>4, <2>1 DEF CommitIndex
  <2>6. commits'[Len(commits) + 1] = e /\ Len(commits) + 1 # 0
    BY <1>1, <2>4, <2>5, AppendFacts
  <2>7. Past(head)' = e.past
    BY <2>5, <2>6 DEF Past
  <2>8. QED
    BY <2>4, <2>7
<1>5. ASSUME NEW c \in Requests, Pull(c)
      PROVE  Past(head) \subseteq Past(head)'
  <2>1. /\ head' = remote /\ commits' = commits /\ head \in Past(remote) /\ remote # 0 /\ head # 0
    BY <1>5 DEF Pull, FastForward
  <2>2. Past(head) \subseteq Past(remote)
    BY <1>1, <2>1 DEF PastInv, Past
  <2>3. QED
    BY <2>1, <2>2 DEF Past
<1>6. ASSUME NEW c \in Requests, Reset(c)
      PROVE  head' = head \/ (c \in met /\ req[c].pc = "reset" /\ req'[c].pc = "add")
  <2>1. req[c].pc = "reset" /\ req'[c].pc = "add"
    BY <1>1, <1>6 DEF Reset, GitRequest
  <2>2. c \notin met => req[c].base = head
    BY <2>1 DEF IndexInv, IndexOf
  <2>3. QED
    BY <1>6, <2>1, <2>2 DEF Reset
<1>7. QED
  BY <1>3, <1>4, <1>5, <1>6 DEF GitNext, Serve, GitEnvironment, Stage, GitCrash, Upstream, Arrive,
     WriteFile, ReadIndex, ReadHead, Add, ReadBack, SetIndex, Fail, Restore, Push, Leave

\* While the history does not shrink and nothing happens to staged work, a tree that
\* fits it goes on to do so.
LEMMA AsStagedKept ==
  ASSUME GitShape, GitLockInv, PastInv, GitNext, staged' = staged, Past(head) \subseteq Past(head)'
  PROVE  \A t : AsStaged(t) => AsStagedNext(t)
<1>1. \A k \in Past(head) \cup {0} : TreeOf(k)' = TreeOf(k)
  <2>1. Past(head) \subseteq Ids
    BY DEF PastInv, Past, GitShape, GitTypeOK
  <2>2. QED
    BY <2>1, CommitsGrow
<1>2. QED
  BY <1>1 DEF AsStaged, AsStagedNext

\* What keeps the operator from staging.
LEMMA CommittingIsUsing == Committing <=> \E c \in Requests : req[c].pc \in Using
  BY DEF Committing, Using

\* The head is in its own past, unless it is unborn.
LEMMA HeadInPast ==
  ASSUME GitShape, PastInv
  PROVE  head \in Past(head) \cup {0}
  BY DEF GitShape, GitTypeOK, PastInv, Past

\* The stacks of the commits that are cut off are open; the others were reset.
LEMMA CutOffFits ==
  ASSUME GitShape, PastInv, NEW c \in Requests, staged' = CutOff({c}), head' = head,
         commits' = commits, \A s \in Stacks \ {req[c].scope} : index[s] = TreeOf(head)[s]
  PROVE  AsStagedNext(index)
<1>1. head \in Past(head)' \cup {0} /\ TreeOf(head)' = TreeOf(head)
  BY HeadInPast DEF Past, TreeOf
<1>2. ASSUME NEW s \in Stacks
      PROVE  staged'[s] = Unsettled \/ (s # req[c].scope /\ staged'[s] = WasReset)
  BY DEF CutOff
<1>3. ASSUME NEW s \in Stacks
      PROVE  /\ staged'[s].fate = "kept" => index[s] = staged'[s].ver
             /\ staged'[s].fate = "reset" =>
                   \E k \in Past(head)' \cup {0} : index[s] = TreeOf(k)'[s]
  <2>1. CASE staged'[s] = Unsettled
    BY <2>1 DEF Unsettled
  <2>2. CASE s # req[c].scope /\ staged'[s] = WasReset
    <3>1. index[s] = TreeOf(head)'[s] /\ staged'[s].fate = "reset"
      BY <1>1, <2>2 DEF WasReset
    <3>2. PICK k : k = head
      OBVIOUS
    <3>3. TreeOf(k)' = TreeOf(head)'
      BY <3>2 DEF TreeOf
    <3>4. QED
      BY <1>1, <3>1, <3>2, <3>3
  <2>3. QED
    BY <1>2, <2>1, <2>2
<1>4. QED
  BY <1>3 DEF AsStagedNext

\* A commit or a pull that no other commit overlapped.
LEMMA IndexUsing ==
  ASSUME GitShape, GitLockInv, PastInv, MetInv, IndexInv, NEW c \in Requests, Serve(c),
         req[c].pc \in Using, c \notin met
  PROVE  MetInv' /\ IndexInv'
<1>1. \A d \in Requests \ {c} : req'[d] = req[d] /\ req[d].pc \notin Using
  BY ServeFrame DEF GitShape, MetInv
<1>2. /\ req \in [Requests -> GitRequest] /\ req[c] \in GitRequest
      /\ index \in Tree /\ staged \in [Stacks -> Staged] /\ work \in Tree
      /\ req[c].original \in Tree /\ head \in Ids \cup {0} /\ commits \in Seq(Commit)
  BY RequestTypes DEF GitShape, GitTypeOK
<1>3. IndexOf(c)
  BY DEF IndexInv
<1>4. /\ req[c].pc \in CommitWork => req[c].scope \in Stacks
      /\ req[c].pc \notin {"idle", "edit", "push", "leave"}
  BY DEF GitLockInv, ScopeFacts, Using, CommitWork, CommitPcs
<1>5. GitNext /\ Past(head) \subseteq Past(head)'
  <2>1. GitNext
    BY DEF GitNext
  <2>2. \A d \in met : req[d].pc # "reset" \/ d \notin Requests
    BY <1>1 DEF Using, CommitWork, CommitPcs
  <2>3. QED
    BY <2>1, <2>2, HeadMoves DEF GitShape, GitTypeOK
<1>6. met' = met
  BY <1>4 DEF Serve, Arrive, WriteFile, ReadIndex, ReadHead, Reset, Add, CommitIndex, ReadBack,
              SetIndex, Fail, Restore, Pull, Push, Leave, history
<1>7. \A k \in Past(head) \cup {0} : TreeOf(k)' = TreeOf(k)
  <2>1. Past(head) \subseteq Ids
    BY <1>2 DEF PastInv, Past
  <2>2. QED
    BY <1>5, <2>1, CommitsGrow
<1>8. IndexOf(c)' /\ (req'[c].pc \notin Using => AsStaged(index)')
  <2>1. ASSUME staged' = staged
        PROVE  \A t : AsStaged(t) => AsStagedNext(t)
    BY <1>5, <2>1, AsStagedKept
  <2>2. CASE ReadIndex(c)
    <3>1. req'[c].pc = "head" /\ req'[c].original = index /\ index' = index /\ staged' = staged
      BY <1>2, <2>2 DEF ReadIndex, GitRequest, history
    <3>2. AsStagedNext(index)
      BY <1>3, <2>1, <2>2, <3>1 DEF ReadIndex, IndexOf
    <3>3. AsStaged(index)' /\ AsStaged(req[c].original)'
      BY <3>1, <3>2 DEF AsStaged, AsStagedNext
    <3>4. QED
      BY <3>1, <3>3 DEF IndexOf, IndexIsReset, Using, CommitWork, CommitPcs
  <2>3. CASE ReadHead(c)
    <3>1. /\ req'[c].pc = "reset" /\ req'[c].base = head /\ req'[c].original = req[c].original
          /\ index' = index /\ staged' = staged /\ head' = head
      BY <1>2, <2>3 DEF ReadHead, GitRequest, history
    <3>2. AsStagedNext(index) /\ AsStagedNext(req[c].original)
      BY <1>3, <2>1, <2>3, <3>1 DEF ReadHead, IndexOf
    <3>3. AsStaged(index)' /\ AsStaged(req[c].original)'
      BY <3>1, <3>2 DEF AsStaged, AsStagedNext
    <3>4. QED
      BY <3>1, <3>3 DEF IndexOf, IndexIsReset, Using, CommitWork, CommitPcs
  <2>4. CASE Reset(c)
    <3>1. req[c].base = head /\ AsStaged(req[c].original)
      BY <1>3, <2>4 DEF Reset, IndexOf
    <3>2. index' = TreeOf(head) /\ head' = head /\ commits' = commits /\ staged' = staged
      BY <2>4, <3>1 DEF Reset, ResetIndex, history
    <3>3. req'[c].pc = "add" /\ req'[c].original = req[c].original
      BY <1>2, <2>4 DEF Reset, GitRequest
    <3>4. AsStagedNext(req[c].original)
      BY <2>1, <3>1, <3>2
    <3>5. AsStaged(req[c].original)' /\ index' = TreeOf(head)'
      BY <3>2, <3>3, <3>4 DEF AsStaged, AsStagedNext, TreeOf
    <3>6. QED
      BY <3>3, <3>5 DEF IndexOf, IndexIsReset, Using, CommitWork, CommitPcs
  <2>5. CASE Add(c)
    <3>1. index = TreeOf(head) /\ AsStaged(req[c].original) /\ req[c].scope \in Stacks
      BY <1>3, <1>4, <2>5 DEF Add, IndexOf, IndexIsReset, CommitWork, CommitPcs
    <3>2. index' = [index EXCEPT ![req[c].scope] = work[req[c].scope]]
          /\ UNCHANGED <<head, commits, staged, work>>
      BY <2>5 DEF Add, history
    <3>3. req'[c].pc = "commit" /\ req'[c].original = req[c].original /\ req'[c].scope = req[c].scope
      BY <1>2, <2>5 DEF Add, GitRequest
    <3>4. AsStaged(req[c].original)'
      <4>1. AsStagedNext(req[c].original)
        BY <2>1, <3>1, <3>2
      <4>2. QED
        BY <3>3, <4>1 DEF AsStaged, AsStagedNext
    <3>5. TreeOf(head)' = TreeOf(head)
      BY <3>2 DEF TreeOf
    <3>6. \A s \in Stacks \ {req'[c].scope} : index'[s] = TreeOf(head)'[s]
      BY <1>2, <3>1, <3>2, <3>3, <3>5 DEF Tree
    <3>7. index' = [TreeOf(head)' EXCEPT ![req'[c].scope] = work'[req'[c].scope]]
      BY <3>1, <3>2, <3>3, <3>5
    <3>8. QED
      BY <3>3, <3>4, <3>6, <3>7 DEF IndexOf, IndexIsReset, Using, CommitWork, CommitPcs
  <2>6. CASE CommitIndex(c)
    <3>1. req'[c].pc = "readback" /\ req'[c].original = req[c].original /\ staged' = staged
          /\ index' = index
      BY <1>2, <2>6 DEF CommitIndex, GitRequest, history
    <3>2. AsStaged(req[c].original)'
      <4>1. AsStagedNext(req[c].original)
        BY <1>3, <2>1, <2>6, <3>1 DEF CommitIndex, IndexOf, IndexIsReset
      <4>2. QED
        BY <3>1, <4>1 DEF AsStaged, AsStagedNext
    <3>3. TreeOf(head)' = index
      <4>1. PICK e : e = [tree |-> index, past |-> Past(head) \cup {Len(commits) + 1},
                          parent |-> head, stack |-> req[c].scope, saved |-> work[req[c].scope],
                          alone |-> c \notin met]
        OBVIOUS
      <4>2. req[c].scope \in Stacks /\ work[req[c].scope] \in Nat
        BY <1>2, <1>4, <2>6 DEF CommitIndex, CommitWork, CommitPcs, Tree
      <4>3. Past(head) \subseteq Nat /\ head \in Nat /\ Len(commits) + 1 \in Nat
        BY <1>2, TreeTypes, LenProperties
      <4>4. e \in Commit /\ e.tree = index
        BY <1>2, <4>1, <4>2, <4>3 DEF Commit
      <4>5. commits' = Append(commits, e) /\ head' = Len(commits) + 1
        BY <2>6, <4>1 DEF CommitIndex
      <4>6. commits'[Len(commits) + 1] = e /\ Len(commits) + 1 # 0
        BY <1>2, <4>4, <4>5, AppendFacts
      <4>7. QED
        BY <4>4, <4>5, <4>6 DEF TreeOf
    <3>4. QED
      BY <3>1, <3>2, <3>3 DEF IndexOf, IndexIsReset, Using, CommitWork, CommitPcs
  <2>7. CASE ReadBack(c)
    <3>1. req'[c].pc = "set" /\ req'[c].original = req[c].original /\ req'[c].scope = req[c].scope
          /\ UNCHANGED <<index, head, commits, staged>>
      BY <1>2, <2>7 DEF ReadBack, GitRequest, history
    <3>2. AsStaged(req[c].original)'
      <4>1. AsStagedNext(req[c].original)
        BY <1>3, <2>1, <2>7, <3>1 DEF ReadBack, IndexOf, IndexIsReset
      <4>2. QED
        BY <3>1, <4>1 DEF AsStaged, AsStagedNext
    <3>3. \A s \in Stacks \ {req[c].scope} : index[s] = TreeOf(head)[s]
      BY <1>3, <2>7 DEF ReadBack, IndexOf, IndexIsReset
    <3>4. TreeOf(head)' = TreeOf(head)
      BY <3>1 DEF TreeOf
    <3>5. QED
      BY <3>1, <3>2, <3>3, <3>4 DEF IndexOf, IndexIsReset, Using, CommitWork, CommitPcs
  <2>8. CASE SetIndex(c)
    <3>1. req'[c].pc = "leave" /\ req[c].scope \in Stacks
      BY <1>4, <2>8, ReturnedRequest DEF SetIndex, GitShape, CommitWork, CommitPcs
    <3>2. index' = [req[c].original EXCEPT ![req[c].scope] = req[c].committed]
          /\ staged' = [staged EXCEPT ![req[c].scope] = Kept(req[c].committed)]
      BY <2>8 DEF SetIndex, Merged
    <3>3. AsStaged(req[c].original)
      BY <1>3, <2>8 DEF SetIndex, IndexOf, IndexIsReset
    <3>4. AsStagedNext(index')
      <4>1. SUFFICES ASSUME NEW s \in Stacks
                     PROVE  /\ staged'[s].fate = "kept" => index'[s] = staged'[s].ver
                            /\ staged'[s].fate = "reset" =>
                                  \E k \in Past(head)' \cup {0} : index'[s] = TreeOf(k)'[s]
        BY DEF AsStagedNext
      <4>2. CASE s = req[c].scope
        <5>1. index'[s] = req[c].committed /\ staged'[s] = Kept(req[c].committed)
          BY <1>2, <3>1, <3>2, <4>2 DEF Tree
        <5>2. QED
          BY <5>1 DEF Kept
      <4>3. CASE s # req[c].scope
        <5>1. index'[s] = req[c].original[s] /\ staged'[s] = staged[s]
          BY <1>2, <3>1, <3>2, <4>3 DEF Tree
        <5>2. QED
          BY <1>5, <1>7, <3>3, <5>1 DEF AsStaged
      <4>4. QED
        BY <4>2, <4>3
    <3>5. AsStaged(index)'
      BY <3>4 DEF AsStaged, AsStagedNext
    <3>6. QED
      BY <3>1, <3>5 DEF IndexOf, IndexIsReset
  <2>9. CASE Fail(c)
    <3>1. UNCHANGED <<index, commits, head, staged>>
      BY <2>9 DEF Fail, history
    <3>2. CASE req[c].pc \in IndexIsReset
      <4>1. /\ req'[c].pc = "restore" /\ req'[c].original = req[c].original
            /\ req'[c].scope = req[c].scope
        BY <1>2, <2>9, <3>2 DEF Fail, GitRequest
      <4>2. AsStaged(req[c].original)'
        <5>1. AsStagedNext(req[c].original)
          BY <1>3, <2>1, <3>1, <3>2 DEF IndexOf
        <5>2. QED
          BY <4>1, <5>1 DEF AsStaged, AsStagedNext
      <4>3. \A s \in Stacks \ {req[c].scope} : index[s] = TreeOf(head)[s]
        BY <1>3, <3>2 DEF IndexOf
      <4>4. TreeOf(head)' = TreeOf(head)
        BY <3>1 DEF TreeOf
      <4>5. QED
        BY <3>1, <4>1, <4>2, <4>3, <4>4 DEF IndexOf, IndexIsReset, Using, CommitWork
    <3>3. CASE req[c].pc \notin IndexIsReset
      <4>1. req'[c].pc = "leave"
        BY <2>9, <3>3, ReturnedRequest DEF Fail, GitShape
      <4>2. AsStaged(index)
        BY <1>3, <1>4, <2>9, <3>3 DEF Fail, IndexOf, IndexIsReset, CommitPcs
      <4>3. AsStagedNext(index)
        BY <2>1, <3>1, <4>2
      <4>4. AsStaged(index)'
        BY <3>1, <4>3 DEF AsStaged, AsStagedNext
      <4>5. QED
        BY <4>1, <4>4 DEF IndexOf, IndexIsReset
    <3>4. QED
      BY <3>2, <3>3
  <2>10. CASE Restore(c)
    <3>1. req'[c].pc = "leave" /\ req[c].pc = "restore" /\ UNCHANGED <<head, commits>>
      BY <2>10, ReturnedRequest DEF Restore, GitShape
    <3>2. CASE index' = req[c].original /\ staged' = staged
      <4>1. AsStagedNext(req[c].original)
        BY <1>3, <2>1, <3>1, <3>2 DEF IndexOf, IndexIsReset
      <4>2. AsStaged(index)'
        BY <3>2, <4>1 DEF AsStaged, AsStagedNext
      <4>3. QED
        BY <3>1, <4>2 DEF IndexOf, IndexIsReset
    <3>3. CASE index' = index /\ staged' = CutOff({c})
      <4>1. \A s \in Stacks \ {req[c].scope} : index[s] = TreeOf(head)[s]
        BY <1>3, <3>1 DEF IndexOf, IndexIsReset
      <4>2. AsStagedNext(index)
        BY <1>2, <3>1, <3>3, <4>1, CutOffFits
      <4>3. AsStaged(index)'
        BY <3>3, <4>2 DEF AsStaged, AsStagedNext
      <4>4. QED
        BY <3>1, <4>3 DEF IndexOf, IndexIsReset
    <3>4. QED
      BY <2>10, <3>2, <3>3 DEF Restore
  <2>11. CASE Pull(c)
    <3>1. req'[c].pc = "leave"
      BY <2>11, ReturnedRequest DEF Pull, GitShape
    <3>2. index' = TreeOf(remote) /\ staged' = [s \in Stacks |-> Kept(TreeOf(remote)[s])]
      BY <2>11 DEF Pull
    <3>3. AsStaged(index)'
      BY <3>2 DEF AsStaged, Kept
    <3>4. QED
      BY <3>1, <3>3 DEF IndexOf, IndexIsReset
  <2>12. QED
    BY <1>4, <2>2, <2>3, <2>4, <2>5, <2>6, <2>7, <2>8, <2>9, <2>10, <2>11
       DEF Serve, Arrive, WriteFile, Push, Leave
<1>9. \A d \in Requests : IndexOf(d)'
  BY <1>1, <1>8 DEF IndexOf, IndexIsReset, Using, CommitWork, CommitPcs
<1>10. StagedWorkSurvives'
  BY <1>1, <1>8 DEF StagedWorkSurvives, Committing, Using
<1>11. MetInv'
  <2>1. \A d \in met : d \in Requests /\ d # c /\ req'[d] = req[d] /\ req[d].pc \notin CommitWork
    BY <1>1 DEF GitShape, GitTypeOK, Using
  <2>2. QED
    BY <1>1, <1>6, <2>1 DEF MetInv
<1>12. QED
  BY <1>9, <1>10, <1>11 DEF IndexInv

\* A commit that met another.
LEMMA IndexMet ==
  ASSUME GitShape, GitLockInv, MetInv, IndexInv, NEW c \in Requests, Serve(c),
         req[c].pc \in Using, c \in met
  PROVE  MetInv' /\ IndexInv'
<1>1. \A d \in Requests \ {c} : req'[d] = req[d] /\ (req[d].pc \in Using => d \in met)
  BY ServeFrame DEF GitShape, MetInv
<1>2. req[c].pc \in CommitWork /\ staged \in [Stacks -> Staged]
  BY DEF MetInv, Using, CommitWork, CommitPcs, GitShape, GitTypeOK
<1>3. \A s \in Stacks : staged[s] = Unsettled
  BY <1>2 DEF MetInv
<1>4. met' = met /\ \A s \in Stacks : staged'[s] = Unsettled
  BY <1>2, <1>3 DEF Serve, Arrive, WriteFile, ReadIndex, ReadHead, Reset, Add, CommitIndex, ReadBack,
              SetIndex, Fail, Restore, Pull, Push, Leave, history, CommitWork, CommitPcs, CutOff
<1>5. AsStaged(index)'
  BY <1>4 DEF AsStaged, Unsettled
<1>6. \A d \in Requests : IndexOf(d)'
  BY <1>1, <1>4 DEF IndexOf, Using, CommitWork, CommitPcs, IndexIsReset
<1>7. req'[c].pc \in CommitWork \cup {"leave"}
  BY <1>2, ServeRequest, NoRequestTypes DEF GitShape, CommitWork, CommitPcs
<1>8. MetInv'
  BY <1>1, <1>4, <1>7 DEF MetInv, GitShape, GitTypeOK
<1>9. QED
  BY <1>5, <1>6, <1>8 DEF IndexInv, StagedWorkSurvives

\* A request that has nothing to do with the index, or a commit or a pull that arrives.
LEMMA IndexQuiet ==
  ASSUME GitShape, GitLockInv, GitLockInv', PastInv, MetInv, IndexInv, NEW c \in Requests, Serve(c),
         req[c].pc \notin Using
  PROVE  MetInv' /\ IndexInv'
<1>1. \A d \in Requests \ {c} : req'[d] = req[d]
  BY ServeFrame DEF GitShape
<1>2. /\ req \in [Requests -> GitRequest] /\ req[c] \in GitRequest /\ work \in Tree
      /\ met \subseteq Requests /\ staged \in [Stacks -> Staged]
  BY DEF GitShape, GitTypeOK
<1>3. UNCHANGED <<index, head, commits>>
  BY DEF Serve, Arrive, WriteFile, ReadIndex, ReadHead, Reset, Add, CommitIndex, ReadBack, SetIndex,
         Fail, Restore, Pull, Push, Leave, Using, CommitWork, CommitPcs
<1>4. \A d \in Requests \ {c} : req[d].pc = "commit" => work'[req[d].scope] = work[req[d].scope]
  <2>1. CASE WriteFile(c)
    <3>1. \A d \in Requests \ {c} : req[d].pc = "commit" => req[d].scope # req[c].scope
      BY <2>1 DEF WriteFile, GitLockInv
    <3>2. \A d \in Requests : req[d].pc = "commit" => req[d].scope \in Stacks
      BY DEF GitLockInv, ScopeFacts, CommitWork, CommitPcs
    <3>3. QED
      BY <1>2, <2>1, <3>1, <3>2 DEF WriteFile, Tree
  <2>2. CASE work' = work
    BY <2>2
  <2>3. QED
    BY <2>1, <2>2 DEF Serve, Arrive, ReadIndex, ReadHead, Reset, Add, CommitIndex, ReadBack,
                      SetIndex, Fail, Restore, Pull, Push, Leave, Using, CommitWork, CommitPcs
<1>5. req'[c].pc \in {"edit", "index", "pull", "push", "leave", "idle"}
  <2>1. req[c].pc \notin CommitWork
    BY DEF Using
  <2>2. QED
    BY <2>1, ServeRequest, NoRequestTypes DEF GitShape
<1>6. \A d \in Requests \ {c} : req'[c].pc = "pull" => req[d].pc = "idle"
  BY <1>1 DEF GitLockInv, ScopeFacts
<1>7. \A d \in Requests \ {c} : req'[c].pc = "index" => req[d].pc # "pull"
  <2>1. ASSUME NEW d \in Requests \ {c}, req'[c].pc = "index", req[d].pc = "pull"
        PROVE  FALSE
    <3>1. req'[d].pc = "pull" /\ req'[d].scope = Repository
      BY <1>1, <2>1 DEF GitLockInv, ScopeFacts
    <3>2. QED
      BY <2>1, <3>1 DEF GitLockInv
  <2>2. QED
    BY <2>1
<1>8. CASE /\ req[c].pc = "idle" /\ req'[c].pc = "index"
           /\ \E d \in Requests \ {c} : req[d].pc \in CommitWork
           /\ met' = met \cup {d \in Requests : req[d].pc \in CommitWork} \cup {c}
           /\ staged' = [s \in Stacks |-> Unsettled]
  <2>1. \A s \in Stacks : staged'[s] = Unsettled
    BY <1>8
  <2>2. AsStaged(index)'
    BY <2>1 DEF AsStaged, Unsettled
  <2>3. \A d \in Requests : req'[d].pc \in Using => d \in met'
    BY <1>1, <1>7, <1>8 DEF Using
  <2>4. \A d \in Requests : IndexOf(d)'
    BY <2>3 DEF IndexOf, Using, CommitWork, CommitPcs, IndexIsReset
  <2>5. \A d \in met' : req'[d].pc \in CommitWork \cup {"leave"}
    BY <1>1, <1>2, <1>8 DEF MetInv, CommitWork, CommitPcs
  <2>6. MetInv'
    BY <2>1, <2>3, <2>5 DEF MetInv
  <2>7. QED
    BY <2>2, <2>4, <2>6 DEF IndexInv, StagedWorkSurvives
<1>9. CASE /\ met' \in {met, met \ {c}} /\ staged' = staged
           /\ req'[c].pc = "idle" => c \notin met'
           /\ req[c].pc = "idle" /\ req'[c].pc = "index" =>
                 \A d \in Requests \ {c} : req[d].pc \notin CommitWork
  <2>1. \A t : AsStaged(t) <=> AsStagedNext(t)
    BY <1>3, <1>9 DEF AsStaged, AsStagedNext, Past, TreeOf
  <2>2. AsStaged(index)' <=> AsStaged(index)
    BY <1>3, <2>1 DEF AsStaged, AsStagedNext
  <2>3. TreeOf(head)' = TreeOf(head)
    BY <1>3 DEF TreeOf
  <2>4. ASSUME NEW d \in Requests \ {c}
        PROVE  IndexOf(d)'
    <3>1. req'[d] = req[d] /\ (d \in met' <=> d \in met)
      BY <1>1, <1>9, <2>4
    <3>2. IndexOf(d)
      BY DEF IndexInv
    <3>3. AsStaged(req[d].original)' <=> AsStaged(req[d].original)
      <4>1. AsStagedNext(req[d].original) <=> AsStaged(req[d].original)
        BY <2>1
      <4>2. QED
        BY <3>1, <4>1 DEF AsStaged, AsStagedNext
    <3>4. QED
      BY <1>3, <1>4, <2>2, <2>3, <3>1, <3>2, <3>3 DEF IndexOf
  <2>5. CASE req'[c].pc \in Using
    <3>1. req'[c].pc \in {"index", "pull"} /\ req[c].pc = "idle"
      <4>1. req'[c].pc \in {"index", "pull"}
        BY <1>5, <2>5 DEF Using, CommitWork, CommitPcs
      <4>2. req[c].pc \notin CommitWork
        BY DEF Using
      <4>3. QED
        BY <4>1, <4>2, ServeRequest, NoRequestTypes DEF GitShape
    <3>2. \A d \in Requests : req[d].pc \notin Using
      BY <1>6, <1>7, <1>9, <3>1 DEF Using, CommitWork, CommitPcs
    <3>3. AsStaged(index)
      BY <3>2, CommittingIsUsing DEF IndexInv, StagedWorkSurvives
    <3>4. IndexOf(c)'
      BY <2>2, <3>1, <3>3 DEF IndexOf, IndexIsReset
    <3>5. c \notin met
      BY <3>1 DEF MetInv, CommitWork, CommitPcs
    <3>6. MetInv'
      <4>1. \A d \in met' : d \in met /\ d \in Requests \ {c}
        BY <1>2, <1>9, <3>5
      <4>2. \A d \in Requests \ {c} : req'[d].pc \notin Using
        BY <1>1, <3>2
      <4>3. QED
        BY <1>1, <4>1, <4>2 DEF MetInv, Using
    <3>7. QED
      BY <2>2, <2>4, <3>3, <3>4, <3>6 DEF IndexInv, StagedWorkSurvives
  <2>6. CASE req'[c].pc \notin Using
    <3>1. IndexOf(c)'
      BY <2>6 DEF IndexOf, Using, CommitWork, CommitPcs, IndexIsReset
    <3>2. Committing' <=> Committing
      BY <1>1, <2>6 DEF Committing, Using
    <3>3. StagedWorkSurvives'
      BY <2>2, <3>2 DEF IndexInv, StagedWorkSurvives
    <3>4. MetInv'
      <4>1. \A d \in met' : req'[d].pc \in CommitWork \cup {"leave"}
        <5>1. CASE c \in met'
          <6>1. c \in met /\ req[c].pc = "leave"
            BY <1>9, <5>1 DEF MetInv, Using
          <6>2. req'[c].pc = "idle"
            BY <6>1, ServeRequest, NoRequestTypes DEF GitShape
          <6>3. QED
            BY <1>9, <5>1, <6>2
        <5>2. CASE c \notin met'
          BY <1>1, <1>2, <1>9, <5>2 DEF MetInv
        <5>3. QED
          BY <5>1, <5>2
      <4>2. \A d, e \in Requests : (d # e /\ req'[d].pc \in Using /\ req'[e].pc \in Using) => d \in met'
        BY <1>1, <1>9, <2>6 DEF MetInv
      <4>3. (\E d \in met' : req'[d].pc \in CommitWork) => \A s \in Stacks : staged'[s] = Unsettled
        BY <1>1, <1>2, <1>9, <2>6 DEF MetInv, Using
      <4>4. QED
        BY <4>1, <4>2, <4>3 DEF MetInv
    <3>5. QED
      BY <2>4, <3>1, <3>3, <3>4 DEF IndexInv
  <2>7. QED
    BY <2>5, <2>6
<1>10. ASSUME NEW pc \in {"edit", "index", "pull", "push"}, NEW x, Arrive(c, pc, x)
       PROVE  MetInv' /\ IndexInv'
  <2>1. req[c].pc = "idle" /\ req'[c].pc = pc
    BY <1>2, <1>10 DEF Arrive, NoRequest
  <2>2. CASE {d \in Requests : pc = "index" /\ req[d].pc \in CommitWork} = {}
    <3>1. met' = met /\ staged' = staged
      BY <1>10, <2>2 DEF Arrive
    <3>2. QED
      BY <1>9, <2>1, <2>2, <3>1
  <2>3. CASE {d \in Requests : pc = "index" /\ req[d].pc \in CommitWork} # {}
    <3>1. pc = "index" /\ \E d \in Requests : req[d].pc \in CommitWork
      BY <2>3
    <3>2. {d \in Requests : pc = "index" /\ req[d].pc \in CommitWork}
             = {d \in Requests : req[d].pc \in CommitWork}
      BY <3>1
    <3>3. /\ met' = met \cup {d \in Requests : req[d].pc \in CommitWork} \cup {c}
          /\ staged' = [s \in Stacks |-> Unsettled]
      BY <1>10, <2>3, <3>2 DEF Arrive
    <3>4. \E d \in Requests \ {c} : req[d].pc \in CommitWork
      BY <2>1, <3>1 DEF CommitWork, CommitPcs
    <3>5. QED
      BY <1>8, <2>1, <3>1, <3>3, <3>4
  <2>4. QED
    BY <2>2, <2>3
<1>11. CASE Leave(c)
  <2>1. req'[c].pc = "idle" /\ req[c].pc = "leave" /\ met' = met \ {c} /\ staged' = staged
    BY <1>2, <1>11, NoRequestTypes DEF Leave
  <2>2. QED
    BY <1>9, <2>1
<1>12. CASE WriteFile(c) \/ Push(c) \/ Fail(c)
  <2>1. req[c].pc \in {"edit", "push"} /\ met' = met /\ staged' = staged
    BY <1>12 DEF WriteFile, Push, Fail, history, Using, CommitWork, CommitPcs
  <2>2. req'[c].pc = "leave"
    BY <1>12, <2>1, ReturnedRequest DEF WriteFile, Push, Fail, IndexIsReset, GitShape
  <2>3. QED
    BY <1>9, <2>1, <2>2
<1>13. QED
  BY <1>10, <1>11, <1>12 DEF Serve, ReadIndex, ReadHead, Reset, Add, CommitIndex, ReadBack, SetIndex,
         Restore, Pull, Using, CommitWork, CommitPcs

\* The operator stages between commits, other clones commit elsewhere, and a crash
\* leaves an index that is reset or as the operator staged it.
LEMMA IndexEnvironment ==
  ASSUME GitShape, GitLockInv, PastInv, MetInv, IndexInv, GitEnvironment
  PROVE  MetInv' /\ IndexInv'
<1>1. /\ index \in Tree /\ staged \in [Stacks -> Staged] /\ met \subseteq Requests
      /\ head \in Ids \cup {0}
  BY DEF GitShape, GitTypeOK
<1>2. GitNext
  BY DEF GitNext
<1>3. ASSUME NEW s \in Stacks, Stage(s)
      PROVE  MetInv' /\ IndexInv'
  <2>1. \A c \in Requests : req[c].pc \notin Using
    BY <1>3, CommittingIsUsing DEF Stage
  <2>2. AsStaged(index)
    BY <1>3 DEF Stage, IndexInv, StagedWorkSurvives
  <2>3. /\ index' = [index EXCEPT ![s] = work[s]] /\ staged' = [staged EXCEPT ![s] = Kept(work[s])]
        /\ UNCHANGED <<req, head, commits, met>>
    BY <1>3 DEF Stage
  <2>4. AsStaged(index)'
    <3>1. ASSUME NEW r \in Stacks
          PROVE  /\ staged'[r].fate = "kept" => index'[r] = staged'[r].ver
                 /\ staged'[r].fate = "reset" =>
                       \E k \in Past(head)' \cup {0} : index'[r] = TreeOf(k)'[r]
      <4>1. CASE r = s
        <5>1. index'[r] = work[s] /\ staged'[r] = Kept(work[s])
          BY <1>1, <2>3, <4>1 DEF Tree
        <5>2. QED
          BY <5>1 DEF Kept
      <4>2. CASE r # s
        <5>1. index'[r] = index[r] /\ staged'[r] = staged[r]
          BY <1>1, <2>3, <4>2 DEF Tree
        <5>2. QED
          BY <2>2, <2>3, <5>1 DEF AsStaged, Past, TreeOf
      <4>3. QED
        BY <4>1, <4>2
    <3>2. QED
      BY <3>1 DEF AsStaged
  <2>5. MetInv'
    BY <1>1, <2>1, <2>3 DEF MetInv, Using
  <2>6. QED
    BY <2>1, <2>3, <2>4, <2>5
       DEF IndexInv, StagedWorkSurvives, IndexOf, Using, CommitWork, CommitPcs, IndexIsReset
<1>4. ASSUME NEW s \in Stacks, Upstream(s)
      PROVE  MetInv' /\ IndexInv'
  <2>1. UNCHANGED <<work, index, head, req, staged, met>>
    BY <1>4 DEF Upstream, history
  <2>2. TreeOf(head)' = TreeOf(head) /\ Past(head) \subseteq Past(head)'
    <3>1. \A k \in Ids \cup {0} : TreeOf(k)' = TreeOf(k) /\ Past(k)' = Past(k)
      BY <1>2, CommitsGrow
    <3>2. QED
      BY <1>1, <2>1, <3>1 DEF TreeOf, Past
  <2>3. \A t : AsStaged(t) => AsStagedNext(t)
    BY <1>2, <2>1, <2>2, AsStagedKept
  <2>4. AsStaged(index) => AsStaged(index)'
    BY <2>1, <2>3 DEF AsStaged, AsStagedNext
  <2>5. \A c \in Requests : IndexOf(c)'
    <3>1. ASSUME NEW c \in Requests
          PROVE  IndexOf(c)'
      <4>1. AsStaged(req[c].original) => AsStaged(req[c].original)'
        BY <2>1, <2>3 DEF AsStaged, AsStagedNext
      <4>2. IndexOf(c)
        BY DEF IndexInv
      <4>3. QED
        BY <2>1, <2>2, <2>4, <4>1, <4>2 DEF IndexOf
    <3>2. QED
      BY <3>1
  <2>6. MetInv' /\ StagedWorkSurvives'
    BY <2>1, <2>4 DEF MetInv, IndexInv, StagedWorkSurvives, Committing
  <2>7. QED
    BY <2>5, <2>6 DEF IndexInv
<1>5. CASE GitCrash
  <2>1. (\A c \in Requests : req'[c].pc = "idle") /\ met' = {} /\ UNCHANGED <<index, head, commits>>
    BY <1>5, NoRequestTypes DEF GitCrash
  <2>2. PICK cs : cs = {c \in Requests : req[c].pc \in IndexIsReset}
    OBVIOUS
  <2>3. staged' = CutOff(cs)
    BY <1>5, <2>2 DEF GitCrash
  <2>4. AsStaged(index)'
    <3>1. CASE \A s \in Stacks : staged[s] = Unsettled
      <4>1. \A s \in Stacks : staged'[s] = Unsettled
        BY <2>3, <3>1 DEF CutOff
      <4>2. QED
        BY <4>1 DEF AsStaged, Unsettled
    <3>2. CASE ~ \A s \in Stacks : staged[s] = Unsettled
      <4>1. \A c \in met : req[c].pc \notin CommitWork
        BY <3>2 DEF MetInv
      <4>2. CASE cs = {}
        <5>1. staged' = staged
          <6>1. \A s \in Stacks : staged'[s] = staged[s]
            BY <2>3, <4>2 DEF CutOff
          <6>2. staged' \in [Stacks -> Staged]
            BY <2>3, CutOffTypes DEF GitShape
          <6>3. QED
            BY <1>1, <6>1, <6>2
        <5>2. AsStaged(index)
          <6>1. CASE Committing
            <7>1. PICK c \in Requests : req[c].pc \in Using
              BY <6>1, CommittingIsUsing
            <7>2. c \notin met
              BY <4>1, <7>1 DEF MetInv, Using, CommitWork, CommitPcs
            <7>3. req[c].pc \in {"index", "pull", "head", "reset"}
              BY <2>2, <4>2, <7>1 DEF Using, CommitWork, CommitPcs, IndexIsReset
            <7>4. QED
              BY <7>2, <7>3 DEF IndexInv, IndexOf
          <6>2. CASE ~Committing
            BY <6>2 DEF IndexInv, StagedWorkSurvives
          <6>3. QED
            BY <6>1, <6>2
        <5>3. QED
          BY <2>1, <5>1, <5>2 DEF AsStaged, Past, TreeOf
      <4>3. CASE cs # {}
        <5>1. PICK c \in Requests : c \in cs /\ req[c].pc \in IndexIsReset
          BY <2>2, <4>3
        <5>2. c \notin met /\ req[c].pc \in Using
          BY <4>1, <5>1 DEF Using, CommitWork, CommitPcs, IndexIsReset
        <5>3. \A d \in Requests : req[d].pc \in IndexIsReset => d = c
          BY <5>2 DEF MetInv, Using, CommitWork, CommitPcs, IndexIsReset
        <5>4. cs = {c}
          BY <2>2, <5>1, <5>3
        <5>5. \A s \in Stacks \ {req[c].scope} : index[s] = TreeOf(head)[s]
          BY <5>1, <5>2 DEF IndexInv, IndexOf
        <5>6. AsStagedNext(index)
          BY <2>1, <2>3, <5>4, <5>5, CutOffFits
        <5>7. QED
          BY <2>1, <5>6 DEF AsStaged, AsStagedNext
      <4>4. QED
        BY <4>2, <4>3
    <3>3. QED
      BY <3>1, <3>2
  <2>5. QED
    BY <2>1, <2>4 DEF MetInv, IndexInv, StagedWorkSurvives, IndexOf, Using, CommitWork, CommitPcs,
                      IndexIsReset
<1>6. QED
  BY <1>3, <1>4, <1>5 DEF GitEnvironment

\* A new commit changes its parent by its own stack.
LEMMA ScopedNext ==
  ASSUME GitShape, GitLockInv, IndexInv, CommitIsStackScoped, GitNext
  PROVE  CommitIsStackScoped'
<1>1. commits \in Seq(Commit) /\ head \in Ids \cup {0} /\ remote \in Ids \cup {0}
      /\ work \in Tree /\ index \in Tree
  BY DEF GitShape, GitTypeOK
<1>2. ASSUME NEW e \in Commit, commits' = Append(commits, e),
             e.stack = NoStack \/ ~e.alone \/ /\ e.parent \in Ids \cup {0}
                                              /\ e.tree = [TreeOf(e.parent) EXCEPT ![e.stack] = e.saved]
      PROVE  CommitIsStackScoped'
  <2>1. /\ Ids' = Ids \cup {Len(commits) + 1} /\ Len(commits) + 1 \notin Ids \cup {0}
        /\ \A k \in Ids : commits'[k] = commits[k]
        /\ commits'[Len(commits) + 1] = e
    BY <1>1, <1>2, AppendFacts
  <2>2. \A k \in Ids \cup {0} : (IF k = 0 THEN EmptyTree ELSE commits'[k].tree) = TreeOf(k)
    BY <2>1 DEF TreeOf
  <2>3. ASSUME NEW k \in Ids, commits[k].stack # NoStack, commits[k].alone
        PROVE  commits'[k].tree =
                  [(IF commits'[k].parent = 0 THEN EmptyTree ELSE commits'[commits'[k].parent].tree)
                      EXCEPT ![commits'[k].stack] = commits'[k].saved]
    <3>1. commits[k].parent \in Ids \cup {0}
      BY DEF GitShape
    <3>2. commits[k].tree = [TreeOf(commits[k].parent) EXCEPT ![commits[k].stack] = commits[k].saved]
      BY <2>3 DEF CommitIsStackScoped
    <3>3. QED
      BY <2>1, <2>2, <3>1, <3>2
  <2>4. e.stack # NoStack /\ e.alone =>
           e.tree = [(IF e.parent = 0 THEN EmptyTree ELSE commits'[e.parent].tree)
                        EXCEPT ![e.stack] = e.saved]
    BY <1>2, <2>2
  <2>5. QED
    BY <2>1, <2>3, <2>4 DEF CommitIsStackScoped, TreeOf
<1>3. ASSUME NEW c \in Requests, CommitIndex(c)
      PROVE  CommitIsStackScoped'
  <2>1. PICK e : e = [tree |-> index, past |-> Past(head) \cup {Len(commits) + 1},
                      parent |-> head, stack |-> req[c].scope, saved |-> work[req[c].scope],
                      alone |-> c \notin met]
    OBVIOUS
  <2>2. req[c].scope \in Stacks /\ work[req[c].scope] \in Nat
    BY <1>1, <1>3 DEF GitLockInv, ScopeFacts, CommitIndex, CommitWork, CommitPcs, Tree
  <2>3. Past(head) \subseteq Nat /\ head \in Nat /\ Len(commits) + 1 \in Nat
    BY <1>1, TreeTypes, LenProperties
  <2>4. e \in Commit
    BY <1>1, <2>1, <2>2, <2>3 DEF Commit
  <2>5. commits' = Append(commits, e)
    BY <1>3, <2>1 DEF CommitIndex
  <2>6. c \notin met => index = [TreeOf(head) EXCEPT ![req[c].scope] = work[req[c].scope]]
    BY <1>3 DEF CommitIndex, IndexInv, IndexOf
  <2>7. ~e.alone \/ (e.parent \in Ids \cup {0} /\ e.tree = [TreeOf(e.parent) EXCEPT ![e.stack] = e.saved])
    BY <1>1, <2>1, <2>6
  <2>8. QED
    BY <1>2, <2>4, <2>5, <2>7
<1>4. ASSUME NEW s \in Stacks, Upstream(s)
      PROVE  CommitIsStackScoped'
  <2>1. PICK e : e = [tree |-> [TreeOf(remote) EXCEPT ![s] = MaxVer + 1],
                      past |-> Past(remote) \cup {Len(commits) + 1}, parent |-> remote,
                      stack |-> NoStack, saved |-> 0, alone |-> TRUE]
    OBVIOUS
  <2>2. TreeOf(remote) \in Tree /\ Past(remote) \subseteq Nat /\ remote \in Nat
        /\ Len(commits) + 1 \in Nat /\ MaxVer + 1 \in Nat
    BY <1>1, TreeTypes, LenProperties, CommitConstants
  <2>3. [TreeOf(remote) EXCEPT ![s] = MaxVer + 1] \in Tree
    BY <2>2 DEF Tree
  <2>4. e \in Commit /\ e.stack = NoStack
    BY <2>1, <2>2, <2>3 DEF Commit
  <2>5. commits' = Append(commits, e)
    BY <1>4, <2>1 DEF Upstream
  <2>6. QED
    BY <1>2, <2>4, <2>5
<1>5. CASE commits' = commits
  BY <1>5 DEF CommitIsStackScoped, Ids, TreeOf
<1>6. QED
  BY <1>3, <1>4, <1>5 DEF GitNext, Serve, GitEnvironment, Stage, GitCrash, Arrive, WriteFile,
     ReadIndex, ReadHead, Reset, Add, ReadBack, SetIndex, Fail, Restore, Pull, Push, Leave

\* It holds initially.
LEMMA CommitInvInit ==
  ASSUME GitInit
  PROVE  CommitInv
<1>1. GitShape /\ GitLockInv
  BY GitInitShape
<1>2. \A c \in Requests : req[c].pc = "idle"
  BY NoRequestTypes DEF GitInit
<1>3. IndexInv /\ MetInv
  <2>1. AsStaged(index)
    BY DEF GitInit, AsStaged, Kept, EmptyTree
  <2>2. QED
    BY <1>2, <2>1 DEF GitInit, IndexInv, StagedWorkSurvives, IndexOf, IndexIsReset, MetInv, Using,
                      CommitWork, CommitPcs
<1>4. PastInv /\ \A k \in Ids : commits[k].stack = NoStack
  <2>1. CASE commits = <<>>
    BY <2>1 DEF Ids, PastInv
  <2>2. CASE commits = <<FirstCommit>>
    <3>1. Ids = {1} /\ commits[1].past = {1} /\ commits[1].stack = NoStack
      BY <2>2 DEF Ids, FirstCommit
    <3>2. QED
      BY <3>1 DEF PastInv
  <2>3. QED
    BY <2>1, <2>2 DEF GitInit
<1>5. QED
  BY <1>1, <1>3, <1>4 DEF CommitInv, CommitIsStackScoped

\* Every step keeps it.
LEMMA CommitInvNext ==
  ASSUME CommitInv, [GitNext]_gitVars
  PROVE  CommitInv'
<1>1. GitShape' /\ GitLockInv'
  BY GitShapeNext DEF CommitInv
<1>2. CASE GitNext
  <2>1. MetInv' /\ IndexInv'
    BY <1>1, <1>2, IndexUsing, IndexMet, IndexQuiet, IndexEnvironment DEF CommitInv, GitNext
  <2>2. CommitIsStackScoped'
    BY <1>2, ScopedNext DEF CommitInv
  <2>3. PastInv'
    BY <1>2, CommitsGrow DEF CommitInv
  <2>4. QED
    BY <1>1, <2>1, <2>2, <2>3 DEF CommitInv
<1>3. CASE UNCHANGED gitVars
  <2>1. /\ work' = work /\ index' = index /\ commits' = commits /\ head' = head /\ req' = req
        /\ staged' = staged /\ met' = met
    BY <1>3 DEF gitVars, history
  <2>2. MetInv' /\ PastInv'
    BY <2>1 DEF CommitInv, MetInv, PastInv, Ids, Past
  <2>3. CommitIsStackScoped'
    BY <2>1 DEF CommitInv, CommitIsStackScoped, Ids, TreeOf
  <2>4. StagedWorkSurvives'
    BY <2>1 DEF CommitInv, IndexInv, StagedWorkSurvives, Committing, AsStaged, TreeOf, Past
  <2>5. ASSUME NEW c \in Requests
        PROVE  IndexOf(c)'
    <3>1. IndexOf(c)
      BY DEF CommitInv, IndexInv
    <3>2. QED
      BY <2>1, <3>1 DEF IndexOf, AsStaged, TreeOf, Past
  <2>6. QED
    BY <1>1, <2>2, <2>3, <2>4, <2>5 DEF CommitInv, IndexInv
<1>4. QED
  BY <1>2, <1>3

\* CommitInv holds in every reachable state, for any number of goroutines that commit.
THEOREM CommitInvariance == GitSpec => []CommitInv
<1>1. GitInit => CommitInv
  BY CommitInvInit
<1>2. CommitInv /\ [GitNext]_gitVars => CommitInv'
  BY CommitInvNext
<1>3. QED
  BY <1>1, <1>2, PTL DEF GitSpec

\* A commit that no other one overlapped changes its parent by the files of its stack
\* alone, whatever is staged, fails or crashes, and whatever overlapping commits have
\* left behind (sdkCommit).
THEOREM ScopedCommits == GitSpec => []CommitIsStackScoped
<1>1. CommitInv => CommitIsStackScoped
  BY DEF CommitInv
<1>2. QED
  BY <1>1, CommitInvariance, PTL

\* What the operator staged is in the index again after every commit, whether it
\* succeeds or fails; a crash or a failing restore while the index is reset leaves a
\* committed version of the other stacks, and only commits that overlap may leave more
\* (sdkCommit, its deferred SetIndex).
THEOREM StagedSurvives == GitSpec => []StagedWorkSurvives
<1>1. CommitInv => StagedWorkSurvives
  BY DEF CommitInv, IndexInv
<1>2. QED
  BY <1>1, CommitInvariance, PTL

\* The local history loses a commit only in the mixed reset of a commit that another
\* one overlapped; no failure, crash, pull or push takes a commit away (sdkCommit).
LossNeedsOverlap ==
    [][\/ Past(head) \subseteq Past(head)'
       \/ \E c \in met : req[c].pc = "reset" /\ req'[c].pc = "add"]_gitVars

\* The local history loses a commit only when a commit that another one overlapped
\* resets the branch to the head it read before (sdkCommit, its mixed Reset).
THEOREM CommitsAreLostByOverlap == GitSpec => LossNeedsOverlap
<1>1. CommitInv /\ [GitNext]_gitVars =>
         [\/ Past(head) \subseteq Past(head)'
          \/ \E c \in met : req[c].pc = "reset" /\ req'[c].pc = "add"]_gitVars
  BY HeadMoves DEF CommitInv
<1>2. QED
  BY <1>1, CommitInvariance, PTL DEF GitSpec, LossNeedsOverlap

=============================================================================

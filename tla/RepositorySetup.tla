-------------------------- MODULE RepositorySetup --------------------------
(***************************************************************************)
(* The stack repository: RepositorySetupService (internal/repository), the *)
(* Git provisioner under it (internal/git/setup*.go) and the app_state and *)
(* repository_auth rows (internal/sqlite).  Setting up, changing and       *)
(* removing the remote each hold the repository lock and write the         *)
(* worktree first, the row second and the live client last; a step may     *)
(* fail, the save may fail and the process may stop in between.            *)
(*                                                                         *)
(* A commit is named by the remote its history comes from, Local when it   *)
(* comes from none.  Histories of different remotes are unrelated.         *)
(***************************************************************************)
EXTENDS Naturals

CONSTANTS
    Branches, DefaultBranch,
    Authors, DefaultAuthor,
    Urls,
    RemoteBranches,  \* RemoteBranches[u]: the branches of the remote at u
    Local,
    None,
    MaxFaults,       \* bound: failing steps and saves, and what others do in the directory
    MaxCrashes

ASSUME SetupConstants ==
    /\ DefaultBranch \in Branches /\ DefaultAuthor \in Authors
    /\ RemoteBranches \in [Urls -> SUBSET Branches]
    /\ Local \notin Urls /\ None \notin Urls \cup {Local} \cup Branches \cup Authors
    /\ {MaxFaults, MaxCrashes} \subseteq Nat

VARIABLES
    row,      \* app_state and repository_auth
    path,     \* the repository directory
    live,     \* the client in RepositoryService
    healthy,  \* no repositorySafetyErr since the start
    job,      \* the request that holds the repository lock, or None
    resume,   \* the last request, when it failed and took back all it had to (history)
    torn,     \* a change of what the row describes missed its save (history)
    up, faults, crashes

vars == <<row, path, live, healthy, job, resume, torn, up, faults, crashes>>

Auths == {"none", "https"}
Row == [state : {"unregistered", "registered", "ready"}, branch : Branches \cup {None},
        author : Authors \cup {None}, remote : Urls \cup {None}, auth : Auths]

\* git: .git, reserved while its metadata is incomplete; junk: other entries of the
\* root; branch: None when HEAD is detached; head: None when it is unborn; ahead:
\* commits of our own on top; ref: what origin's tracking branch points to; files:
\* the entries of HEAD's tree that are in the worktree, and alien those of them that
\* somebody other than Porty made; dirty: uncommitted files of the editor.
Entries == {"dir", "file"}  \* the file lies in the directory
Path == [git : {"absent", "reserved", "present"}, junk : BOOLEAN, branch : Branches \cup {None},
         author : Authors \cup {None}, origin : Urls \cup {None}, candidate : BOOLEAN,
         head : Urls \cup {Local, None}, ahead : BOOLEAN, ref : Urls \cup {None},
         files : SUBSET Entries, alien : SUBSET Entries, dirty : BOOLEAN]
EmptyPath == [git |-> "absent", junk |-> FALSE, branch |-> None, author |-> None, origin |-> None,
              candidate |-> FALSE, head |-> None, ahead |-> FALSE, ref |-> None, files |-> {},
              alien |-> {}, dirty |-> FALSE]

Modes == {"init", "remote", "adopt"}
Request == [kind : {"setup", "configure", "remove"}, mode : Modes \cup {None},
            branch : Branches \cup {None}, author : Authors \cup {None}, url : Urls \cup {None},
            auth : Auths, flag : BOOLEAN]
Pcs == {"begin", "stage", "reserve", "init", "origin", "fetch", "checkout", "head", "dir", "publish",
        "undofile", "undodir", "undogit", "candidate", "detached", "config", "activate", "save",
        "replace"}

\* made: what the attempt has recorded as its own; clean (history): nothing that was
\* to be removed stayed behind, and nobody else wrote to the directory.
Job == [req : Request, pc : Pcs, remote : Urls \cup {None}, made : SUBSET (Entries \cup {"git"}),
        clean : BOOLEAN]
Client == [branch : Branches, enabled : BOOLEAN, auth : Auths]

ASSUME NoneIsNoRequest == None \notin Job /\ None \notin Request

\* flag is ManageExistingRemote of an adoption and ReplaceExisting of a remote.
SetupRequest(m, b, a, u, auth, flag) ==
    [kind |-> "setup", mode |-> m, branch |-> b, author |-> a, url |-> u, auth |-> auth, flag |-> flag]
SetupRequests ==
    {SetupRequest("init", b, a, None, "none", FALSE) : b \in Branches, a \in Authors} \cup
    {SetupRequest("adopt", b, a, None, "none", f) : b \in Branches, a \in Authors, f \in BOOLEAN} \cup
    {SetupRequest("remote", b, a, u, auth, FALSE) :
        b \in Branches, a \in Authors, u \in Urls, auth \in Auths}
ConfigureRequests ==
    {[kind |-> "configure", mode |-> None, branch |-> b, author |-> None, url |-> u, auth |-> auth,
      flag |-> f] : b \in Branches, u \in Urls, auth \in Auths, f \in BOOLEAN}
RemoveRequest == [kind |-> "remove", mode |-> None, branch |-> None, author |-> None, url |-> None,
                  auth |-> "none", flag |-> FALSE]

\* A client without credentials, and the one Open and Replace give for a row.
BareClient(w) == [branch |-> IF w.branch = None THEN DefaultBranch ELSE w.branch,
                  enabled |-> w.remote # None, auth |-> "none"]
OpenedClient(w) == [BareClient(w) EXCEPT !.auth = IF w.remote = None THEN "none" ELSE w.auth]

\* The directory as the operator may have mounted it: empty, with other files, or
\* a worktree with or without an identity, an origin and commits.
MountedWorktree(b, a, u) ==
    [EmptyPath EXCEPT !.git = "present", !.branch = b, !.author = a, !.origin = u,
                      !.head = IF u = None THEN Local ELSE u, !.ref = u, !.files = Entries]
Mounted ==
    {EmptyPath, [EmptyPath EXCEPT !.junk = TRUE]} \cup
    {MountedWorktree(b, a, u) :
        b \in Branches \cup {None}, a \in Authors \cup {None}, u \in Urls \cup {None}}

Init ==
    /\ row = [state |-> "unregistered", branch |-> None, author |-> None, remote |-> None,
              auth |-> "none"]
    /\ path \in Mounted
    /\ live = BareClient(row)
    /\ healthy = TRUE
    /\ job = None
    /\ resume = None
    /\ torn = FALSE
    /\ up = TRUE
    /\ faults = 0 /\ crashes = 0

-----------------------------------------------------------------------------
(* What the service reads.                                                 *)

InspectPath(p) ==
    CASE p.git = "present" -> "worktree"
      [] p.git = "reserved" -> "invalid"
      [] p.git = "absent" /\ (p.junk \/ p.files # {}) -> "occupied"
      [] OTHER -> "empty"

Selected(u, b) == b \in RemoteBranches[u]
EmptyRemote(u) == RemoteBranches[u] = {}

\* Mutant: what an earlier attempt left is never accepted.
ResumesNothing(r, p) == FALSE

\* Whether the worktree is exactly what an earlier attempt of this request left.
Resumes(r, p) ==
    /\ InspectPath(p) = "worktree" /\ p.branch = r.branch /\ p.author = r.author
    /\ \/ r.mode = "init" /\ p.origin = None /\ p.head = None
       \/ /\ r.mode = "remote" /\ p.origin = r.url
          /\ IF EmptyRemote(r.url) THEN p.head = None ELSE p.head = r.url /\ p.ref = r.url /\ ~p.ahead

Adopts(r, p) == r.mode = "adopt" /\ InspectPath(p) = "worktree" /\ p.branch = r.branch

\* The origin may be set: there is none, it is the managed one, or it is to be replaced.
MayReplace(r, p) == p.origin = None \/ r.flag \/ row.remote = p.origin

ConfigureAccepts(r, p) ==
    /\ row.state = "ready" /\ row.branch = r.branch
    /\ InspectPath(p) = "worktree" /\ p.branch = r.branch
    /\ MayReplace(r, p)
    /\ ~p.candidate

RemoveAccepts(p) ==
    /\ row.state = "ready" /\ row.remote # None
    /\ InspectPath(p) = "worktree"
    /\ p.origin \in {None, row.remote}

Accepts(r, p) ==
    CASE r.kind = "setup" -> \/ r.mode # "adopt" /\ InspectPath(p) = "empty"
                             \/ Resumes(r, p)
                             \/ Adopts(r, p)
      [] r.kind = "configure" -> ConfigureAccepts(r, p)
      [] OTHER -> RemoveAccepts(p)

Opens(w, p) ==
    /\ InspectPath(p) = "worktree" /\ p.branch # None
    /\ p.branch = w.branch /\ p.author = w.author
    /\ w.remote # None => p.origin = w.remote

-----------------------------------------------------------------------------
(* The three requests.                                                     *)

Finish(p) == path' = p /\ job' = None

Go(pc, p) == path' = p /\ job' = [job EXCEPT !.pc = pc]

\* As Go, with something left behind that was to be removed.
GoUnclean(pc, p) == path' = p /\ job' = [job EXCEPT !.pc = pc, !.clean = FALSE]

\* As Go, with a new entry recorded in the attempt.
GoMade(pc, p, e) == path' = p /\ job' = [job EXCEPT !.pc = pc, !.made = @ \cup {e}]

Fault == faults < MaxFaults /\ faults' = faults + 1

Doing(kind, pc) == up /\ job # None /\ job.req.kind = kind /\ job.pc = pc

Register ==
    /\ up /\ row.state = "unregistered"
    /\ row' = [row EXCEPT !.state = "registered"]
    /\ UNCHANGED <<path, live, healthy, job, resume, torn, up, faults, crashes>>

\* The lock is taken; a request that is turned down for what it says never gets here.
Begin(r) ==
    /\ up /\ job = None /\ row.state # "unregistered"
    /\ job' = [req |-> r, pc |-> "begin", remote |-> r.url, made |-> {}, clean |-> TRUE]
    /\ resume' = None
    /\ UNCHANGED <<row, path, live, healthy, torn, up, faults, crashes>>

\* Provision up to the first write: adopt, resume, or make a staging directory.  A
\* remote that is not empty must have the branch.
Provision ==
    /\ Doing("setup", "begin")
    /\ LET r == job.req
           selectable == r.mode = "remote" => EmptyRemote(r.url) \/ Selected(r.url, r.branch)
       IN  \/ ~(Accepts(r, path) /\ selectable) /\ Finish(path)
           \/ /\ Accepts(r, path) /\ r.mode = "adopt"
              /\ path' = [path EXCEPT !.author = r.author]
              /\ job' = [job EXCEPT !.pc = "activate", !.remote = IF r.flag THEN path.origin ELSE None]
           \/ /\ Accepts(r, path) /\ selectable /\ r.mode # "adopt"
              /\ IF InspectPath(path) = "worktree" THEN Go("activate", path)
                                                  ELSE Go("stage", [path EXCEPT !.junk = TRUE])
    /\ UNCHANGED <<row, live, healthy, resume, torn, up, faults, crashes>>

\* .git appears by a rename and the staging directory goes, or stays when its deferred
\* removal fails.
ReserveGit ==
    /\ Doing("setup", "stage")
    /\ \/ /\ GoMade("reserve", [path EXCEPT !.junk = FALSE, !.git = "reserved"], "git")
          /\ UNCHANGED faults
       \/ /\ path' = [path EXCEPT !.git = "reserved"]
          /\ job' = [job EXCEPT !.pc = "reserve", !.made = {"git"}, !.clean = FALSE]
          /\ Fault
    /\ UNCHANGED <<row, live, healthy, resume, torn, up, crashes>>

\* It fails before the rename, or after it: then .git is nobody's and stays.
ReserveFails ==
    /\ Doing("setup", "stage") /\ Fault
    /\ \/ /\ Finish([path EXCEPT !.junk = FALSE])
          /\ resume' = job.req
       \/ /\ Finish(path)
          /\ resume' = None
       \/ /\ Finish([path EXCEPT !.junk = FALSE, !.git = "reserved"])
          /\ resume' = None
    /\ UNCHANGED <<row, live, healthy, torn, up, crashes>>

InitRepository ==
    /\ Doing("setup", "reserve")
    /\ Go("init", [path EXCEPT !.git = "present", !.branch = job.req.branch])
    /\ UNCHANGED <<row, live, healthy, resume, torn, up, faults, crashes>>

CreateOrigin ==
    /\ Doing("setup", "init") /\ job.req.mode = "remote"
    /\ Go("origin", [path EXCEPT !.origin = job.req.url])
    /\ UNCHANGED <<row, live, healthy, resume, torn, up, faults, crashes>>

FetchOrigin ==
    /\ Doing("setup", "origin") /\ ~EmptyRemote(job.req.url)
    /\ Go("fetch", [path EXCEPT !.ref = job.req.url])
    /\ UNCHANGED <<row, live, healthy, resume, torn, up, faults, crashes>>

\* Checkout of the tracking branch into the staging directory detaches HEAD.
CheckoutStaged ==
    /\ Doing("setup", "fetch")
    /\ Go("checkout", [path EXCEPT !.branch = None, !.head = job.req.url])
    /\ UNCHANGED <<row, live, healthy, resume, torn, up, faults, crashes>>

SetHead ==
    /\ Doing("setup", "checkout")
    /\ Go("head", [path EXCEPT !.branch = job.req.branch])
    /\ UNCHANGED <<row, live, healthy, resume, torn, up, faults, crashes>>

\* publishWorktree walks the staged tree; an entry that exists already ends it.
PublishDir ==
    /\ Doing("setup", "head")
    /\ IF "dir" \in path.files
       THEN Go("undofile", path)
       ELSE GoMade("dir", [path EXCEPT !.files = @ \cup {"dir"}], "dir")
    /\ UNCHANGED <<row, live, healthy, resume, torn, up, faults, crashes>>

LinkFile ==
    /\ Doing("setup", "dir")
    /\ IF "file" \in path.files
       THEN Go("undofile", path)
       ELSE GoMade("publish", [path EXCEPT !.files = @ \cup {"file"}], "file")
    /\ UNCHANGED <<row, live, healthy, resume, torn, up, faults, crashes>>

\* setTracking and setIdentity.
SetIdentity ==
    /\ \/ Doing("setup", "publish")
       \/ Doing("setup", "init") /\ job.req.mode = "init"
       \/ Doing("setup", "origin") /\ EmptyRemote(job.req.url)
    /\ Go("activate", [path EXCEPT !.author = job.req.author])
    /\ UNCHANGED <<row, live, healthy, resume, torn, up, faults, crashes>>

\* The client is made for the finished worktree (sdkActiveClient, New).
Activate ==
    /\ Doing("setup", "activate") \/ Doing("remove", "activate")
    /\ Go("save", path)
    /\ UNCHANGED <<row, live, healthy, resume, torn, up, faults, crashes>>

\* Somebody else makes an entry of that name while the checkout is published or taken
\* back: a file in the directory, or a directory in place of what is there.
Outsider(e) ==
    /\ up /\ job # None /\ "git" \in job.made /\ job.pc \notin {"save", "replace"}
    /\ path.head # None
    /\ Fault
    /\ \/ /\ e = "file" /\ "dir" \in path.files
          /\ path' = [path EXCEPT !.files = @ \cup {"file"}, !.alien = @ \cup {"file"}]
       \/ /\ e = "dir" /\ path.alien = {}
          /\ path' = [path EXCEPT !.files = {"dir"}, !.alien = {"dir"}]
    /\ job' = [job EXCEPT !.clean = FALSE]
    /\ UNCHANGED <<row, live, healthy, resume, torn, up, crashes>>

-----------------------------------------------------------------------------
(* A setup that fails takes back what it has made.                         *)

\* A step of an attempt fails.  When Lstat fails after Mkdir, the directory is there
\* and not recorded.
AttemptFails ==
    /\ up /\ job # None /\ "git" \in job.made
    /\ job.pc \notin {"undofile", "undodir", "undogit", "save", "replace"}
    /\ Fault
    /\ \/ Go("undofile", path)
       \/ /\ job.pc = "head" /\ "dir" \notin path.files
          /\ GoUnclean("undofile", [path EXCEPT !.files = @ \cup {"dir"}])
    /\ UNCHANGED <<row, live, healthy, resume, torn, up, crashes>>

\* Mutant: entries are recognised by their names.
RemovableByName(e) == e \in job.made \cap path.files

\* The entry of this name is the very one that was recorded (os.SameFile).
Removable(e) == e \in job.made \cap path.files /\ e \notin path.alien

\* cleanup goes from the deepest entry up.  A removal that fails is passed over.
Undo(e, pc) ==
    \/ /\ Removable(e) /\ (e = "dir" => "file" \notin path.files)
       /\ Go(pc, [path EXCEPT !.files = @ \ {e}])
       /\ UNCHANGED faults
    \/ /\ Removable(e)
       /\ GoUnclean(pc, path)
       /\ IF e = "dir" /\ "file" \in path.files THEN UNCHANGED faults ELSE Fault
    \/ /\ ~Removable(e)
       /\ Go(pc, path)
       /\ UNCHANGED faults

UndoFile ==
    /\ Doing("setup", "undofile")
    /\ Undo("file", "undodir")
    /\ UNCHANGED <<row, live, healthy, resume, torn, up, crashes>>

UndoDir ==
    /\ Doing("setup", "undodir")
    /\ Undo("dir", "undogit")
    /\ UNCHANGED <<row, live, healthy, resume, torn, up, crashes>>

\* What is left of .git when its removal stops on the way.
GitRemains(p, kept) ==
    [p EXCEPT !.git = IF "HEAD" \in kept THEN @ ELSE "reserved",
              !.origin = IF "config" \in kept THEN @ ELSE None,
              !.author = IF "config" \in kept THEN @ ELSE None,
              !.ref = IF "refs" \in kept THEN @ ELSE None,
              !.head = IF "refs" \in kept \/ p.branch = None THEN @ ELSE None]

UndoGit ==
    /\ Doing("setup", "undogit")
    /\ \/ /\ Finish([EmptyPath EXCEPT !.junk = path.junk, !.files = path.files, !.alien = path.alien])
          /\ resume' = IF job.clean THEN job.req ELSE None
          /\ UNCHANGED faults
       \/ /\ \E kept \in SUBSET {"HEAD", "config", "refs"} : Finish(GitRemains(path, kept))
          /\ resume' = None
          /\ Fault
    /\ UNCHANGED <<row, live, healthy, torn, up, crashes>>

-----------------------------------------------------------------------------
(* The remote of a repository that is set up.                              *)

\* ConfigureRemote up to the temporary remote.
InspectConfigure ==
    /\ Doing("configure", "begin")
    /\ LET r == job.req
       IN  \/ ~ConfigureAccepts(r, path) /\ Finish(path)
           \/ /\ ConfigureAccepts(r, path)
              /\ IF Selected(r.url, r.branch) THEN Go("candidate", [path EXCEPT !.candidate = TRUE])
                                              ELSE Go("config", path)
    /\ UNCHANGED <<row, live, healthy, resume, torn, up, faults, crashes>>

\* The deferred DeleteRemote removes the temporary remote, or fails unnoticed.
Deferred(stays) == IF stays THEN Fault ELSE UNCHANGED faults

\* The fetched branch must be related to HEAD, or is checked out on an unborn one.
FetchCandidate ==
    /\ Doing("configure", "candidate")
    /\ LET r == job.req
           unclean == path.dirty \/ "file" \in path.files
       IN  \/ path.head = r.url /\ Go("config", path) /\ UNCHANGED faults
           \/ /\ \/ path.head \notin {r.url, None}
                 \/ path.head = None /\ unclean
              /\ \E stays \in BOOLEAN : Finish([path EXCEPT !.candidate = stays]) /\ Deferred(stays)
           \/ /\ path.head = None /\ ~unclean
              /\ Go("detached", [path EXCEPT !.branch = None, !.head = r.url])
              /\ UNCHANGED faults
    /\ UNCHANGED <<row, live, healthy, resume, torn, up, crashes>>

CheckoutCandidate ==
    /\ Doing("configure", "detached")
    /\ Go("config", [path EXCEPT !.branch = job.req.branch, !.files = Entries])
    /\ UNCHANGED <<row, live, healthy, resume, torn, up, faults, crashes>>

SetOrigin ==
    /\ Doing("configure", "config")
    /\ LET r == job.req
       IN  Go("activate", [path EXCEPT !.origin = r.url,
                                     !.ref = IF Selected(r.url, r.branch) THEN r.url ELSE @])
    /\ UNCHANGED <<row, live, healthy, resume, torn, up, faults, crashes>>

\* The new client is made, and ConfigureRemote returns.
DeleteCandidate ==
    /\ Doing("configure", "activate")
    /\ \/ Go("save", [path EXCEPT !.candidate = FALSE]) /\ UNCHANGED faults
       \/ path.candidate /\ GoUnclean("save", path) /\ Fault
    /\ UNCHANGED <<row, live, healthy, resume, torn, up, crashes>>

DeleteOrigin ==
    /\ Doing("remove", "begin")
    /\ \/ ~RemoveAccepts(path) /\ Finish(path)
       \/ RemoveAccepts(path) /\ Go("activate", [path EXCEPT !.origin = None])
    /\ UNCHANGED <<row, live, healthy, resume, torn, up, faults, crashes>>

\* The request has changed what the row describes: HEAD, the origin, or the author
\* of an adopted worktree.
Wrote(j) ==
    \/ j.pc = "detached"
    \/ j.pc = "activate" /\ (j.req.kind = "setup" => j.req.mode = "adopt")

\* A step fails outside an attempt: what was written stays, and the temporary remote
\* goes if its deferred removal succeeds.
StepFails ==
    /\ up /\ job # None /\ "git" \notin job.made /\ job.pc \notin {"stage", "save", "replace"}
    /\ Fault
    /\ \E left \in {FALSE, path.candidate} :
          /\ job.req.kind # "configure" \/ job.pc = "begin" => left = path.candidate
          /\ Finish([path EXCEPT !.candidate = left])
          /\ resume' = IF job.pc \in {"begin", "detached"} \/ (job.req.kind = "configure" /\ left)
                       THEN None
                       ELSE job.req
    /\ torn' = (torn \/ Wrote(job))
    /\ UNCHANGED <<row, live, healthy, up, crashes>>

-----------------------------------------------------------------------------
(* The row and the live client.                                            *)

\* Mutant: the identity of the request is not saved.
SavedAuthorless(j) == [row EXCEPT !.state = "ready", !.branch = j.req.branch, !.remote = j.remote,
                                  !.auth = j.req.auth]

SavedRow(j) ==
    IF j.req.kind = "setup"
    THEN [state |-> "ready", branch |-> j.req.branch, author |-> j.req.author,
          remote |-> j.remote, auth |-> j.req.auth]
    ELSE [row EXCEPT !.remote = j.remote, !.auth = j.req.auth]

\* Mutant: the client is replaced before the row is saved.
EarlyClient(j) == OpenedClient(SavedRow(j))

\* The client that answers while the row is being saved.
ClientAtSave(j) == live

Save ==
    /\ up /\ job # None /\ job.pc = "save"
    /\ \/ /\ row' = SavedRow(job)
          /\ job' = [job EXCEPT !.pc = "replace"]
          /\ torn' = (torn /\ job.req.kind # "setup")
          /\ UNCHANGED <<resume, faults>>
       \/ /\ Fault
          /\ resume' = IF job.clean THEN job.req ELSE None
          /\ torn' = TRUE
          /\ job' = None
          /\ UNCHANGED row
    /\ live' = ClientAtSave(job)
    /\ UNCHANGED <<path, healthy, up, crashes>>

Replace ==
    /\ up /\ job # None /\ job.pc = "replace"
    /\ live' = OpenedClient(row)
    /\ job' = None
    /\ UNCHANGED <<row, path, healthy, resume, torn, up, faults, crashes>>

\* The editor and a commit, which requireRepositoryReady lets through.
EditFile ==
    /\ up /\ job = None /\ row.state = "ready" /\ ~path.dirty
    /\ path' = [path EXCEPT !.dirty = TRUE]
    /\ UNCHANGED <<row, live, healthy, job, resume, torn, up, faults, crashes>>

CommitFiles ==
    /\ up /\ job = None /\ row.state = "ready" /\ path.dirty
    /\ InspectPath(path) = "worktree" /\ path.author # None
    /\ path' = [path EXCEPT !.dirty = FALSE, !.head = IF @ = None THEN Local ELSE @, !.ahead = TRUE]
    /\ UNCHANGED <<row, live, healthy, job, resume, torn, up, faults, crashes>>

-----------------------------------------------------------------------------
(* The process stops, and starts with Reconcile.                           *)

Crash ==
    /\ up /\ crashes < MaxCrashes /\ crashes' = crashes + 1
    /\ up' = FALSE
    /\ torn' = (torn \/ (job # None /\ job.pc # "replace"))
    /\ job' = None
    /\ UNCHANGED <<row, path, live, healthy, resume, faults>>

\* The row that reconcileRegistered saves.
AdoptedRow(p) ==
    [state |-> "ready", branch |-> p.branch, remote |-> None, auth |-> "none",
     author |-> IF p.author = None THEN DefaultAuthor ELSE p.author]

\* The worktree is adopted; when that fails, its identity may have been written.
ReconcileRegistered ==
    LET adopted == [path EXCEPT !.author = AdoptedRow(path).author]
    IN  IF InspectPath(path) = "worktree" /\ path.branch # None
        THEN \/ /\ path' = adopted
                /\ row' = AdoptedRow(path) /\ live' = OpenedClient(AdoptedRow(path))
                /\ torn' = FALSE
                /\ UNCHANGED faults
             \/ /\ path' \in {path, adopted}
                /\ live' = BareClient(row)
                /\ Fault
                /\ UNCHANGED <<row, torn>>
        ELSE UNCHANGED <<row, path, torn, faults>> /\ live' = BareClient(row)

Start ==
    /\ ~up /\ up' = TRUE
    /\ resume' = None
    /\ IF row.state = "registered"
       THEN ReconcileRegistered /\ healthy' = TRUE
       ELSE /\ healthy' = (row.state = "ready" => Opens(row, path))
            /\ live' = IF row.state = "ready" /\ Opens(row, path) THEN OpenedClient(row)
                                                                 ELSE BareClient(row)
            /\ UNCHANGED <<row, path, torn, faults>>
    /\ UNCHANGED <<job, crashes>>

Next ==
    \/ Register
    \/ job = None /\ \E r \in SetupRequests \cup ConfigureRequests \cup {RemoveRequest} : Begin(r)
    \/ Provision \/ ReserveGit \/ ReserveFails \/ InitRepository \/ CreateOrigin \/ FetchOrigin
    \/ CheckoutStaged \/ SetHead \/ PublishDir \/ LinkFile \/ SetIdentity \/ Activate
    \/ (\E e \in Entries : Outsider(e))
    \/ AttemptFails \/ UndoFile \/ UndoDir \/ UndoGit
    \/ InspectConfigure \/ FetchCandidate \/ CheckoutCandidate \/ SetOrigin \/ DeleteCandidate
    \/ DeleteOrigin
    \/ StepFails \/ Save \/ Replace
    \/ EditFile \/ CommitFiles
    \/ Crash \/ Start

Spec == Init /\ [][Next]_vars

-----------------------------------------------------------------------------
(* Properties.                                                             *)

\* The shape of the state.
TypeOK ==
    /\ row \in Row
    /\ path \in Path
    /\ live \in Client
    /\ job = None \/ job \in Job
    /\ resume = None \/ resume \in Request
    /\ {healthy, torn, up} \subseteq BOOLEAN
    /\ faults \in 0..MaxFaults /\ crashes \in 0..MaxCrashes

\* A half-configured client is never exposed: outside the moment between the save and
\* Replace, the client that serves fetch, pull and push is the one of the saved row,
\* whatever failed before (RepositorySetupService.Setup, ConfigureRemote, RemoveRemote,
\* Reconcile).
LiveClientIsSaved ==
    up /\ healthy /\ (job = None \/ job.pc # "replace") => live = OpenedClient(row)

\* A repository that is ready can be opened at the next start: unless a change of the
\* worktree missed its save, no sequence of setups, adoptions, changes and removals of
\* the remote, edits and commits leaves a row that Open rejects.
ReadyReopens ==
    row.state = "ready" /\ job = None /\ ~torn => Opens(row, path)

\* Retries before the repository is ready are recovery-safe: a request that failed, at
\* a step or at its save, finds the directory in a state it accepts when it is sent
\* again, unless something that it had to remove stayed (repositoryAttempt.cleanup and
\* the deferred DeleteRemote ignore their errors) or others wrote to the directory.
\* A change of the remote has to be sent again with ReplaceExisting.
RetryResumes ==
    up /\ job = None /\ resume # None /\ (resume.kind = "setup" => row.state = "registered") =>
        Accepts(IF resume.kind = "configure" THEN [resume EXCEPT !.flag = TRUE] ELSE resume, path)

\* Whatever fails and in whatever order others write to the directory meanwhile, no
\* step removes an entry that somebody else made: repositoryAttempt.cleanup compares
\* each name with what the attempt recorded, and never empties a directory.
CleanupIsOwn == [][path.alien \subseteq path'.files]_vars

\* "Porty transitions to `ready` only after the worktree, selected branch, ... succeed":
\* the files of a ready repository's HEAD have been published to the worktree.
ReadyHasWorktree ==
    row.state = "ready" /\ job = None /\ path.head \in Urls => path.files = Entries

=============================================================================

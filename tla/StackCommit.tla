---------------------------- MODULE StackCommit ----------------------------
(***************************************************************************)
(* Commits of single stacks in the one Git repository that all stacks      *)
(* share: ControlPlane.CommitStack and sdkCommit (internal/git), call by   *)
(* call on the index and HEAD, next to workspace edits, pulls, pushes and  *)
(* what the operator stages by hand.                                       *)
(*                                                                         *)
(* A commit's tree, the index and the worktree map every stack to the      *)
(* version of its files.  Commit 0 stands for the unborn HEAD.             *)
(***************************************************************************)
EXTENDS Naturals, Sequences, FiniteSets, Coordinator

CONSTANTS
    Stacks,
    Requests,      \* request goroutines of the HTTP API
    Committers,    \* the ones among them that commit
    Repository,
    NoStack,
    MaxVer,        \* bound: versions of a stack's files
    MaxCommits     \* bound: length of the history

ASSUME CommitConstants ==
    /\ Committers \subseteq Requests
    /\ Repository \notin Stacks /\ NoStack \notin Stacks /\ Repository # NoStack
    /\ {MaxVer, MaxCommits} \subseteq Nat

VARIABLES
    work,      \* work[s]: version of the files of s in the worktree
    index,     \* index[s]: version of the entries of s in the Git index
    commits,   \* all commit objects; an id is a position
    head,      \* the commit of the checked-out branch
    remote,    \* the commit of the branch at origin
    acked,     \* the commits whose hash a request has returned
    req,       \* req[c]: the request that goroutine c serves
    coord,
    staged,    \* staged[s]: what was staged for s last, and its fate since (history)
    met        \* the commits under way that another commit overlapped (history)

history == <<staged, met>>

gitVars == <<work, index, commits, head, remote, acked, req, coord, history>>

Tree == [Stacks -> Nat]
EmptyTree == [s \in Stacks |-> 0]

Ids == 1..Len(commits)
TreeOf(k) == IF k = 0 THEN EmptyTree ELSE commits[k].tree
Past(k) == IF k = 0 THEN {} ELSE commits[k].past

\* past: the commit and its ancestors; stack: whose commit it is, NoStack if it was
\* made elsewhere; saved: the version that was in the worktree then; alone: no other
\* commit had overlapped this one.
Commit == [tree : Tree, past : SUBSET Nat, parent : Nat, stack : Stacks \cup {NoStack}, saved : Nat,
           alone : BOOLEAN]

\* The locals of sdkCommit: originalIndex, head (until the reset), the new hash, and of
\* committedIndex the entries of the stack, the only ones it keeps.
CommitPcs == {"index", "head", "reset", "add", "commit", "readback", "set"}
CommitWork == CommitPcs \cup {"restore"}

\* From the reset of the index until it is put back.
IndexIsReset == {"add", "commit", "readback", "set", "restore"}

GitRequest == [pc : CommitWork \cup {"idle", "edit", "pull", "push", "leave"},
            scope : Stacks \cup {Repository, NoStack},
            original : Tree, base : Nat, hash : Nat, committed : Nat]
NoRequest == [pc |-> "idle", scope |-> NoStack, original |-> EmptyTree, base |-> 0, hash |-> 0,
              committed |-> 0]

\* A commit of files that belong to no stack.
FirstCommit == [tree |-> EmptyTree, past |-> {1}, parent |-> 0, stack |-> NoStack, saved |-> 0,
                alone |-> TRUE]

\* What the operator staged for a stack is in the index ("kept"), may have been reset
\* by a commit that was cut off ("reset"), or may be anything ("open").
Staged == [fate : {"kept", "reset", "open"}, ver : Nat]
Kept(v) == [fate |-> "kept", ver |-> v]
WasReset == [fate |-> "reset", ver |-> 0]
Unsettled == [fate |-> "open", ver |-> 0]

\* A new repository, unborn or with a first commit, and some stacks to be added.
GitInit ==
    /\ work \in [Stacks -> {0, 1}]
    /\ index = EmptyTree
    /\ commits \in {<<>>, <<FirstCommit>>}
    /\ head = Len(commits) /\ remote = 0
    /\ acked = {}
    /\ req = [c \in Requests |-> NoRequest]
    /\ coord = FreeCoordinator
    /\ staged = [s \in Stacks |-> Kept(0)] /\ met = {}

-----------------------------------------------------------------------------
(* Requests.                                                               *)

\* The call has returned; the request still holds its lock.
Returned(c) == [req EXCEPT ![c] = [NoRequest EXCEPT !.pc = "leave", !.scope = req[c].scope]]

\* The lock of one stack for an edit or a commit, of the repository otherwise.  The
\* locks of two stacks do not keep their commits apart.
Arrive(c, pc, scope) ==
    LET whole == scope = Repository
        ids == {scope} \cap Stacks
        others == {d \in Requests : pc = "index" /\ req[d].pc \in CommitWork}
    IN  /\ req[c].pc = "idle"
        /\ Try(coord, whole, ids)
        /\ coord' = Granted(coord, whole, ids)
        /\ req' = [req EXCEPT ![c] = [NoRequest EXCEPT !.pc = pc, !.scope = scope]]
        /\ met' = IF others = {} THEN met ELSE met \cup others \cup {c}
        /\ staged' = IF others = {} THEN staged ELSE [s \in Stacks |-> Unsettled]
        /\ UNCHANGED <<work, index, commits, head, remote, acked>>

WriteFile(c) ==
    LET s == req[c].scope
    IN  /\ req[c].pc = "edit"
        /\ work[s] < MaxVer
        /\ work' = [work EXCEPT ![s] = @ + 1]
        /\ req' = Returned(c)
        /\ UNCHANGED <<index, commits, head, remote, acked, coord, history>>

ReadIndex(c) ==
    /\ req[c].pc = "index"
    /\ req' = [req EXCEPT ![c].pc = "head", ![c].original = index]
    /\ UNCHANGED <<work, index, commits, head, remote, acked, coord, history>>

ReadHead(c) ==
    /\ req[c].pc = "head"
    /\ req' = [req EXCEPT ![c].pc = "reset", ![c].base = head]
    /\ UNCHANGED <<work, index, commits, head, remote, acked, coord, history>>

\* Mutant: what is staged stays in the index.
ResetKept(k) == index

\* The index that Reset, or SetIndex on an unborn branch, leaves.
ResetIndex(k) == TreeOf(k)

\* A mixed reset moves the branch to the commit that ReadHead saw.
Reset(c) ==
    /\ req[c].pc = "reset"
    /\ index' = ResetIndex(req[c].base)
    /\ head' = IF req[c].base = 0 THEN head ELSE req[c].base
    /\ req' = [req EXCEPT ![c].pc = "add", ![c].base = 0]
    /\ UNCHANGED <<work, commits, remote, acked, coord, history>>

Add(c) ==
    LET s == req[c].scope
    IN  /\ req[c].pc = "add"
        /\ index' = [index EXCEPT ![s] = work[s]]
        /\ req' = [req EXCEPT ![c].pc = "commit"]
        /\ UNCHANGED <<work, commits, head, remote, acked, coord, history>>

\* Worktree.Commit: the index becomes the tree, HEAD the parent and then the commit.
\* An empty commit is refused (Fail).
CommitIndex(c) ==
    LET s == req[c].scope
        new == Len(commits) + 1
    IN  /\ req[c].pc = "commit"
        /\ index # TreeOf(head)
        /\ new <= MaxCommits
        /\ commits' = Append(commits, [tree |-> index, past |-> Past(head) \cup {new},
                                       parent |-> head, stack |-> s, saved |-> work[s],
                                       alone |-> c \notin met])
        /\ head' = new
        /\ req' = [req EXCEPT ![c].pc = "readback", ![c].hash = new]
        /\ UNCHANGED <<work, index, remote, acked, coord, history>>

ReadBack(c) ==
    /\ req[c].pc = "readback"
    /\ req' = [req EXCEPT ![c].pc = "set", ![c].committed = index[req[c].scope]]
    /\ UNCHANGED <<work, index, commits, head, remote, acked, coord, history>>

\* Mutant: the index of the commit is the index.
MergedCommitted(s, committed, original) == [TreeOf(head) EXCEPT ![s] = committed]

\* The entries of the stack as committed, all others as they were before.
Merged(s, committed, original) == [original EXCEPT ![s] = committed]

\* The request answers with the hash of its commit.
SetIndex(c) ==
    LET s == req[c].scope
    IN  /\ req[c].pc = "set"
        /\ index' = Merged(s, req[c].committed, req[c].original)
        /\ acked' = acked \cup {req[c].hash}
        /\ req' = Returned(c)
        /\ staged' = [staged EXCEPT ![s] = IF c \in met THEN @ ELSE Kept(req[c].committed)]
        /\ UNCHANGED <<work, commits, head, remote, coord, met>>

\* A call fails; from the reset on the deferred function restores the index.
Fail(c) ==
    /\ req[c].pc \in CommitPcs \cup {"edit", "pull", "push"}
    /\ req' = IF req[c].pc \in IndexIsReset
              THEN [req EXCEPT ![c].pc = "restore", ![c].hash = 0, ![c].committed = 0]
              ELSE Returned(c)
    /\ UNCHANGED <<work, index, commits, head, remote, acked, coord, history>>

\* The commits of cs end while the index is reset.
CutOff(cs) ==
    [s \in Stacks |-> IF cs = {} THEN staged[s]
                      ELSE IF staged[s] = Unsettled \/ \E c \in cs : req[c].scope = s THEN Unsettled
                      ELSE WasReset]

\* The error of the deferred SetIndex is ignored.
Restore(c) ==
    /\ req[c].pc = "restore"
    /\ \/ index' = req[c].original /\ staged' = staged
       \/ index' = index /\ staged' = CutOff({c})
    /\ req' = Returned(c)
    /\ UNCHANGED <<work, commits, head, remote, acked, coord, met>>

FastForward == head \in Past(remote)

\* Fetch and PullFastForward: a hard reset to the remote branch.
Pull(c) ==
    /\ req[c].pc = "pull"
    /\ work = TreeOf(head) /\ index = TreeOf(head)
    /\ head # 0 /\ remote # 0
    /\ FastForward
    /\ head' = remote
    /\ index' = TreeOf(remote) /\ work' = TreeOf(remote)
    /\ req' = Returned(c)
    /\ staged' = [s \in Stacks |-> Kept(TreeOf(remote)[s])]
    /\ UNCHANGED <<commits, remote, acked, coord, met>>

\* Without force; origin refuses what is not a fast-forward.
Push(c) ==
    /\ req[c].pc = "push"
    /\ head # 0
    /\ remote # 0 => remote \in Past(head)
    /\ remote' = head
    /\ req' = Returned(c)
    /\ UNCHANGED <<work, index, commits, head, acked, coord, history>>

Leave(c) ==
    /\ req[c].pc = "leave"
    /\ coord' = Released(coord, req[c].scope = Repository, {req[c].scope} \cap Stacks)
    /\ req' = [req EXCEPT ![c] = NoRequest]
    /\ met' = met \ {c}
    /\ UNCHANGED <<work, index, commits, head, remote, acked, staged>>

-----------------------------------------------------------------------------
(* The environment.                                                        *)

Committing == \E c \in Requests : req[c].pc \in CommitWork \cup {"pull"}

\* The operator runs git add in the repository while Porty is not using it.
Stage(s) ==
    /\ ~Committing
    /\ index[s] # work[s]
    /\ index' = [index EXCEPT ![s] = work[s]]
    /\ staged' = [staged EXCEPT ![s] = Kept(work[s])]
    /\ UNCHANGED <<work, commits, head, remote, acked, req, coord, met>>

\* Another clone commits to the branch at origin.
Upstream(s) ==
    LET new == Len(commits) + 1
    IN  /\ new <= MaxCommits
        /\ remote # 0
        /\ TreeOf(remote)[s] <= MaxVer
        /\ commits' = Append(commits, [tree |-> [TreeOf(remote) EXCEPT ![s] = MaxVer + 1],
                                       past |-> Past(remote) \cup {new}, parent |-> remote,
                                       stack |-> NoStack, saved |-> 0, alone |-> TRUE])
        /\ remote' = new
        /\ UNCHANGED <<work, index, head, acked, req, coord, history>>

\* The process dies; the index and HEAD stay as they are, and no start repairs them.
GitCrash ==
    /\ req' = [c \in Requests |-> NoRequest]
    /\ coord' = FreeCoordinator
    /\ staged' = CutOff({c \in Requests : req[c].pc \in IndexIsReset})
    /\ met' = {}
    /\ UNCHANGED <<work, index, commits, head, remote, acked>>

-----------------------------------------------------------------------------

Serve(c) ==
    \/ \E s \in Stacks : Arrive(c, "edit", s) \/ (c \in Committers /\ Arrive(c, "index", s))
    \/ \E pc \in {"pull", "push"} : Arrive(c, pc, Repository)
    \/ WriteFile(c) \/ ReadIndex(c) \/ ReadHead(c) \/ Reset(c) \/ Add(c) \/ CommitIndex(c)
    \/ ReadBack(c) \/ SetIndex(c) \/ Fail(c) \/ Restore(c) \/ Pull(c) \/ Push(c) \/ Leave(c)

GitEnvironment == (\E s \in Stacks : Stage(s) \/ Upstream(s)) \/ GitCrash

GitNext == (\E c \in Requests : Serve(c)) \/ GitEnvironment

GitSpec == GitInit /\ [][GitNext]_gitVars

-----------------------------------------------------------------------------
(* Properties.                                                             *)

\* Type correctness of the repository and of the requests.
GitTypeOK ==
    /\ {work, index} \subseteq Tree
    /\ commits \in Seq(Commit)
    /\ {head, remote} \subseteq Ids \cup {0}
    /\ acked \subseteq Ids
    /\ req \in [Requests -> GitRequest]
    /\ coord \in CoordinatorOf(Stacks)
    /\ staged \in [Stacks -> Staged] /\ met \subseteq Requests

\* docs/superpowers/specs/2026-09-19-porty-design.md: "stack-scoped commits".
\* A commit that no other one overlapped changes its parent by the files its stack
\* had, and by nothing of another stack, whatever is staged, and whatever commits
\* that failed, died half-way or overlapped have left in the index (sdkCommit).
CommitIsStackScoped ==
    \A k \in Ids : LET made == commits[k]
                  IN  made.stack # NoStack /\ made.alone =>
                          made.tree = [TreeOf(made.parent) EXCEPT ![made.stack] = made.saved]

\* docs/user-guide.md, "Git workflow": a commit whose hash was returned is in
\* the local history, also after later commits, failures, pulls and pushes.
CommitIsRecorded == acked \subseteq Past(head)

\* The index that the fates of the stacks allow: what was staged, or after a commit
\* that was cut off what the local history has.
AsStaged(tree) ==
    \A s \in Stacks :
        /\ staged[s].fate = "kept" => tree[s] = staged[s].ver
        /\ staged[s].fate = "reset" => \E k \in Past(head) \cup {0} : tree[s] = TreeOf(k)[s]

\* internal/git/client_sdk_test.go:141, "staged sibling lost": what the operator
\* staged for other stacks is in the index again once no commit is under way, whether
\* it succeeded or failed (sdkCommit).  A crash while the index is reset, or a failing
\* SetIndex in the deferred restore, un-stages it: then the index has a version of the
\* other stacks that was committed before, never one that nobody staged for them.
StagedWorkSurvives == ~Committing => AsStaged(index)

=============================================================================

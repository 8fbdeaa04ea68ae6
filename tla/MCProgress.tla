----------------------------- MODULE MCProgress -----------------------------
(***************************************************************************)
(* EventHub, TrafficListener and AutoUpdate, with the fairness of their    *)
(* goroutines, and ImageSelection, which needs none, for TLC in one run.   *)
(* They share no state, so a behaviour moves only one of them; the others  *)
(* stay where none of their fair actions is enabled (updates: after        *)
(* Shutdown).                                                              *)
(***************************************************************************)
EXTENDS EventHub, TrafficListener, AutoUpdate, MCImageSelection

VARIABLE part

progressVars == <<part, hubVars, listenerVars, vars, imageVars>>

\* A server that has stopped before its first policy was saved.
StoppedUpdates ==
    /\ sched = "stopped" /\ blocked = TRUE
    /\ pol = [s \in Stacks |-> NoPolicy]
    /\ run = [r \in Runs |-> NoRun]
    /\ exec = [r \in Runs |-> NoExec]
    /\ op = [r \in Runs |-> "none"]
    /\ base = [s \in Stacks |-> FirstDeployment]
    /\ files = [s \in Stacks |-> 1] /\ git = 1 /\ gen = [s \in Stacks |-> 1]
    /\ fit = [s \in Stacks |-> TRUE]
    /\ gone = [s \in Stacks |-> FALSE] /\ unproven = [s \in Stacks |-> FALSE]
    /\ wk = [w \in Workers |-> NoWork]
    /\ job = [r \in Runs |-> NoJob]
    /\ queue = {}
    /\ cl = [c \in Clients |-> NoClient]
    /\ coord = FreeCoordinator
    /\ crashes = 0

ProgressInit ==
    /\ part \in {"hub", "listener", "updates", "images"}
    /\ HubInit /\ ListenerInit /\ ImageInit
    /\ part # "hub" => sock = "stopped"
    /\ part # "images" => \A s \in Services : source[s].ref = x /\ ~source[s].build
    /\ IF part = "updates" THEN Init ELSE StoppedUpdates

ProgressNext ==
    \/ part = "hub" /\ HubNext /\ UNCHANGED <<part, listenerVars, vars, imageVars>>
    \/ part = "listener" /\ ListenerNext /\ UNCHANGED <<part, hubVars, vars, imageVars>>
    \/ part = "updates" /\ Next /\ UNCHANGED <<part, hubVars, listenerVars, imageVars>>
    \/ part = "images" /\ ImageNext /\ UNCHANGED <<part, hubVars, listenerVars, vars>>

ProgressSpec ==
    ProgressInit /\ [][ProgressNext]_progressVars /\ HubFairness /\ ListenerFairness /\ Fairness

\* The variables of the hub, the listener and the images have their types, and replay,
\* queues, buffers and counts keep the bounds that the code gives them.
ProgressTypeOK == HubTypeOK /\ ListenerTypeOK /\ ImageTypeOK

=============================================================================

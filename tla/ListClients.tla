----------------------------- MODULE ListClients ----------------------------
(***************************************************************************)
(* The list connections of the download workers and the shutdown that must  *)
(* free a worker stuck in List (internal/runner/runner.go: downloadWorker's *)
(* ensureList and dropList, closeListClients, the closing goroutine).       *)
(*                                                                         *)
(* A saturated server may never answer List: only closing the connection    *)
(* ends the call, and only then does the worker look at its context.  The   *)
(* transfers a worker runs between two polls, and its dials, are ended by    *)
(* nobody: the closing goroutine bounds its wait instead.                   *)
(***************************************************************************)
EXTENDS Integers, FiniteSets

CONSTANTS
    Pollers,        \* download users, one worker each
    MaxLists,       \* bound: list connections dialled per worker
    NoConn

\* The n-th connection a worker dials.
ListConns == Pollers \X (1..MaxLists)

ASSUME ListAssumption == MaxLists \in Nat \ {0} /\ NoConn \notin ListConns

VARIABLES
    openLists,      \* list connections that are open
    listClient,     \* per worker: its connection, NoConn when nil
    registry,       \* Run.listClients
    listsClosed,    \* listClientsClosed
    outerDone,      \* the outer context is cancelled
    poller,         \* per worker: program counter
    dials,          \* per worker: connections dialled
    toClose,        \* what closeListClients collected and has not closed yet
    closer          \* the closing goroutine: "run", "close", "wait", "forced", "torn"

listVars == <<openLists, listClient, registry, listsClosed, outerDone, poller, dials,
              toClose, closer>>

ListInit ==
    /\ openLists = {} /\ listClient = [p \in Pollers |-> NoConn]
    /\ registry = [p \in Pollers |-> NoConn]
    /\ listsClosed = FALSE /\ outerDone = FALSE
    /\ poller = [p \in Pollers |-> "wait"] /\ dials = [p \in Pollers |-> 0]
    /\ toClose = {} /\ closer = "run"

PollerGoes(p, pc) == poller' = [poller EXCEPT ![p] = pc]
Unregister(p) == registry' = [registry EXCEPT ![p] = NoConn]

-----------------------------------------------------------------------------
(* A download worker.                                                       *)

\* The select: a tick, also one that is due together with ctx.Done.
PollTick(p) ==
    /\ poller[p] = "wait"
    /\ PollerGoes(p, IF listClient[p] # NoConn THEN "list" ELSE "dial")
    /\ UNCHANGED <<openLists, listClient, registry, listsClosed, outerDone, dials, toClose, closer>>

\* The worker's return runs the deferred close of its connection first.
WorkerReturns(p) ==
    /\ PollerGoes(p, IF listClient[p] # NoConn THEN "exit" ELSE "gone")
    /\ openLists' = openLists \ {listClient[p]}
    /\ UNCHANGED <<listClient, registry, listsClosed, outerDone, dials, toClose, closer>>

\* The select finds ctx.Done.
PollReturns(p) == poller[p] = "wait" /\ outerDone /\ WorkerReturns(p)

\* The tick finds the user disabled for downloads.
PollerDisabled(p) == poller[p] = "wait" /\ ~outerDone /\ WorkerReturns(p)

ExitUnregisters(p) ==
    /\ poller[p] = "exit"
    /\ Unregister(p)
    /\ listClient' = [listClient EXCEPT ![p] = NoConn]
    /\ PollerGoes(p, "gone")
    /\ UNCHANGED <<openLists, listsClosed, outerDone, dials, toClose, closer>>

\* ensureList: the SFTP dial does not look at the context, so a connection
\* may come up after the cancel.
ListDialled(p) ==
    /\ poller[p] = "dial" /\ dials[p] < MaxLists
    /\ LET c == <<p, dials[p] + 1>>
       IN /\ openLists' = openLists \cup {c}
          /\ listClient' = [listClient EXCEPT ![p] = c]
          /\ dials' = [dials EXCEPT ![p] = @ + 1]
    /\ PollerGoes(p, "register")
    /\ UNCHANGED <<registry, listsClosed, outerDone, toClose, closer>>

ListDialFails(p) ==
    /\ poller[p] = "dial"
    /\ PollerGoes(p, "wait")
    /\ UNCHANGED <<openLists, listClient, registry, listsClosed, outerDone, dials, toClose, closer>>

\* A registration that does not look whether the registry was closed.
RegisterBlindly(p) ==
    /\ poller[p] = "register"
    /\ registry' = [registry EXCEPT ![p] = listClient[p]]
    /\ PollerGoes(p, "list")
    /\ UNCHANGED <<openLists, listClient, listsClosed, outerDone, dials, toClose, closer>>

\* Under listClientsMu: a closed registry refuses, and the connection is
\* closed at once.
Register(p) ==
    /\ poller[p] = "register"
    /\ IF listsClosed
       THEN /\ openLists' = openLists \ {listClient[p]}
            /\ listClient' = [listClient EXCEPT ![p] = NoConn]
            /\ PollerGoes(p, "wait")
            /\ UNCHANGED registry
       ELSE /\ registry' = [registry EXCEPT ![p] = listClient[p]]
            /\ PollerGoes(p, "list")
            /\ UNCHANGED <<openLists, listClient>>
    /\ UNCHANGED <<listsClosed, outerDone, dials, toClose, closer>>

\* The server answers List; the worker moves the files it found, one after
\* the other and over connections of the pool, ...
ListAnswers(p) ==
    /\ poller[p] = "list" /\ listClient[p] \in openLists
    /\ PollerGoes(p, "transfer")
    /\ UNCHANGED <<openLists, listClient, registry, listsClosed, outerDone, dials, toClose, closer>>

\* ... and goes back to its select, whatever became of them.
TransfersEnd(p) ==
    /\ poller[p] = "transfer"
    /\ PollerGoes(p, "wait")
    /\ UNCHANGED <<openLists, listClient, registry, listsClosed, outerDone, dials, toClose, closer>>

\* List fails on its own (the server drops the connection) ...
ListBreaks(p) ==
    /\ poller[p] = "list" /\ listClient[p] \in openLists
    /\ PollerGoes(p, "drop")
    /\ UNCHANGED <<openLists, listClient, registry, listsClosed, outerDone, dials, toClose, closer>>

\* ... or because its connection was closed under it.
ListInterrupted(p) ==
    /\ poller[p] = "list" /\ listClient[p] \notin openLists
    /\ PollerGoes(p, "drop")
    /\ UNCHANGED <<openLists, listClient, registry, listsClosed, outerDone, dials, toClose, closer>>

\* dropList closes, then unregisters.
DropList(p) ==
    /\ poller[p] = "drop"
    /\ openLists' = openLists \ {listClient[p]}
    /\ PollerGoes(p, "unregister")
    /\ UNCHANGED <<listClient, registry, listsClosed, outerDone, dials, toClose, closer>>

DropUnregisters(p) ==
    /\ poller[p] = "unregister"
    /\ Unregister(p)
    /\ listClient' = [listClient EXCEPT ![p] = NoConn]
    /\ PollerGoes(p, "wait")
    /\ UNCHANGED <<openLists, listsClosed, outerDone, dials, toClose, closer>>

-----------------------------------------------------------------------------
(* The closing goroutine.                                                   *)

\* cancel() of the outer context.
CancelOuter ==
    /\ closer = "run"
    /\ outerDone' = TRUE /\ closer' = "collect"
    /\ UNCHANGED <<openLists, listClient, registry, listsClosed, poller, dials, toClose>>

\* closeListClients under the mutex: collect, clear, refuse late ones, ...
CloseListClients ==
    /\ closer = "collect"
    /\ toClose' = {registry[p] : p \in Pollers} \ {NoConn}
    /\ registry' = [p \in Pollers |-> NoConn]
    /\ listsClosed' = TRUE
    /\ closer' = "close"
    /\ UNCHANGED <<openLists, listClient, outerDone, poller, dials>>

\* ... then close one after the other.
CloseList ==
    /\ closer = "close"
    /\ IF toClose = {}
       THEN closer' = "wait" /\ UNCHANGED <<openLists, toClose>>
       ELSE /\ \E c \in toClose : openLists' = openLists \ {c} /\ toClose' = toClose \ {c}
            /\ UNCHANGED closer
    /\ UNCHANGED <<listClient, registry, listsClosed, outerDone, poller, dials>>

\* downloadsWG.Wait returns, ...
Drained ==
    /\ closer = "wait" /\ \A p \in Pollers : poller[p] = "gone"
    /\ closer' = "torn"
    /\ UNCHANGED <<openLists, listClient, registry, listsClosed, outerDone, poller, dials, toClose>>

\* ... or the hard cap expires with a worker in another call.
HardCap ==
    /\ closer = "wait" /\ \E p \in Pollers : poller[p] # "gone"
    /\ closer' = "forced"
    /\ UNCHANGED <<openLists, listClient, registry, listsClosed, outerDone, poller, dials, toClose>>

PollerStep(p) ==
    \/ PollTick(p) \/ PollReturns(p) \/ ExitUnregisters(p) \/ Register(p)
    \/ ListInterrupted(p) \/ DropList(p) \/ DropUnregisters(p)

\* What the server may delay for ever.
ServerStep(p) ==
    \/ ListDialled(p) \/ ListDialFails(p) \/ ListAnswers(p) \/ ListBreaks(p) \/ TransfersEnd(p)

ListNext ==
    \/ \E p \in Pollers : PollerStep(p) \/ PollerDisabled(p) \/ ServerStep(p)
    \/ CancelOuter \/ CloseListClients \/ CloseList \/ Drained \/ HardCap

\* Goroutines run, closing a connection returns and ends the calls on it, and
\* a select that keeps finding both cases ready takes each of them again and
\* again.  The server owes nothing: no answer to List, no dial, no transfer.
ListFairness ==
    /\ \A p \in Pollers : WF_listVars(PollerStep(p)) /\ SF_listVars(PollReturns(p))
    /\ WF_listVars(CloseListClients) /\ WF_listVars(CloseList)

ListSpec == ListInit /\ [][ListNext]_listVars
FairListSpec == ListSpec /\ ListFairness

-----------------------------------------------------------------------------
(* Properties.                                                              *)

\* The worker is in no dial and in no transfer for ever.
CallsReturn(p) == []<>(poller[p] \notin {"dial", "transfer"})

\* After the outer context is cancelled, a worker whose dials and transfers
\* return comes to its end, though the server never answers List again: List
\* itself cannot hold it, not even on a connection that is dialled while the
\* shutdown closes the others (runner.go:1513-1519: "the worker can observe
\* ctx.Done() at its next select"; 1651-1660).
WorkersReturn ==
    \A p \in Pollers : CallsReturn(p) => []<>(outerDone => poller[p] = "gone")
=============================================================================

----------------------------- MODULE ClientPool -----------------------------
(***************************************************************************)
(* One user's connection pool (internal/runner/runner.go: poolSlot,          *)
(* clientPool, buildPool, teardown) under the transfers that borrow its      *)
(* connections, and the connections' own close (internal/sftpx/client.go).   *)
(*                                                                         *)
(* A connection is lent to several transfers at once.  A transfer that fails *)
(* closes whatever its slot holds by then; a slot's mutex is held while it   *)
(* redials; get reads the slice of slots after it released the pool's mutex. *)
(***************************************************************************)
EXTENDS Integers, Sequences, FiniteSets

CONSTANTS
    Slots,          \* ParallelStreams: 0 .. Slots - 1
    Movers,         \* concurrent transfers of the user
    MaxConns,       \* bound: connections dialled
    MaxTransfers,   \* bound: transfers
    Forced,         \* teardown does not wait for the transfers (download pools)
    NoMover

ASSUME PoolAssumption ==
    /\ Slots \in Nat \ {0} /\ MaxConns \in Nat /\ MaxTransfers \in Nat
    /\ Forced \in BOOLEAN /\ NoMover \notin Movers

SlotIds == 0..(Slots - 1)

VARIABLES
    conns,          \* connections dialled: "open", "dropped" by the server, "closed"
    slotConn,       \* per slot: its connection, 0 when nil
    slotMu,         \* per slot: who holds its mutex across a dial
    idx,            \* the round-robin cursor
    closed,         \* slots closeAll has been through
    pool,           \* "building", "up", "closing", "gone" (slots = nil)
    mover,          \* per transfer: program counter and locals
    transfers,      \* counter of the bound
    drops,          \* connections the server dropped
    healthyCut      \* a healthy connection was closed under a transfer

poolVars == <<conns, slotConn, slotMu, idx, closed, pool, mover, transfers, drops, healthyCut>>

NoTransfer == [pc |-> "idle", start |-> 0, try |-> 0, s |-> 0, c |-> 0]

PoolInit ==
    /\ conns = <<>>
    /\ slotConn = [s \in SlotIds |-> 0] /\ slotMu = [s \in SlotIds |-> NoMover]
    /\ idx = 0 /\ closed = 0 /\ pool = "building"
    /\ mover = [m \in Movers |-> NoTransfer]
    /\ transfers = 0 /\ drops = 0 /\ healthyCut = FALSE

MoverAt(m, pc) == mover[m].pc = pc
MoverGoes(m, pc) == mover' = [mover EXCEPT ![m].pc = pc]
Dialled(c) == c \in DOMAIN conns
LiveConn(c) == c # 0 /\ conns[c] = "open"
NextSlot(m) == (mover[m].start + mover[m].try) % Slots

\* protocol.Dial: a new connection.
Redial == conns' = Append(conns, "open")

-----------------------------------------------------------------------------
(* Building and closing the pool.                                           *)

\* buildPool dials slot after slot; the run starts when all are there.
BuildSlot ==
    /\ pool = "building" /\ Len(conns) < MaxConns
    /\ \E s \in SlotIds :
         /\ slotConn[s] = 0 /\ \A t \in 0..(s - 1) : slotConn[t] # 0
         /\ Redial /\ slotConn' = [slotConn EXCEPT ![s] = Len(conns')]
         /\ pool' = IF s = Slots - 1 THEN "up" ELSE "building"
    /\ UNCHANGED <<slotMu, idx, closed, mover, transfers, drops, healthyCut>>

\* A dial fails: buildPool closes what it has.
BuildFails ==
    /\ pool = "building"
    /\ conns' = [c \in DOMAIN conns |-> "closed"]
    /\ slotConn' = [s \in SlotIds |-> 0]
    /\ pool' = "gone"
    /\ UNCHANGED <<slotMu, idx, closed, mover, transfers, drops, healthyCut>>

\* teardown: after the transfers of an upload pool, or after the hard cap.
TeardownBegins ==
    /\ pool = "up"
    /\ Forced \/ \A m \in Movers : MoverAt(m, "idle")
    /\ pool' = "closing"
    /\ UNCHANGED <<conns, slotConn, slotMu, idx, closed, mover, transfers, drops, healthyCut>>

\* closeAll closes every slot under its mutex, ...
CloseSlot ==
    /\ pool = "closing" /\ closed < Slots /\ slotMu[closed] = NoMover
    /\ conns' = IF slotConn[closed] = 0 THEN conns ELSE [conns EXCEPT ![slotConn[closed]] = "closed"]
    /\ slotConn' = [slotConn EXCEPT ![closed] = 0]
    /\ closed' = closed + 1
    /\ UNCHANGED <<slotMu, idx, pool, mover, transfers, drops, healthyCut>>

\* ... then drops the slice.
ForgetSlots ==
    /\ pool = "closing" /\ closed = Slots
    /\ pool' = "gone"
    /\ UNCHANGED <<conns, slotConn, slotMu, idx, closed, mover, transfers, drops, healthyCut>>

-----------------------------------------------------------------------------
(* A transfer.                                                              *)

\* clientPool.get under the pool's mutex, which closeAll holds throughout.
PoolGet(m) ==
    /\ MoverAt(m, "idle") /\ transfers < MaxTransfers /\ transfers' = transfers + 1
    /\ pool = "up"
    /\ mover' = [mover EXCEPT ![m] = [NoTransfer EXCEPT !.pc = "pick", !.start = idx]]
    /\ idx' = (idx + 1) % Slots
    /\ UNCHANGED <<conns, slotConn, slotMu, closed, pool, drops, healthyCut>>

\* The slot of this attempt: its connection, or a redial under its mutex.
\* When closeAll has dropped the slice, the index is out of range.
SlotGet(m) ==
    /\ MoverAt(m, "pick")
    /\ LET s == NextSlot(m)
       IN IF pool = "gone"
          THEN MoverGoes(m, "panic") /\ UNCHANGED slotMu
          ELSE /\ slotMu[s] = NoMover
               /\ IF slotConn[s] # 0
                  THEN mover' = [mover EXCEPT ![m].pc = "move", ![m].s = s, ![m].c = slotConn[s]]
                       /\ UNCHANGED slotMu
                  ELSE mover' = [mover EXCEPT ![m].pc = "dial", ![m].s = s]
                       /\ slotMu' = [slotMu EXCEPT ![s] = m]
    /\ UNCHANGED <<conns, slotConn, idx, closed, pool, transfers, drops, healthyCut>>

DialOk(m) ==
    /\ MoverAt(m, "dial") /\ Len(conns) < MaxConns
    /\ Redial
    /\ slotConn' = [slotConn EXCEPT ![mover[m].s] = Len(conns')]
    /\ slotMu' = [slotMu EXCEPT ![mover[m].s] = NoMover]
    /\ mover' = [mover EXCEPT ![m].pc = "move", ![m].c = Len(conns')]
    /\ UNCHANGED <<idx, closed, pool, transfers, drops, healthyCut>>

\* The next slot is tried, until each was.
DialFails(m) ==
    /\ MoverAt(m, "dial")
    /\ slotMu' = [slotMu EXCEPT ![mover[m].s] = NoMover]
    /\ mover' = [mover EXCEPT ![m] = IF mover[m].try + 1 < Slots
                                     THEN [mover[m] EXCEPT !.pc = "pick", !.try = @ + 1]
                                     ELSE NoTransfer]
    /\ UNCHANGED <<conns, slotConn, idx, closed, pool, transfers, drops, healthyCut>>

\* Upload or DrainTo succeeds on an open connection.
TransferOk(m) ==
    /\ MoverAt(m, "move") /\ LiveConn(mover[m].c)
    /\ mover' = [mover EXCEPT ![m] = NoTransfer]
    /\ UNCHANGED <<conns, slotConn, slotMu, idx, closed, pool, transfers, drops, healthyCut>>

\* It fails: the connection was dropped or closed, or the server refuses the
\* file on one that works.
TransferFails(m) ==
    /\ MoverAt(m, "move")
    /\ MoverGoes(m, "mark")
    /\ UNCHANGED <<conns, slotConn, slotMu, idx, closed, pool, transfers, drops, healthyCut>>

\* markDead when it only forgets the connection.
ForgetDead(m) ==
    /\ MoverAt(m, "mark") /\ slotMu[mover[m].s] = NoMover
    /\ slotConn' = [slotConn EXCEPT ![mover[m].s] = 0]
    /\ mover' = [mover EXCEPT ![m] = NoTransfer]
    /\ UNCHANGED <<conns, slotMu, idx, closed, pool, transfers, drops, healthyCut>>

\* markDead closes what the slot holds now.
MarkDead(m) ==
    /\ MoverAt(m, "mark") /\ slotMu[mover[m].s] = NoMover
    /\ LET s == mover[m].s
           c == slotConn[s]
       IN /\ IF c = 0
             THEN UNCHANGED <<conns, slotConn, healthyCut>>
             ELSE /\ conns' = [conns EXCEPT ![c] = "closed"]
                  /\ slotConn' = [slotConn EXCEPT ![s] = 0]
                  /\ healthyCut' = (healthyCut \/ (LiveConn(c) /\ \E w \in Movers \ {m} :
                                       MoverAt(w, "move") /\ mover[w].c = c))
    /\ mover' = [mover EXCEPT ![m] = NoTransfer]
    /\ UNCHANGED <<slotMu, idx, closed, pool, transfers, drops>>

\* The server or a middlebox drops a connection; the keepalive only ends.
Dropped(c) ==
    /\ Dialled(c) /\ conns[c] = "open" /\ pool = "up"
    /\ conns' = [conns EXCEPT ![c] = "dropped"]
    /\ drops' = drops + 1
    /\ UNCHANGED <<slotConn, slotMu, idx, closed, pool, mover, transfers, healthyCut>>

PoolNext ==
    \/ BuildSlot \/ BuildFails \/ TeardownBegins \/ CloseSlot \/ ForgetSlots
    \/ \E m \in Movers : \/ PoolGet(m) \/ SlotGet(m) \/ DialOk(m) \/ DialFails(m)
                         \/ TransferOk(m) \/ TransferFails(m) \/ MarkDead(m)
    \/ \E c \in 1..MaxConns : Dropped(c)

PoolSpec == PoolInit /\ [][PoolNext]_poolVars

-----------------------------------------------------------------------------
(* Properties.                                                              *)

\* Once the pool is gone and its transfers have ended, every connection ever
\* dialled was closed, the redialled and the dropped ones too
\* (runner.go:959-990, 1028-1037, 2323-2334).
NoConnectionLeaks ==
    (pool = "gone" /\ ~Forced) => \A c \in DOMAIN conns : conns[c] = "closed"

\* "at worst, two uploaders waiting on the same slot will redial it once
\* between them" (runner.go:911-912): a dropped connection costs at most one
\* redial, and no transfer loses a connection that works.
RedialOnce == ~healthyCut /\ Len(conns) <= Slots + drops

\* A get that runs while the pool is torn down finds the slice it indexes
\* (runner.go:1017-1018); the forced teardown of a download pool breaks it.
IndexInRange == \A m \in Movers : ~MoverAt(m, "panic")
=============================================================================

----------------------------- MODULE MockServer -----------------------------
(***************************************************************************)
(* The file system the in-process SFTP and FTP(S) servers share in design   *)
(* (internal/mocksftp/server.go, internal/mockftp/server.go): an upload      *)
(* becomes an inbox entry, any client's listing promotes the finished ones   *)
(* (a track id is appended, a copy is routed to the paired user's outbox,    *)
(* another to the sender's sent/), and a download may evict all of them.     *)
(* Every operation runs under mockFS.mu; uploads are open across it.         *)
(*                                                                         *)
(* A put is one upload; it stands for its bytes.  The random track id is     *)
(* named by the put it is given to.                                          *)
(***************************************************************************)
EXTENDS Naturals, Sequences, FiniteSets

CONSTANTS
    Paired, Alone,      \* senders with a route, and without one
    Receiver,           \* the user the routes lead to
    Names,              \* base names of uploads
    Putters,          \* open upload handles or data connections
    MaxPuts,            \* bound: uploads
    Evict,              \* Options.EvictAfterRead
    Deletes,            \* whether clients delete (FTP; SFTP accepts and ignores it)
    NoPut               \* an idle uploader

ASSUME MockAssumption ==
    /\ MaxPuts \in Nat /\ Evict \in BOOLEAN /\ Deletes \in BOOLEAN
    /\ Paired \cap Alone = {} /\ Receiver \notin Paired \cup Alone

VARIABLES
    mockFiles,      \* mockFS.files: key -> the put whose bytes it holds, and completed
    puts,           \* history: sender and name of every upload
    writer,         \* per uploader: the key and put of its handle
    acked, cutOff,     \* history: uploads the client saw succeed; uploads cut short
    meddled,        \* history: uploads that met one of the same name, or were deleted
    listed,         \* outbox keys some download client has in a listing
    fetched         \* history: puts downloaded

mockVars == <<mockFiles, puts, writer, acked, cutOff, meddled, listed, fetched>>

Users == Paired \cup Alone \cup {Receiver}
Untracked == 0

\* "<user>/<folder>/<name>", or "...<name>#<track id>".
FileKey(u, folder, n, tid) == [user |-> u, folder |-> folder, name |-> n, tid |-> tid]

MockInit ==
    /\ mockFiles = << >>
    /\ puts = << >>
    /\ writer = [w \in Putters |-> NoPut]
    /\ acked = {} /\ cutOff = {} /\ meddled = {}
    /\ listed = {} /\ fetched = {}

Without(keys) == [k \in DOMAIN mockFiles \ keys |-> mockFiles[k]]
Holding(p) == {k \in DOMAIN mockFiles : mockFiles[k].put = p}

-----------------------------------------------------------------------------
(* Uploads.                                                                 *)

\* Uploads a new one of the same key meets: the entry it replaces, and the
\* handles still open on that key.
SameKey(key) ==
    {mockFiles[k].put : k \in DOMAIN mockFiles \cap {key}}
        \cup {writer[w].put : w \in {x \in Putters : writer[x] # NoPut /\ writer[x].key = key}}

\* Filewrite, and STOR once the data connection is accepted: a new entry
\* under the key, whatever was there.
PutBegins(w, u, n) ==
    LET p == Len(puts) + 1
        key == FileKey(u, "inbox", n, Untracked)
        met == SameKey(key)
    IN  /\ writer[w] = NoPut /\ p <= MaxPuts
        /\ mockFiles' = [k \in DOMAIN mockFiles \cup {key} |->
                            IF k = key THEN [put |-> p, done |-> FALSE] ELSE mockFiles[k]]
        /\ puts' = Append(puts, [user |-> u, name |-> n])
        /\ writer' = [writer EXCEPT ![w] = [key |-> key, put |-> p]]
        /\ meddled' = IF met = {} THEN meddled ELSE meddled \cup met \cup {p}
        /\ UNCHANGED <<acked, cutOff, listed, fetched>>

\* Whatever entry has the key by now is completed with this upload's bytes;
\* without one nothing happens (writeHandle.Close, the end of acceptStor).
Completed(key, p) ==
    [k \in DOMAIN mockFiles |->
        IF k = key THEN [put |-> p, done |-> TRUE] ELSE mockFiles[k]]

\* The handle is closed, by the client or, when the connection drops, by the
\* SFTP library; the data connection ends, with or without an error.  The
\* client of a whole upload is told of success, entry or no entry.
PutEnds(w, whole) ==
    LET p == writer[w].put
    IN  /\ writer[w] # NoPut
        /\ writer' = [writer EXCEPT ![w] = NoPut]
        /\ mockFiles' = Completed(writer[w].key, p)
        /\ acked' = IF whole THEN acked \cup {p} ELSE acked
        /\ cutOff' = IF whole THEN cutOff ELSE cutOff \cup {p}
        /\ UNCHANGED <<puts, meddled, listed, fetched>>

-----------------------------------------------------------------------------
(* Listings and the promotion they trigger.                                 *)

Destination(u) == IF u \in Paired THEN Receiver ELSE u

\* Variant: an upload is promoted from its creation on.
ReadyFromTheStart ==
    {k \in DOMAIN mockFiles : k.folder = "inbox" /\ k.tid = Untracked}

\* Inbox entries promotion looks at; how many are old enough is a matter of
\* time.
Ready ==
    {k \in DOMAIN mockFiles :
        k.folder = "inbox" /\ k.tid = Untracked /\ mockFiles[k].done}

\* What an entry becomes: the renamed inbox entry and the two copies.
Promoted(k) ==
    LET tid == mockFiles[k].put
    IN  {FileKey(k.user, "inbox", k.name, tid), FileKey(k.user, "sent", k.name, tid),
         FileKey(Destination(k.user), "outbox", k.name, tid)}

\* promoteInboxesLocked / promoteAll.
AfterPromoting(ripe) ==
    [k \in (DOMAIN mockFiles \ ripe) \cup UNION {Promoted(r) : r \in ripe} |->
        IF k \in DOMAIN mockFiles THEN mockFiles[k]
        ELSE mockFiles[CHOOSE r \in ripe : k \in Promoted(r)]]

\* listFolder / listForUser: what a download client sees of its outbox.
OutboxOf(u, keys) == {k \in keys : k.user = u /\ k.folder = "outbox"}

\* A listing of any folder of any user promotes; a download client keeps what
\* it saw in its outbox.
MockLists(u) ==
    \E ripe \in SUBSET Ready :
        /\ mockFiles' = AfterPromoting(ripe)
        /\ listed' = listed \cup OutboxOf(u, DOMAIN mockFiles')
        /\ UNCHANGED <<puts, writer, acked, cutOff, meddled, fetched>>

-----------------------------------------------------------------------------
(* Downloads and deletions.                                                 *)

\* Variant: only the copy that was read goes.
EvictedCopy(k) == {k}

\* The entries an outbox read drops: the copy and its sources among the users
\* routed to the reader.
Evicted(k) ==
    {k} \cup {FileKey(u, f, k.name, k.tid) :
                u \in {s \in Paired : k.user = Receiver}, f \in {"inbox", "sent"}}

\* Fileread / RETR of a listed file that is still there; one that is gone is
\* answered "not found" and changes nothing.
MockReads(k) ==
    /\ k \in listed \cap DOMAIN mockFiles
    /\ fetched' = fetched \cup {mockFiles[k].put}
    /\ mockFiles' = IF Evict THEN Without(Evicted(k)) ELSE mockFiles
    /\ UNCHANGED <<puts, writer, acked, cutOff, meddled, listed>>

\* DELE.
MockDeletes(k) ==
    /\ Deletes /\ k \in DOMAIN mockFiles
    /\ mockFiles' = Without({k})
    /\ meddled' = meddled \cup {mockFiles[k].put}
    /\ UNCHANGED <<puts, writer, acked, cutOff, listed, fetched>>

MockNext ==
    \/ \E w \in Putters, u \in Paired \cup Alone, n \in Names : PutBegins(w, u, n)
    \/ \E w \in Putters, whole \in BOOLEAN : PutEnds(w, whole)
    \/ \E u \in Users : MockLists(u)
    \/ \E k \in listed : MockReads(k)
    \/ \E k \in DOMAIN mockFiles : MockDeletes(k)

MockSpec == MockInit /\ [][MockNext]_mockVars

-----------------------------------------------------------------------------
(* Properties.                                                              *)

\* An upload the client saw succeed, and whose name no other upload used in
\* the meantime, is never lost or delivered unfinished: it waits complete in
\* its inbox, or lies complete in the outbox of the user it is routed to, or
\* has been downloaded; whatever listings, other uploads and evictions run
\* meanwhile.
AckedUploadsDelivered ==
    \A p \in acked \ (meddled \cup fetched) :
        \E k \in Holding(p) :
            /\ mockFiles[k].done
            /\ \/ k.folder = "inbox" /\ k.tid = Untracked /\ k.user = puts[p].user
               \/ k.folder = "outbox" /\ k.user = Destination(puts[p].user)

\* With eviction on, nothing of a routed upload is kept once it was read: its
\* outbox copy, its inbox entry and its sent entry are gone together, so that
\* memory holds only files in flight.
EvictionBounded ==
    Evict => \A p \in fetched : puts[p].user \in Paired => Holding(p) = {}

\* "With this flag on, mem is bounded by in-flight files only"
\* (mocksftp/server.go:58-59): fails for a user without a pair, whose own
\* route is not in the map and whose inbox and sent entries stay.
EvictionLeavesNothing == Evict => \A p \in fetched : Holding(p) = {}

\* "After an upload to <user>/inbox/<name> completes" (mocksftp/server.go:7):
\* fails when a connection drops, since the handle's Close completes the entry.
OnlyCompleteRouted ==
    \A k \in DOMAIN mockFiles : k.folder = "outbox" => mockFiles[k].put \notin cutOff
=============================================================================

----------------------------- MODULE RunDoctor -----------------------------
(***************************************************************************)
(* The diagnosis log of one run: POST /api/run-doctor/analyze               *)
(* (internal/web/rundoctor_handlers.go) appends one JSON line per answer    *)
(* (internal/persist/diagnosis.go) and follow-ups walk the chain of their   *)
(* parents through it.                                                      *)
(*                                                                         *)
(* Requests run concurrently, the call to the AI provider takes up to 70 s, *)
(* and a write that fails half way leaves a line without its newline: the   *)
(* next append continues that line.                                         *)
(***************************************************************************)
EXTENDS Integers, Sequences, SequencesExt, FiniteSetsExt

CONSTANTS
    Askers,         \* concurrent analyze requests
    MaxDepth,       \* how many ancestors a follow-up's prompt holds
    MaxDiagnoses,   \* bound: answers that are written
    DiskFills,      \* whether a write may stop half way
    NoDiag          \* no diagnosis

ASSUME DoctorAssumption ==
    /\ MaxDepth \in Nat \ {0} /\ MaxDiagnoses \in Nat
    /\ DiskFills \in BOOLEAN
    /\ NoDiag \notin Nat

VARIABLES
    dlog,       \* lines: id, parent, whether the line is readable
    cut,        \* the last line has no newline
    asks,       \* per request: program counter and locals
    written     \* number of appends tried: the next id (UnixNano)

doctorVars == <<dlog, cut, asks, written>>

NotAsking == [pc |-> "idle", parent |-> NoDiag, cur |-> NoDiag, chain |-> <<>>,
              own |-> NoDiag, reply |-> NoDiag]

DoctorInit ==
    /\ dlog = <<>> /\ cut = FALSE /\ written = 0
    /\ asks = [a \in Askers |-> NotAsking]

\* ListDiagnoses, by position: unreadable lines are dropped.
ListDiagnoses == {i \in 1..Len(dlog) : dlog[i].good}
Known == {dlog[i].id : i \in ListDiagnoses}

\* FindDiagnosis, for its parent: the zero value if there is none.
ParentOf(d) ==
    IF d \in Known THEN dlog[CHOOSE i \in ListDiagnoses : dlog[i].id = d].parent ELSE NoDiag

\* The request is validated; the client names a parent it has seen in the
\* history, or none and the prompt is that of a first turn.
DoctorAsked(a) ==
    /\ asks[a].pc = "idle"
    /\ \E p \in Known \cup {NoDiag} :
          asks' = [asks EXCEPT ![a] = [NotAsking EXCEPT !.pc = IF p = NoDiag THEN "calling" ELSE "walk",
                                         !.parent = p, !.cur = p]]
    /\ UNCHANGED <<dlog, cut, written>>

\* One round of the walk from parent to parent, which reads the log anew: the
\* turn found goes in front, and the walk ends after MaxDepth turns or where
\* there is no parent.
WalkParents(a) ==
    /\ asks[a].pc = "walk"
    /\ LET q == asks[a] IN
       asks' = [asks EXCEPT ![a] =
                  IF Len(q.chain) < MaxDepth /\ q.cur \in Known
                  THEN [q EXCEPT !.chain = <<q.cur>> \o @, !.cur = ParentOf(q.cur)]
                  ELSE [q EXCEPT !.pc = "calling", !.cur = NoDiag]]
    /\ UNCHANGED <<dlog, cut, written>>

\* A log that cannot be read fails the request.
LookupFails(a) ==
    /\ asks[a].pc = "walk"
    /\ asks' = [asks EXCEPT ![a] = NotAsking]
    /\ UNCHANGED <<dlog, cut, written>>

\* CallAnthropic answers, or fails and nothing is saved.
ProviderAnswers(a) ==
    /\ asks[a].pc = "calling"
    /\ \/ asks' = [asks EXCEPT ![a].pc = "append"]
       \/ asks' = [asks EXCEPT ![a] = NotAsking]
    /\ UNCHANGED <<dlog, cut, written>>

\* An append whose record misses the parent's id.
AppendUnlinked(line) ==
    /\ dlog' = Append(dlog, [line EXCEPT !.parent = line.id])
    /\ cut' = FALSE

\* The whole line reaches the file; behind a cut line it becomes part of it.
AppendLine(line) ==
    /\ dlog' = IF cut THEN dlog ELSE Append(dlog, line)
    /\ cut' = FALSE

\* A write that stops half way.
AppendPart(line) ==
    /\ dlog' = IF cut THEN dlog ELSE Append(dlog, [line EXCEPT !.good = FALSE])
    /\ cut' = TRUE

\* Open, write and sync: a write may fail before or half way, and the sync
\* may fail when the whole line is there.
AppendDiagnosis(a) ==
    /\ asks[a].pc = "append" /\ written < MaxDiagnoses
    /\ written' = written + 1
    /\ LET line == [id |-> written, parent |-> asks[a].parent, good |-> TRUE] IN
       \/ /\ AppendLine(line)
          /\ asks' = [asks EXCEPT ![a].pc = "refetch", ![a].own = written]
       \/ /\ DiskFills
          /\ AppendPart(line) \/ AppendLine(line) \/ UNCHANGED <<dlog, cut>>
          /\ asks' = [asks EXCEPT ![a] = NotAsking]   \* persist_warning

\* The handler lists the log again to learn the id its entry was given.
Refetch(a) ==
    /\ asks[a].pc = "refetch"
    /\ asks' = [asks EXCEPT ![a].pc = "answered",
                            ![a].reply = IF ListDiagnoses = {} THEN NoDiag
                                         ELSE dlog[Max(ListDiagnoses)].id]
    /\ UNCHANGED <<dlog, cut, written>>

DoctorReplies(a) ==
    /\ asks[a].pc = "answered"
    /\ asks' = [asks EXCEPT ![a] = NotAsking]
    /\ UNCHANGED <<dlog, cut, written>>

DoctorNext ==
    \E a \in Askers : \/ DoctorAsked(a) \/ WalkParents(a) \/ LookupFails(a) \/ ProviderAnswers(a)
                     \/ AppendDiagnosis(a) \/ Refetch(a) \/ DoctorReplies(a)

DoctorSpec == DoctorInit /\ [][DoctorNext]_doctorVars

\* A follow-up's prompt holds its thread without gaps: the turns are listed
\* ones, each the parent of the next, the last one the parent the client
\* named, back to the root or to MaxDepth turns, though the log is read once
\* per turn and others append to it in between (rundoctor_handlers.go:286-303).
PromptThreadWhole ==
    \A a \in Askers : asks[a].parent # NoDiag /\ asks[a].pc # "walk" =>
        LET c == asks[a].chain IN
        /\ c # <<>> /\ Last(c) = asks[a].parent /\ IsInjective(c)
        /\ \A i \in 1..Len(c) - 1 : ParentOf(c[i + 1]) = c[i]
        /\ Len(c) = MaxDepth \/ ParentOf(c[1]) = NoDiag

\* "Re-fetch to get the assigned ID" (rundoctor_handlers.go:425): the reply
\* names the diagnosis this request saved.
ReplyNamesOwn ==
    \A a \in Askers : asks[a].pc = "answered" => asks[a].reply = asks[a].own
=============================================================================

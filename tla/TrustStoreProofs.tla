-------------------------- MODULE TrustStoreProofs --------------------------
(***************************************************************************)
(* For any hosts, keys and concurrent requests, with failing saves, crashes  *)
(* and servers that renew their keys: what the operator accepted is on disk  *)
(* and admits the next dial; and, while probes do not overlap, what was      *)
(* approved stays in known_hosts.                                            *)
(***************************************************************************)
EXTENDS TrustStore, KnownHosts, FiniteSetTheorems, TLAPS

Steps == {"idle", "remove", "dial", "unknown", "leaf", "save", "ok", "refused"}
MaybeKey == Keys \cup {NoKey}

\* Variables and locals have their types.
TrustTypes ==
    /\ trust \in [Hosts -> MaybeKey]
    /\ trustFile \in [Hosts -> MaybeKey]
    /\ consented \in [Hosts -> MaybeKey]
    /\ served \in [Hosts -> Keys]
    /\ storeMu \in Dials \cup {NoKey}
    /\ dial \in [Dials -> [pc : Steps, mode : Modes, leaf : BOOLEAN,
                           host : Hosts \cup {NoKey}, key : MaybeKey]]

\* A request works on a host, and removes before it knows a key.
RequestsFormed ==
    \A d \in Dials : /\ ~DialAt(d, "idle") => dial[d].host \in Hosts
                     /\ DialAt(d, "remove") => dial[d].key = NoKey

\* Whoever saves holds the store's mutex, and memory has what it will write;
\* the consent for its host waits for the save.
SaverHolds ==
    \A d \in Dials : DialAt(d, "save") =>
        /\ storeMu = d
        /\ trust[dial[d].host] = dial[d].key
        /\ consented[dial[d].host] = NoKey

\* Memory agrees with every consent.
ConsentInMemory ==
    \A h \in Hosts : consented[h] # NoKey => trust[h] = consented[h]

\* ConsentOnDisk alone is not inductive: a save for another host writes the
\* whole of memory, and a reboot reads the whole file.
TrustInv ==
    TrustTypes /\ RequestsFormed /\ SaverHolds /\ ConsentInMemory /\ ConsentOnDisk

-----------------------------------------------------------------------------
\* A store without entries and without requests satisfies the invariant.
LEMMA TrustInitInv == ASSUME TrustInit PROVE TrustInv
<1>1. dial = [d \in Dials |-> NoDial] BY DEF TrustInit
<1>2. TrustTypes BY DEF TrustInit, TrustTypes, MaybeKey, NoDial, Modes, Steps
<1>3. \A d \in Dials : DialAt(d, "idle") BY <1>1 DEF DialAt, NoDial
<1>4. RequestsFormed /\ SaverHolds BY <1>3 DEF RequestsFormed, SaverHolds, DialAt
<1>5. ConsentInMemory /\ ConsentOnDisk
  BY DEF TrustInit, ConsentInMemory, ConsentOnDisk
<1> QED BY <1>2, <1>4, <1>5 DEF TrustInv

\* While the mutex is free nobody saves.
LEMMA FreeMeansUnsaved ==
  ASSUME TrustInv, StoreFree
  PROVE  \A d \in Dials : dial[d].pc # "save"
BY TrustAssumption DEF TrustInv, SaverHolds, StoreFree, DialAt, TrustAssumption

\* A step that only moves request d, not into a save and not onto a removal
\* with a key, keeps the invariant.
LEMMA RequestMoves ==
  ASSUME TrustInv, NEW d \in Dials,
         NEW r \in [pc : Steps, mode : Modes, leaf : BOOLEAN,
                    host : Hosts \cup {NoKey}, key : MaybeKey],
         r.pc # "save", r.pc # "idle" => r.host \in Hosts, r.pc = "remove" => r.key = NoKey,
         dial' = [dial EXCEPT ![d] = r],
         UNCHANGED <<trust, trustFile, served, consented>>,
         storeMu' = storeMu \/ DialAt(d, "save"), storeMu' \in Dials \cup {NoKey}
  PROVE  TrustInv'
<1>1. TrustTypes' BY DEF TrustInv, TrustTypes
<1>2. ASSUME NEW e \in Dials PROVE dial'[e] = IF e = d THEN r ELSE dial[e]
  BY DEF TrustInv, TrustTypes
<1>3. RequestsFormed' BY <1>2 DEF TrustInv, RequestsFormed, DialAt
<1>4. SaverHolds'
  <2> SUFFICES ASSUME NEW e \in Dials, DialAt(e, "save")'
               PROVE  /\ storeMu' = e
                      /\ trust'[dial'[e].host] = dial'[e].key
                      /\ consented'[dial'[e].host] = NoKey
    BY DEF SaverHolds
  <2>1. e # d /\ dial'[e] = dial[e] /\ DialAt(e, "save") BY <1>2 DEF DialAt
  <2>2. storeMu = e BY <2>1 DEF TrustInv, SaverHolds
  <2>3. ~DialAt(d, "save") BY <2>1, <2>2 DEF TrustInv, SaverHolds
  <2> QED BY <2>1, <2>2, <2>3 DEF TrustInv, SaverHolds
<1>5. (ConsentInMemory /\ ConsentOnDisk)' BY DEF TrustInv, ConsentInMemory, ConsentOnDisk
<1> QED BY <1>1, <1>3, <1>4, <1>5 DEF TrustInv

\* Locals of a request, as a record.
LEMMA DialTyped ==
  ASSUME TrustInv, NEW d \in Dials
  PROVE  /\ dial[d] \in [pc : Steps, mode : Modes, leaf : BOOLEAN,
                         host : Hosts \cup {NoKey}, key : MaybeKey]
         /\ NoDial \in [pc : Steps, mode : Modes, leaf : BOOLEAN,
                        host : Hosts \cup {NoKey}, key : MaybeKey]
         /\ NoDial.pc = "idle" /\ NoDial.key = NoKey
BY DEF TrustInv, TrustTypes, NoDial, Steps, Modes, MaybeKey

-----------------------------------------------------------------------------
\* Add and Remove change one host in memory, under the mutex, and take its
\* consent back until the save.
LEMMA EntryChanges ==
  ASSUME TrustInv, NEW d \in Dials, StoreFree, ~DialAt(d, "idle"),
         storeMu' = d,
         trust' = [trust EXCEPT ![dial[d].host] = dial[d].key],
         consented' = [consented EXCEPT ![dial[d].host] = NoKey],
         dial' = [dial EXCEPT ![d].pc = "save"],
         UNCHANGED <<trustFile, served>>
  PROVE  TrustInv'
<1>1. dial[d].host \in Hosts /\ dial[d].key \in MaybeKey
  BY DialTyped DEF TrustInv, RequestsFormed
<1>2. TrustTypes' BY <1>1 DEF TrustInv, TrustTypes, MaybeKey, Steps
<1>3. ASSUME NEW e \in Dials
      PROVE  /\ e # d => dial'[e] = dial[e]
             /\ dial'[d].pc = "save" /\ dial'[d].host = dial[d].host /\ dial'[d].key = dial[d].key
  BY DEF TrustInv, TrustTypes
<1>4. RequestsFormed' BY <1>1, <1>3 DEF TrustInv, RequestsFormed, DialAt
<1>5. \A e \in Dials : dial[e].pc # "save" BY FreeMeansUnsaved
<1>6. SaverHolds'
  <2> SUFFICES ASSUME NEW e \in Dials, dial'[e].pc = "save"
               PROVE  /\ storeMu' = e
                      /\ trust'[dial'[e].host] = dial'[e].key
                      /\ consented'[dial'[e].host] = NoKey
    BY DEF SaverHolds, DialAt
  <2>1. e = d BY <1>3, <1>5
  <2> QED BY <1>1, <1>3, <2>1 DEF TrustInv, TrustTypes
<1>7. ConsentInMemory' BY <1>1 DEF TrustInv, TrustTypes, ConsentInMemory
<1>8. ConsentOnDisk' BY <1>1 DEF TrustInv, TrustTypes, ConsentOnDisk
<1> QED BY <1>2, <1>4, <1>6, <1>7, <1>8 DEF TrustInv

\* Store.Add changes memory under the mutex and withdraws the consent it replaces.
LEMMA AddKeeps == ASSUME TrustInv, NEW d \in Dials, StoreAdd(d) PROVE TrustInv'
<1>1. ~DialAt(d, "idle") BY DEF StoreAdd, DialAt
<1> QED BY <1>1, EntryChanges DEF StoreAdd, DialGoes

\* Store.Remove changes memory under the mutex and withdraws the host's consent.
LEMMA RemoveKeeps == ASSUME TrustInv, NEW d \in Dials, StoreRemove(d) PROVE TrustInv'
<1>1. DialAt(d, "remove") /\ StoreFree /\ dial[d].key = NoKey /\ dial[d].host \in Hosts
  BY DEF StoreRemove, TrustInv, RequestsFormed, DialAt
<1>2. CASE trust[dial[d].host] = NoKey
  <2> DEFINE r == IF dial[d].mode = "renew" THEN [dial[d] EXCEPT !.pc = "dial"] ELSE NoDial
  <2>1. dial' = [dial EXCEPT ![d] = r]
    BY <1>2, DialTyped DEF StoreRemove, DialGoes, Replied, TrustInv, TrustTypes
  <2>2. UNCHANGED <<trust, trustFile, served, consented, storeMu>> BY <1>2 DEF StoreRemove
  <2>3. r \in [pc : Steps, mode : Modes, leaf : BOOLEAN, host : Hosts \cup {NoKey}, key : MaybeKey]
    BY DialTyped DEF Steps
  <2>4. r.pc # "save" /\ (r.pc # "idle" => r.host \in Hosts) /\ r.pc # "remove"
    BY <1>1, DialTyped
  <2>5. storeMu' \in Dials \cup {NoKey} BY <2>2 DEF TrustInv, TrustTypes
  <2> QED BY <2>1, <2>2, <2>3, <2>4, <2>5, RequestMoves
<1>3. CASE trust[dial[d].host] # NoKey
  <2>1. /\ trust' = [trust EXCEPT ![dial[d].host] = dial[d].key]
        /\ consented' = [consented EXCEPT ![dial[d].host] = NoKey]
        /\ storeMu' = d /\ dial' = [dial EXCEPT ![d].pc = "save"]
        /\ UNCHANGED <<trustFile, served>>
    BY <1>1, <1>3 DEF StoreRemove, DialGoes
  <2>2. ~DialAt(d, "idle") BY <1>1 DEF DialAt
  <2> QED BY <1>1, <2>1, <2>2, EntryChanges
<1> QED BY <1>2, <1>3

\* The save writes all of memory, which agrees with every consent, and the
\* request's own entry with them.
LEMMA SaveKeeps == ASSUME TrustInv, NEW d \in Dials, SaveLocked(d) PROVE TrustInv'
<1> DEFINE h == dial[d].host
           k == dial[d].key
           r == IF k = NoKey /\ dial[d].mode = "renew" THEN [dial[d] EXCEPT !.pc = "dial"]
                ELSE IF k # NoKey /\ dial[d].leaf
                     THEN [dial[d] EXCEPT !.pc = "leaf", !.leaf = FALSE]
                     ELSE NoDial
<1>1. /\ DialAt(d, "save") /\ storeMu = d /\ trust[h] = k /\ consented[h] = NoKey
      /\ h \in Hosts /\ k \in MaybeKey
  BY DialTyped DEF SaveLocked, TrustInv, SaverHolds, RequestsFormed, DialAt
<1>2. dial' = [dial EXCEPT ![d] = r]
  <2>1. CASE k = NoKey /\ dial[d].mode = "renew"
    BY <2>1, DialTyped DEF SaveLocked, AfterSave, DialGoes, TrustInv, TrustTypes
  <2>2. CASE k # NoKey /\ dial[d].leaf
    BY <2>2, DialTyped DEF SaveLocked, AfterSave, TrustInv, TrustTypes
  <2>3. CASE ~(k = NoKey /\ dial[d].mode = "renew") /\ ~(k # NoKey /\ dial[d].leaf)
    BY <2>3 DEF SaveLocked, AfterSave, Replied
  <2> QED BY <2>1, <2>2, <2>3
<1>3. r \in [pc : Steps, mode : Modes, leaf : BOOLEAN, host : Hosts \cup {NoKey}, key : MaybeKey]
  BY DialTyped DEF Steps
<1>4. r.pc \notin {"save", "remove"} /\ (r.pc # "idle" => r.host \in Hosts)
  BY <1>1, DialTyped
<1>5. /\ trustFile' = trust /\ trust' = trust /\ served' = served /\ storeMu' = NoKey
      /\ consented' = IF k = NoKey THEN consented ELSE [consented EXCEPT ![h] = k]
  BY DEF SaveLocked
<1>6. TrustTypes' BY <1>1, <1>2, <1>3, <1>5 DEF TrustInv, TrustTypes
<1>7. ASSUME NEW e \in Dials PROVE dial'[e] = IF e = d THEN r ELSE dial[e]
  BY <1>2 DEF TrustInv, TrustTypes
<1>8. RequestsFormed' BY <1>4, <1>7 DEF TrustInv, RequestsFormed, DialAt
<1>9. \A e \in Dials : dial'[e].pc # "save"
  BY <1>1, <1>4, <1>7 DEF TrustInv, SaverHolds, DialAt
<1>10. SaverHolds' BY <1>9 DEF SaverHolds, DialAt
<1>11. \A g \in Hosts : consented'[g] # NoKey => trust[g] = consented'[g]
  BY <1>1, <1>5 DEF TrustInv, TrustTypes, ConsentInMemory
<1>12. (ConsentInMemory /\ ConsentOnDisk)'
  BY <1>5, <1>11 DEF ConsentInMemory, ConsentOnDisk
<1> QED BY <1>6, <1>8, <1>10, <1>12 DEF TrustInv

\* A failed save, an answer or a failed login ends the request.
LEMMA EndsKeep ==
  ASSUME TrustInv, NEW d \in Dials, StoreSaveFails(d) \/ DialAnswered(d) \/ LoginFails(d)
  PROVE  TrustInv'
<1>1. dial' = [dial EXCEPT ![d] = NoDial] /\ UNCHANGED <<trust, trustFile, served, consented>>
  BY DEF StoreSaveFails, DialAnswered, LoginFails, Replied
<1>2. /\ storeMu' = storeMu \/ DialAt(d, "save")
      /\ storeMu' \in Dials \cup {NoKey}
  BY DEF StoreSaveFails, DialAnswered, LoginFails, TrustInv, TrustTypes
<1> QED BY <1>1, <1>2, DialTyped, RequestMoves

\* A request that begins holds neither the mutex nor an entry.
LEMMA BeginKeeps == ASSUME TrustInv, NEW d \in Dials, RequestBegins(d) PROVE TrustInv'
<1>1. PICK h \in Hosts, mode \in Modes :
         dial' = [dial EXCEPT ![d] =
              [pc |-> IF mode \in {"renew", "forget"} THEN "remove" ELSE "dial",
               mode |-> mode, leaf |-> mode \in {"tofu", "renew"}, host |-> h, key |-> NoKey]]
  BY DEF RequestBegins
<1> DEFINE r == [pc |-> IF mode \in {"renew", "forget"} THEN "remove" ELSE "dial",
                 mode |-> mode, leaf |-> mode \in {"tofu", "renew"}, host |-> h, key |-> NoKey]
<1>2. r \in [pc : Steps, mode : Modes, leaf : BOOLEAN, host : Hosts \cup {NoKey}, key : MaybeKey]
  BY DEF Steps, MaybeKey
<1>3. r.pc \in {"remove", "dial"} /\ r.host \in Hosts /\ r.key = NoKey OBVIOUS
<1>4. UNCHANGED <<trust, trustFile, storeMu, served, consented>> BY DEF RequestBegins
<1>5. storeMu' \in Dials \cup {NoKey} BY <1>4 DEF TrustInv, TrustTypes
<1> QED BY <1>1, <1>2, <1>3, <1>4, <1>5, RequestMoves

\* Verifying the presented key only reads the store.
LEMMA HandshakeKeeps == ASSUME TrustInv, NEW d \in Dials, Handshake(d) PROVE TrustInv'
<1>1. PICK next \in {"leaf", "ok", "unknown", "refused"} :
         dial' = [dial EXCEPT ![d].key = IF next \in {"ok", "refused"} THEN NoKey
                                         ELSE served[dial[d].host],
                              ![d].pc = next, ![d].leaf = @ /\ next # "leaf"]
  BY DEF Handshake
<1> DEFINE r == [dial[d] EXCEPT !.key = IF next \in {"ok", "refused"} THEN NoKey
                                        ELSE served[dial[d].host],
                                !.pc = next, !.leaf = @ /\ next # "leaf"]
<1>2. dial' = [dial EXCEPT ![d] = r] BY <1>1, DialTyped DEF TrustInv, TrustTypes
<1>3. dial[d].host \in Hosts BY DEF Handshake, DialAt, TrustInv, RequestsFormed
<1>4. r \in [pc : Steps, mode : Modes, leaf : BOOLEAN, host : Hosts \cup {NoKey}, key : MaybeKey]
  BY <1>3, DialTyped DEF Steps, MaybeKey, TrustInv, TrustTypes
<1>5. r.pc \notin {"save", "remove"} /\ r.host \in Hosts BY <1>3, DialTyped
<1>6. UNCHANGED <<trust, trustFile, storeMu, served, consented>> BY DEF Handshake
<1>7. storeMu' \in Dials \cup {NoKey} BY <1>6 DEF TrustInv, TrustTypes
<1> QED BY <1>2, <1>4, <1>5, <1>6, <1>7, RequestMoves

\* A new key on a server touches no store; a reboot reads the file, which
\* agrees with every consent.
LEMMA OutsideKeeps ==
  ASSUME TrustInv, Reopen \/ \E h \in Hosts : Rotate(h)
  PROVE  TrustInv'
<1>1. CASE \E h \in Hosts : Rotate(h)
  <2>1. UNCHANGED <<trust, trustFile, storeMu, dial, consented>> BY <1>1 DEF Rotate
  <2>2. served' \in [Hosts -> Keys] BY <1>1 DEF Rotate, TrustInv, TrustTypes
  <2> QED BY <2>1, <2>2
    DEF TrustInv, TrustTypes, RequestsFormed, SaverHolds, ConsentInMemory, ConsentOnDisk, DialAt
<1>2. CASE Reopen
  <2>1. \A d \in Dials : dial'[d].pc = "idle" BY <1>2 DEF Reopen, NoDial
  <2>2. (RequestsFormed /\ SaverHolds)' BY <2>1 DEF RequestsFormed, SaverHolds, DialAt
  <2>3. TrustTypes'
    BY <1>2 DEF Reopen, TrustInv, TrustTypes, NoDial, Steps, Modes, MaybeKey
  <2>4. (ConsentInMemory /\ ConsentOnDisk)'
    BY <1>2 DEF Reopen, TrustInv, ConsentInMemory, ConsentOnDisk
  <2> QED BY <2>2, <2>3, <2>4 DEF TrustInv
<1> QED BY <1>1, <1>2

\* Every step of requests, saves, reboots and renewals keeps the invariant.
LEMMA TrustStep == ASSUME TrustInv, [TrustNext]_trustVars PROVE TrustInv'
<1>1. CASE UNCHANGED trustVars
  BY <1>1 DEF trustVars, TrustInv, TrustTypes, RequestsFormed, SaverHolds, ConsentInMemory,
              ConsentOnDisk, DialAt
<1>2. ASSUME NEW d \in Dials,
             \/ RequestBegins(d) \/ Handshake(d) \/ StoreAdd(d) \/ StoreRemove(d)
             \/ SaveLocked(d) \/ StoreSaveFails(d) \/ DialAnswered(d) \/ LoginFails(d)
      PROVE  TrustInv'
  BY <1>2, BeginKeeps, HandshakeKeeps, AddKeeps, RemoveKeeps, SaveKeeps, EndsKeep
<1>3. CASE Reopen \/ \E h \in Hosts : Rotate(h) BY <1>3, OutsideKeeps
<1> QED BY <1>1, <1>2, <1>3 DEF TrustNext

-----------------------------------------------------------------------------
\* An accepted key whose save succeeded is in the file, whatever requests for
\* this and other hosts, failing saves and crashes follow (Store.Add, Remove,
\* saveLocked, Open).
THEOREM ConsentDurable == TrustSpec => []ConsentOnDisk
<1>1. TrustInit => TrustInv BY TrustInitInv
<1>2. TrustInv /\ [TrustNext]_trustVars => TrustInv' BY TrustStep
<1>3. TrustInv => ConsentOnDisk BY DEF TrustInv
<1> QED BY <1>1, <1>2, <1>3, PTL DEF TrustSpec

\* Only a handshake refuses, and it refuses what memory does not hold.
LEMMA RefusedUnaccepted ==
  ASSUME TrustInv, [TrustNext]_trustVars, NEW d \in Dials,
         dial[d].pc # "refused", dial'[d].pc = "refused"
  PROVE  consented[dial[d].host] # served[dial[d].host]
<1>1. Handshake(d)
  <2>1. ASSUME NEW e \in Dials, NEW r, r.pc # "refused", dial' = [dial EXCEPT ![e] = r]
        PROVE  FALSE
    BY <2>1 DEF TrustInv, TrustTypes
  <2>2. ASSUME NEW e \in Dials, NEW s \in Steps \ {"refused"}, dial' = [dial EXCEPT ![e].pc = s]
        PROVE  FALSE
    BY <2>2 DEF TrustInv, TrustTypes
  <2>3. NoDial.pc # "refused" BY DEF NoDial
  <2>4. ASSUME NEW e \in Dials, Replied(e) PROVE FALSE BY <2>1, <2>3, <2>4 DEF Replied
  <2>5. ASSUME NEW e \in Dials, StoreAdd(e) PROVE FALSE
    BY <2>2, <2>5 DEF StoreAdd, DialGoes, Steps
  <2>6. ASSUME NEW e \in Dials, StoreRemove(e) PROVE FALSE
    BY <2>2, <2>4, <2>6 DEF StoreRemove, DialGoes, Steps
  <2>7. ASSUME NEW e \in Dials, SaveLocked(e) PROVE FALSE
    <3>1. CASE dial' = [dial EXCEPT ![e].pc = "leaf", ![e].leaf = FALSE]
      BY <3>1 DEF TrustInv, TrustTypes
    <3>2. CASE DialGoes(e, "dial") BY <2>2, <3>2 DEF DialGoes, Steps
    <3> QED BY <2>4, <2>7, <3>1, <3>2 DEF SaveLocked, AfterSave
  <2>8. ASSUME NEW e \in Dials, RequestBegins(e) PROVE FALSE
    BY <2>1, <2>8 DEF RequestBegins
  <2>9. ASSUME NEW e \in Dials, StoreSaveFails(e) \/ DialAnswered(e) \/ LoginFails(e) PROVE FALSE
    BY <2>4, <2>9 DEF StoreSaveFails, DialAnswered, LoginFails
  <2>10. ASSUME NEW e \in Dials, Handshake(e) PROVE e = d
    BY <2>10 DEF Handshake, TrustInv, TrustTypes
  <2>11. ~Reopen BY <2>3 DEF Reopen
  <2>12. ~(UNCHANGED trustVars) BY DEF trustVars
  <2>13. ~(\E h \in Hosts : Rotate(h)) BY DEF Rotate
  <2> QED BY <2>5, <2>6, <2>7, <2>8, <2>9, <2>10, <2>11, <2>12, <2>13 DEF TrustNext
<1>2. dial[d].host \in Hosts BY <1>1 DEF Handshake, DialAt, TrustInv, RequestsFormed
<1>3. SUFFICES ASSUME consented[dial[d].host] = served[dial[d].host] PROVE FALSE
  OBVIOUS
<1>4. served[dial[d].host] \in Keys /\ served[dial[d].host] # NoKey
  BY <1>2, TrustAssumption DEF TrustInv, TrustTypes, TrustAssumption
<1>5. trust[dial[d].host] = served[dial[d].host]
  BY <1>2, <1>3, <1>4 DEF TrustInv, ConsentInMemory
<1>6. Verdict(dial[d].host, served[dial[d].host]) = "match"
  BY <1>4, <1>5 DEF Verdict
<1>7. dial'[d].pc \in {"leaf", "ok"}
  BY <1>1, <1>6 DEF Handshake, TrustInv, TrustTypes
<1> QED BY <1>7

\* An acceptance admits the dials that follow it, across reboots, until the
\* entry is removed or the server presents another key (TOFUCallback,
\* StrictCallback, Verify).
THEOREM ConsentOpens == TrustSpec => ConsentAdmits
<1>1. TrustInit => TrustInv BY TrustInitInv
<1>2. TrustInv /\ [TrustNext]_trustVars => TrustInv' BY TrustStep
<1>3. TrustInv /\ [TrustNext]_trustVars =>
        [\A d \in Dials : (dial[d].pc # "refused" /\ dial'[d].pc = "refused") =>
           consented[dial[d].host] # served[dial[d].host]]_trustVars
  BY RefusedUnaccepted
<1> QED BY <1>1, <1>2, <1>3, PTL DEF TrustSpec, ConsentAdmits

-----------------------------------------------------------------------------
(* The known_hosts file of the probes.                                     *)

ProbeLocals ==
    [pc : {"idle", "remove", "rewrite", "rename", "dial", "append", "login", "install", "answer"},
     host : FileHosts \cup {NoLines}, key : FileKeys \cup {NoLines},
     copy : SUBSET Entries, fresh : BOOLEAN]

(* The lines of a probe in progress: it has a host, and a key to append.   *)
ProbesFormed ==
    /\ lines \subseteq Entries /\ presents \in [FileHosts -> FileKeys]
    /\ probe \in [Probes -> ProbeLocals]
    /\ \A p \in Probes : /\ ~ProbeAt(p, "idle") => probe[p].host \in FileHosts
                         /\ ProbeAt(p, "append") => probe[p].key \in FileKeys

(* Without overlap one probe is in flight, and what it read is what the    *)
(* file holds: its copy, its temporary file, the absence of its host.      *)
FileAsRead ==
    /\ \A p, q \in Probes : p # q => ProbeAt(p, "idle") \/ ProbeAt(q, "idle")
    /\ \A p \in Probes :
         LET kept == lines \ EntriesOf(probe[p].host)
         IN  /\ ProbeAt(p, "rewrite") => probe[p].copy = kept /\ approved \subseteq kept
             /\ ProbeAt(p, "rename") => linesTmp = kept /\ approved \subseteq kept
             /\ ProbeAt(p, "append") => lines \cap EntriesOf(probe[p].host) = {}

(* No host is listed with two keys, and what was approved is listed.       *)
OneEntryEach ==
    /\ approved \subseteq lines
    /\ \A e, f \in lines : e[1] = f[1] => e = f

KnownInv == ~probesOverlapped => ProbesFormed /\ FileAsRead /\ OneEntryEach

(* A step of one probe that changes no line of the file keeps the          *)
(* invariant when what it goes on with is what the file holds.             *)
LEMMA ProbeKeeps ==
  ASSUME ProbesFormed, FileAsRead, OneEntryEach, NEW p \in Probes, NEW t \in ProbeLocals,
         probe' = [probe EXCEPT ![p] = t], UNCHANGED <<lines, presents>>,
         t.pc # "idle" => t.host \in FileHosts /\ \A q \in Probes \ {p} : ProbeAt(q, "idle"),
         t.pc = "append" => t.key \in FileKeys /\ lines \cap EntriesOf(t.host) = {},
         t.pc = "rewrite" => t.copy = lines \ EntriesOf(t.host)
                               /\ approved' \subseteq lines \ EntriesOf(t.host),
         t.pc = "rename" => linesTmp' = lines \ EntriesOf(t.host)
                              /\ approved' \subseteq lines \ EntriesOf(t.host),
         t.pc = "idle" => UNCHANGED linesTmp \/ \A q \in Probes \ {p} : ProbeAt(q, "idle"),
         approved' \subseteq lines,
         approved' \subseteq approved \/ \A q \in Probes \ {p} : ProbeAt(q, "idle")
  PROVE  ProbesFormed' /\ FileAsRead' /\ OneEntryEach'
<1>1. probe'[p] = t /\ \A q \in Probes \ {p} : probe'[q] = probe[q]
  BY DEF ProbesFormed
<1>2. ProbesFormed'
  BY <1>1 DEF ProbesFormed, ProbeAt
<1>3. OneEntryEach'
  BY DEF OneEntryEach
<1>4. FileAsRead'
  <2>1. \A q, r \in Probes : q # r => (ProbeAt(q, "idle") \/ ProbeAt(r, "idle"))'
    BY <1>1 DEF FileAsRead, ProbeAt
  <2>2. EntriesOf(t.host)' = EntriesOf(t.host)
    BY DEF EntriesOf
  <2> QED
    BY <1>1, <2>1 DEF FileAsRead, ProbeAt, EntriesOf
<1> QED
  BY <1>2, <1>3, <1>4

(* The steps of a probe that change the file: the rename of its own        *)
(* temporary file, and the append of an entry for a host that has none.    *)
LEMMA FileSteps ==
  ASSUME ProbesFormed, FileAsRead, OneEntryEach, NEW p \in Probes,
         RemoveRenames(p) \/ AppendEntry(p)
  PROVE  ProbesFormed' /\ FileAsRead' /\ OneEntryEach'
<1>0. probe[p] \in ProbeLocals /\ NoProbe \in ProbeLocals /\ probe[p].host \in FileHosts
  BY DEF ProbesFormed, RemoveRenames, AppendEntry, ProbeAt, NoProbe, ProbeLocals
<1>1. \A q \in Probes \ {p} : ProbeAt(q, "idle")
  BY <1>0 DEF FileAsRead, ProbeAt, RemoveRenames, AppendEntry
<1>2. CASE RemoveRenames(p)
  <2>1. CASE linesTmp = NoLines
    <3>1. /\ probe' = [probe EXCEPT ![p] = NoProbe]
          /\ UNCHANGED <<lines, linesTmp, presents, approved>>
      BY <1>2, <2>1 DEF RemoveRenames, ProbeEnds
    <3>2. NoProbe.pc = "idle"
      BY DEF NoProbe
    <3>3. approved \subseteq lines
      BY DEF OneEntryEach
    <3> QED
      BY <1>0, <1>1, <3>1, <3>2, <3>3, ProbeKeeps
  <2>2. CASE linesTmp # NoLines
    <3> DEFINE t == [probe[p] EXCEPT !.pc = "dial"]
    <3>1. t \in ProbeLocals /\ t.pc = "dial" /\ t.host = probe[p].host
      BY <1>0 DEF ProbeLocals
    <3>2. probe' = [probe EXCEPT ![p] = t] /\ UNCHANGED <<presents, approved>>
      BY <1>2, <2>2 DEF RemoveRenames, ProbeGoes
    <3>3. /\ lines' = lines \ EntriesOf(probe[p].host)
          /\ approved \subseteq lines \ EntriesOf(probe[p].host)
      BY <1>2, <2>2 DEF RemoveRenames, FileAsRead
    <3>4. probe'[p] = t /\ \A q \in Probes \ {p} : probe'[q] = probe[q]
      BY <3>2 DEF ProbesFormed
    <3> HIDE DEF t
    <3>5. ProbesFormed'
      BY <1>0, <3>1, <3>2, <3>3, <3>4 DEF ProbesFormed, ProbeAt
    <3>6. OneEntryEach'
      BY <3>2, <3>3 DEF OneEntryEach
    <3>7. FileAsRead'
      BY <1>1, <3>1, <3>4 DEF FileAsRead, ProbeAt
    <3> QED
      BY <3>5, <3>6, <3>7
  <2> QED
    BY <2>1, <2>2
<1>3. CASE AppendEntry(p)
  <2> DEFINE t == [probe[p] EXCEPT !.pc = "login", !.fresh = TRUE]
             e == <<probe[p].host, probe[p].key>>
  <2>1. t \in ProbeLocals /\ t.pc = "login" /\ t.host = probe[p].host
    BY <1>0 DEF ProbeLocals
  <2>2. /\ probe' = [probe EXCEPT ![p].pc = "login", ![p].fresh = TRUE]
        /\ lines' = lines \cup {e} /\ UNCHANGED <<presents, approved>>
    BY <1>3 DEF AppendEntry
  <2>3. probe' = [probe EXCEPT ![p] = t]
    BY <2>2
  <2>4. probe'[p] = t /\ \A q \in Probes \ {p} : probe'[q] = probe[q]
    BY <2>3 DEF ProbesFormed
  <2>5. e \in Entries /\ e[1] = probe[p].host
    BY <1>0, <1>3 DEF ProbesFormed, AppendEntry, Entries
  <2>6. \A f \in lines : f[1] # probe[p].host
    BY <1>3 DEF FileAsRead, AppendEntry, EntriesOf, ProbesFormed
  <2> HIDE DEF t, e
  <2>7. ProbesFormed'
    BY <1>0, <2>1, <2>2, <2>3, <2>4, <2>5 DEF ProbesFormed, ProbeAt
  <2>8. OneEntryEach'
    BY <2>2, <2>5, <2>6 DEF OneEntryEach
  <2>9. FileAsRead'
    BY <1>1, <2>1, <2>4 DEF FileAsRead, ProbeAt
  <2> QED
    BY <2>7, <2>8, <2>9
<1> QED
  BY <1>2, <1>3

(* The steps of a probe that leave the file alone.                         *)
LEMMA ReadingSteps ==
  ASSUME ProbesFormed, FileAsRead, OneEntryEach, NEW p \in Probes, ~probesOverlapped',
         \/ ProbeBegins(p) \/ RemoveReads(p) \/ RemoveWrites(p) \/ CheckEntry(p)
         \/ LoginRefused(p) \/ LoginAccepted(p) \/ InstallView(p) \/ AnswerOk(p)
  PROVE  ProbesFormed' /\ FileAsRead' /\ OneEntryEach'
<1> DEFINE h == probe[p].host
           Alone == \A q \in Probes \ {p} : ProbeAt(q, "idle")
<1>0. /\ probe[p] \in ProbeLocals /\ NoProbe \in ProbeLocals /\ NoProbe.pc = "idle"
      /\ approved \subseteq lines /\ lines \subseteq Entries
  BY DEF ProbesFormed, NoProbe, ProbeLocals, OneEntryEach
<1>1. probe[p].pc # "idle" => h \in FileHosts /\ Alone
  BY DEF ProbesFormed, FileAsRead, ProbeAt
<1>2. CASE ProbeBegins(p)
  <2>1. PICK g \in FileHosts, pc \in {"remove", "dial"} :
          probe' = [probe EXCEPT ![p].pc = pc, ![p].host = g]
    BY <1>2 DEF ProbeBegins
  <2> DEFINE t == [probe[p] EXCEPT !.pc = pc, !.host = g]
  <2>2. t \in ProbeLocals /\ t.pc \in {"remove", "dial"} /\ t.host = g
    BY <1>0 DEF ProbeLocals
  <2>3. probe' = [probe EXCEPT ![p] = t]
    BY <2>1
  <2>4. Alone /\ UNCHANGED <<lines, linesTmp, presents, approved>>
    BY <1>2 DEF ProbeBegins
  <2> HIDE DEF t
  <2> QED
    BY <1>0, <2>2, <2>3, <2>4, ProbeKeeps
<1>3. CASE RemoveReads(p)
  <2> DEFINE c == lines \ EntriesOf(h)
             t == [probe[p] EXCEPT !.pc = "rewrite", !.copy = c]
  <2>0. c \in SUBSET Entries
    BY <1>0
  <2>1. probe' = [probe EXCEPT ![p].pc = "rewrite", ![p].copy = c] /\ probe[p].pc = "remove"
        /\ approved' = approved \ EntriesOf(h) /\ UNCHANGED <<lines, linesTmp, presents>>
    BY <1>3 DEF RemoveReads, ProbeAt
  <2>3. approved' \subseteq c
    BY <1>0, <2>1
  <2> HIDE DEF c
  <2>2. t \in ProbeLocals /\ t.pc = "rewrite" /\ t.host = h /\ t.copy = c
    BY <1>0, <2>0 DEF ProbeLocals
  <2>4. probe' = [probe EXCEPT ![p] = t]
    BY <2>1
  <2> HIDE DEF t
  <2> QED
    BY <1>0, <1>1, <2>1, <2>2, <2>3, <2>4, ProbeKeeps DEF c
<1>4. CASE RemoveWrites(p)
  <2>0. probe[p].pc = "rewrite" /\ UNCHANGED <<lines, presents, approved>>
    BY <1>4 DEF RemoveWrites, ProbeAt
  <2>1. CASE linesTmp' = probe[p].copy /\ ProbeGoes(p, "rename")
    <3> DEFINE t == [probe[p] EXCEPT !.pc = "rename"]
    <3>1. t \in ProbeLocals /\ t.pc = "rename" /\ t.host = h
      BY <1>0 DEF ProbeLocals
    <3>2. probe' = [probe EXCEPT ![p] = t]
      BY <2>1 DEF ProbeGoes
    <3>3. linesTmp' = lines \ EntriesOf(h) /\ approved \subseteq lines \ EntriesOf(h)
      BY <2>0, <2>1 DEF FileAsRead, ProbeAt
    <3> HIDE DEF t
    <3> QED
      BY <1>0, <1>1, <2>0, <3>1, <3>2, <3>3, ProbeKeeps
  <2>2. CASE probe' = [probe EXCEPT ![p] = NoProbe]
    BY <1>0, <1>1, <2>0, <2>2, ProbeKeeps
  <2> QED
    BY <1>4, <2>1, <2>2 DEF RemoveWrites, ProbeEnds
<1>5. CASE CheckEntry(p)
  <2>0. /\ probe[p].pc = "dial" /\ UNCHANGED <<lines, linesTmp, presents, approved>>
    BY <1>5 DEF CheckEntry, ProbeAt
  <2>1. CASE probe' = [probe EXCEPT ![p] = NoProbe]
    BY <1>0, <1>1, <2>0, <2>1, ProbeKeeps
  <2>2. CASE probe' = [probe EXCEPT ![p].pc = "login"]
    <3> DEFINE t == [probe[p] EXCEPT !.pc = "login"]
    <3>1. t \in ProbeLocals /\ t.pc = "login" /\ t.host = h
      BY <1>0 DEF ProbeLocals
    <3>2. probe' = [probe EXCEPT ![p] = t]
      BY <2>2
    <3> HIDE DEF t
    <3> QED
      BY <1>0, <1>1, <2>0, <3>1, <3>2, ProbeKeeps
  <2>3. CASE /\ probe' = [probe EXCEPT ![p].pc = "append", ![p].key = Presented(p)[2]]
             /\ lines \cap EntriesOf(h) = {}
    <3> DEFINE k == Presented(p)[2]
               t == [probe[p] EXCEPT !.pc = "append", !.key = k]
    <3>0. k \in FileKeys
      BY <1>1, <2>0 DEF Presented, ProbesFormed
    <3>2. probe' = [probe EXCEPT ![p] = t]
      BY <2>3
    <3> HIDE DEF k
    <3>1. t \in ProbeLocals /\ t.pc = "append" /\ t.host = h /\ t.key = k
      BY <1>0, <3>0 DEF ProbeLocals
    <3> HIDE DEF t
    <3> QED
      BY <1>0, <1>1, <2>0, <2>3, <3>0, <3>1, <3>2, ProbeKeeps
  <2> QED
    BY <1>5, <2>1, <2>2, <2>3 DEF CheckEntry, ProbeEnds, ProbeGoes
<1>6. CASE LoginRefused(p)
  BY <1>0, <1>6, ProbeKeeps DEF LoginRefused, ProbeEnds
<1>7. CASE LoginAccepted(p)
  <2> DEFINE pc == IF probe[p].fresh THEN "install" ELSE "answer"
             t == [probe[p] EXCEPT !.pc = pc, !.copy = lines]
  <2>1. pc \in {"install", "answer"}
    OBVIOUS
  <2>2. /\ probe' = [probe EXCEPT ![p].pc = pc, ![p].copy = lines] /\ probe[p].pc = "login"
        /\ UNCHANGED <<lines, linesTmp, presents, approved>>
    BY <1>7 DEF LoginAccepted, ProbeAt
  <2> HIDE DEF pc
  <2>3. t \in ProbeLocals /\ t.pc \in {"install", "answer"} /\ t.host = h
    BY <1>0, <2>1 DEF ProbeLocals
  <2>4. probe' = [probe EXCEPT ![p] = t]
    BY <2>2
  <2> HIDE DEF t
  <2> QED
    BY <1>0, <1>1, <2>2, <2>3, <2>4, ProbeKeeps
<1>8. CASE InstallView(p)
  <2> DEFINE t == [probe[p] EXCEPT !.pc = "answer"]
  <2>1. t \in ProbeLocals /\ t.pc = "answer" /\ t.host = h
    BY <1>0 DEF ProbeLocals
  <2>2. /\ probe' = [probe EXCEPT ![p] = t] /\ probe[p].pc = "install"
        /\ UNCHANGED <<lines, linesTmp, presents, approved>>
    BY <1>8 DEF InstallView, ProbeGoes, ProbeAt
  <2> HIDE DEF t
  <2> QED
    BY <1>0, <1>1, <2>1, <2>2, ProbeKeeps
<1>9. CASE AnswerOk(p)
  <2>1. /\ probe[p].pc = "answer" /\ probe' = [probe EXCEPT ![p] = NoProbe]
        /\ approved' = approved \cup (lines \cap {Presented(p)})
        /\ UNCHANGED <<lines, linesTmp, presents>>
    BY <1>9 DEF AnswerOk, ProbeEnds, ProbeAt
  <2>2. approved' \subseteq lines
    BY <1>0, <2>1
  <2> QED
    BY <1>0, <1>1, <2>1, <2>2, ProbeKeeps
<1> QED
  BY <1>2, <1>3, <1>4, <1>5, <1>6, <1>7, <1>8, <1>9

(* The file of trusted keys keeps its inductive invariant.                 *)
THEOREM KnownInvariant == KnownSpec => []KnownInv
<1>1. KnownInit => KnownInv
  <2>1. NoProbe \in ProbeLocals /\ NoProbe.pc = "idle"
    BY DEF NoProbe, ProbeLocals
  <2> QED
    BY <2>1 DEF KnownInit, KnownInv, ProbesFormed, FileAsRead, OneEntryEach, ProbeAt
<1>2. KnownInv /\ [KnownNext]_khVars => KnownInv'
  <2> SUFFICES ASSUME KnownInv, [KnownNext]_khVars, ~probesOverlapped'
               PROVE  ProbesFormed' /\ FileAsRead' /\ OneEntryEach'
    BY DEF KnownInv
  <2>1. ~probesOverlapped
    BY DEF KnownNext, ProbeBegins, RemoveReads, RemoveWrites, RemoveRenames, CheckEntry,
       AppendEntry, LoginRefused, LoginAccepted, InstallView, AnswerOk, Renewed, khVars
  <2>2. ProbesFormed /\ FileAsRead /\ OneEntryEach
    BY <2>1 DEF KnownInv
  <2>3. ASSUME NEW h \in FileHosts, Renewed(h)
        PROVE  ProbesFormed' /\ FileAsRead' /\ OneEntryEach'
    <3>1. presents' \in [FileHosts -> FileKeys] /\ UNCHANGED <<lines, linesTmp, probe, approved>>
      BY <2>2, <2>3 DEF Renewed, ProbesFormed
    <3> QED
      BY <2>2, <3>1 DEF ProbesFormed, FileAsRead, OneEntryEach, ProbeAt
  <2>4. CASE UNCHANGED khVars
    BY <2>2, <2>4 DEF khVars, ProbesFormed, FileAsRead, OneEntryEach, ProbeAt
  <2> QED
    BY <2>2, <2>3, <2>4, FileSteps, ReadingSteps DEF KnownNext
<1> QED
  BY <1>1, <1>2, PTL DEF KnownSpec

(* As long as probes come one after the other, what the operator approved  *)
(* stays in known_hosts and no host has two keys, for any hosts and keys.  *)
THEOREM SoloProbes == KnownSpec => []SoloProbesKeepTrust
<1>1. KnownInv => SoloProbesKeepTrust
  <2> SUFFICES ASSUME KnownInv, ~probesOverlapped PROVE SoloProbesKeepTrust
    BY DEF SoloProbesKeepTrust
  <2>1. OneEntryEach
    BY DEF KnownInv
  <2>2. ASSUME NEW h \in FileHosts PROVE Cardinality(lines \cap EntriesOf(h)) <= 1
    <3>1. CASE lines \cap EntriesOf(h) = {}
      <4>1. Cardinality(lines \cap EntriesOf(h)) = 0
        BY <3>1, FS_EmptySet
      <4> QED
        BY <4>1
    <3>2. CASE lines \cap EntriesOf(h) # {}
      <4>1. PICK e \in lines : e \in EntriesOf(h)
        BY <3>2
      <4>2. lines \cap EntriesOf(h) = {e}
        BY <2>1, <4>1 DEF OneEntryEach, EntriesOf
      <4>3. Cardinality({e}) = 1
        BY FS_Singleton
      <4> QED
        BY <4>2, <4>3
    <3> QED
      BY <3>1, <3>2
  <2> QED
    BY <2>1, <2>2 DEF OneEntryEach, SoloProbesKeepTrust
<1> QED
  BY <1>1, KnownInvariant, PTL
=============================================================================

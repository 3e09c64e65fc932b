----------------------------- MODULE TrustStore -----------------------------
(***************************************************************************)
(* The trust stores of SSH host keys (internal/hostkeys/store.go) and FTPS  *)
(* leaf certificates (tlsstore.go), the dial callbacks that read and write  *)
(* them (callbacks.go, protocol.go) and the probe, preflight and removal    *)
(* handlers of web.go.  The two stores differ only in what they compare;    *)
(* one instance stands for either.                                          *)
(*                                                                         *)
(* Verify and Add take the store's mutex one after the other, so two first  *)
(* dials of a host may both find it unknown; an FTPS probe adds the leaf     *)
(* once more after the dial, whatever the store holds by then.              *)
(***************************************************************************)
EXTENDS Integers, FiniteSets

CONSTANTS
    Hosts, Keys,    \* (host, port) entries; host keys or leaf certificates
    Dials,          \* concurrent probes, preflights, runs and removals
    MaxRotations,   \* bound: times a server renews its key
    TrustFaults,    \* which of "save", "crash" happen
    NoKey           \* no entry

ASSUME TrustAssumption ==
    /\ MaxRotations \in Nat /\ TrustFaults \subseteq {"save", "crash"}
    /\ NoKey \notin Keys \cup Dials

VARIABLES
    trust,          \* Store.entries: host -> trusted key
    trustFile,      \* the file the store was opened from
    storeMu,        \* who holds Store.mu for writing
    served,         \* the key each server presents now
    dial,           \* per dial: program counter and locals
    rotations,      \* counter of the bound
    consented       \* per host: the key of the last Add whose save succeeded

trustVars == <<trust, trustFile, storeMu, served, dial, rotations, consented>>

Modes == {"strict", "tofu", "renew", "skip", "forget"}

NoDial == [pc |-> "idle", mode |-> "strict", leaf |-> FALSE, host |-> NoKey, key |-> NoKey]

TrustInit ==
    /\ trust = [h \in Hosts |-> NoKey] /\ trustFile = trust
    /\ storeMu = NoKey
    /\ served \in [Hosts -> Keys]
    /\ dial = [d \in Dials |-> NoDial]
    /\ rotations = 0
    /\ consented = [h \in Hosts |-> NoKey]

DialAt(d, pc) == dial[d].pc = pc
DialGoes(d, pc) == dial' = [dial EXCEPT ![d].pc = pc]
Replied(d) == dial' = [dial EXCEPT ![d] = NoDial]
StoreFree == storeMu = NoKey

-----------------------------------------------------------------------------
(* saveLocked, under the mutex: the temporary file is written and renamed    *)
(* over the store, so that a crash leaves the file as it was before.         *)

\* What the caller of Add or Remove does next: a renewal dials, an FTPS probe
\* adds its leaf, the others reply.
AfterSave(d) ==
    CASE dial[d].key = NoKey /\ dial[d].mode = "renew" -> DialGoes(d, "dial")
      [] dial[d].key # NoKey /\ dial[d].leaf ->
           dial' = [dial EXCEPT ![d].pc = "leaf", ![d].leaf = FALSE]
      [] OTHER -> Replied(d)

SaveLocked(d) ==
    /\ DialAt(d, "save")
    /\ trustFile' = trust
    /\ storeMu' = NoKey
    /\ consented' = IF dial[d].key = NoKey THEN consented
                    ELSE [consented EXCEPT ![dial[d].host] = dial[d].key]
    /\ AfterSave(d)
    /\ UNCHANGED <<trust, served, rotations>>

\* The write, sync or rename fails: the error is returned, the entry stays in
\* memory.  Every caller replies, the probe's late Add only logs.
StoreSaveFails(d) ==
    /\ "save" \in TrustFaults
    /\ DialAt(d, "save")
    /\ storeMu' = NoKey
    /\ Replied(d)
    /\ UNCHANGED <<trust, trustFile, served, rotations, consented>>

\* An Add that answers without saving.
AddOnlyInMemory(d) ==
    /\ dial[d].pc \in {"unknown", "leaf"} /\ StoreFree
    /\ trust' = [trust EXCEPT ![dial[d].host] = dial[d].key]
    /\ consented' = [consented EXCEPT ![dial[d].host] = dial[d].key]
    /\ Replied(d)
    /\ UNCHANGED <<trustFile, storeMu, served, rotations>>

\* Store.Add: the entry is replaced whatever it was, then saved.
StoreAdd(d) ==
    /\ dial[d].pc \in {"unknown", "leaf"} /\ StoreFree
    /\ storeMu' = d
    /\ trust' = [trust EXCEPT ![dial[d].host] = dial[d].key]
    /\ consented' = [consented EXCEPT ![dial[d].host] = NoKey]
    /\ DialGoes(d, "save")
    /\ UNCHANGED <<trustFile, served, rotations>>

\* Store.Remove: nothing to save when there is no entry.
StoreRemove(d) ==
    /\ DialAt(d, "remove") /\ StoreFree
    /\ UNCHANGED <<trustFile, served, rotations>>
    /\ IF trust[dial[d].host] = NoKey
       THEN /\ IF dial[d].mode = "renew" THEN DialGoes(d, "dial") ELSE Replied(d)
            /\ UNCHANGED <<trust, storeMu, consented>>
       ELSE /\ trust' = [trust EXCEPT ![dial[d].host] = NoKey]
            /\ consented' = [consented EXCEPT ![dial[d].host] = NoKey]
            /\ storeMu' = d
            /\ DialGoes(d, "save")

-----------------------------------------------------------------------------
(* The requests.                                                            *)

\* A run, a preflight or a probe without consent dials strictly (CaptureCallback
\* refuses as StrictCallback does), a probe trusts on first use or renews, an
\* FTPS probe may skip verification, the UI forgets a host.
RequestBegins(d) ==
    /\ DialAt(d, "idle")
    /\ \E h \in Hosts, mode \in Modes :
         dial' = [dial EXCEPT ![d] =
              [pc |-> IF mode \in {"renew", "forget"} THEN "remove" ELSE "dial",
               mode |-> mode, leaf |-> mode \in {"tofu", "renew"}, host |-> h, key |-> NoKey]]
    /\ UNCHANGED <<trust, trustFile, storeMu, served, rotations, consented>>

\* A Verify that looks entries up by port alone.
VerdictByPort(h, k) ==
    IF trust[h] = NoKey THEN "unknown"
    ELSE IF \A g \in Hosts : trust[g] \in {NoKey, k} THEN "match" ELSE "changed"

\* What Verify answers for the key presented.
Verdict(h, k) == IF trust[h] = NoKey THEN "unknown" ELSE IF trust[h] = k THEN "match" ELSE "changed"

\* The handshake: the callback verifies; on an unknown host the
\* trust-on-first-use callback goes on to Add; skip does not look.
Handshake(d) ==
    /\ DialAt(d, "dial") /\ StoreFree
    /\ LET h == dial[d].host
           k == served[h]
           next == CASE dial[d].mode = "skip" -> "leaf"
                     [] dial[d].mode # "skip" /\ Verdict(h, k) = "match" ->
                          IF dial[d].leaf THEN "leaf" ELSE "ok"
                     [] dial[d].mode \in {"tofu", "renew"} /\ Verdict(h, k) = "unknown" -> "unknown"
                     [] OTHER -> "refused"
       IN dial' = [dial EXCEPT ![d].key = IF next \in {"ok", "refused"} THEN NoKey ELSE k,
                               ![d].pc = next,
                               ![d].leaf = @ /\ next # "leaf"]
    /\ UNCHANGED <<trust, trustFile, storeMu, served, rotations, consented>>

\* The answer, with requires_consent or requires_renewal when refused.
DialAnswered(d) ==
    /\ dial[d].pc \in {"ok", "refused"}
    /\ Replied(d)
    /\ UNCHANGED <<trust, trustFile, storeMu, served, rotations, consented>>

\* No leaf is added: the host is an SSH one, the login after an accepted
\* handshake failed, or a probe that skips was not asked to trust.  A pin the
\* callback made stays.
LoginFails(d) ==
    /\ dial[d].pc \in {"ok", "leaf"}
    /\ Replied(d)
    /\ UNCHANGED <<trust, trustFile, storeMu, served, rotations, consented>>

\* The server's operator installs another key.  External.
Rotate(h) ==
    /\ rotations < MaxRotations /\ rotations' = rotations + 1
    /\ \E k \in Keys \ {served[h]} : served' = [served EXCEPT ![h] = k]
    /\ UNCHANGED <<trust, trustFile, storeMu, dial, consented>>

\* The process dies and boots: Open reads the file.
Reopen ==
    /\ "crash" \in TrustFaults /\ rotations < MaxRotations /\ rotations' = rotations + 1
    /\ trust' = trustFile
    /\ storeMu' = NoKey
    /\ dial' = [d \in Dials |-> NoDial]
    /\ UNCHANGED <<trustFile, served, consented>>

TrustNext ==
    \/ \E d \in Dials :
         \/ RequestBegins(d) \/ Handshake(d) \/ StoreAdd(d) \/ StoreRemove(d)
         \/ SaveLocked(d) \/ StoreSaveFails(d) \/ DialAnswered(d) \/ LoginFails(d)
    \/ \E h \in Hosts : Rotate(h)
    \/ Reopen

TrustSpec == TrustInit /\ [][TrustNext]_trustVars

-----------------------------------------------------------------------------
(* Properties.                                                              *)

\* A key the operator accepted and whose save succeeded is in the file, and
\* is what a reboot would load, until the host is removed or accepted anew,
\* whatever other hosts' saves fail or overlap (store.go:174-259).
ConsentOnDisk ==
    \A h \in Hosts : consented[h] # NoKey => trustFile[h] = consented[h]

\* A dial is refused only if the last accepted key of the host is not the one
\* the server presented: an acceptance unlocks the run that follows it, also
\* across a reboot (callbacks.go:39-66, store.go:141-169).
ConsentAdmits ==
    [][\A d \in Dials : (dial[d].pc # "refused" /\ dial'[d].pc = "refused") =>
         consented[dial[d].host] # served[dial[d].host]]_trustVars

\* "a 'trust any cert' gate weaker than the store, so the store has no role
\* there" (web.go:652-654): a probe that skips verification leaves the store
\* as it is.
SkipLeavesStore ==
    [][\A d \in Dials : dial[d].mode = "skip" /\ dial'[d].pc = "save" => trust' = trust]_trustVars

\* "on a key-changed mismatch refuses with ErrKeyChanged (no auto-fix)"
\* (callbacks.go:33): a trusted key is replaced only through a removal.
NoSilentReplacement ==
    [][\A h \in Hosts : trust[h] # NoKey /\ trust'[h] # NoKey => trust'[h] = trust[h]]_trustVars
=============================================================================

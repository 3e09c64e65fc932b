------------------------------- MODULE Vault -------------------------------
(***************************************************************************)
(* The encrypted secret vault (internal/vault/vault.go), the binder and     *)
(* handlers around it (internal/web/vault_handlers.go, the AI-key form of   *)
(* rundoctor_handlers.go) and the bulk migration of schedule credentials    *)
(* (internal/web/vault_migrate.go).                                         *)
(*                                                                         *)
(* A handler takes the bound Vault once and then works on it without the    *)
(* binder's mutex, while a lock, an unlock or the idle sweep replaces and   *)
(* closes it.  Each Vault serialises its own operations; two Vaults of the  *)
(* same file share the temporary file of Save.                              *)
(***************************************************************************)
EXTENDS Integers, Sequences, FiniteSets, FiniteSetsExt

CONSTANTS
    Refs,           \* secret references
    Passes,         \* passphrases
    Clients,        \* concurrent requests
    VaultOps,       \* what the clients ask for
    IdleSweep,      \* whether SetVaultIdleTimeout started the sweeper
    MaxRequests,    \* bound: requests
    VaultFaults,    \* which of "save", "crash" happen
    Nothing         \* no vault, no passphrase, no file

AllVaultOps == {"unlock", "lock", "set", "configure", "delete", "change", "migrate"}

ASSUME VaultAssumption ==
    /\ VaultOps \subseteq AllVaultOps
    /\ IdleSweep \in BOOLEAN /\ MaxRequests \in Nat
    /\ VaultFaults \subseteq {"save", "crash"}
    /\ Nothing \notin Passes /\ Nothing \notin [pass : Passes, secrets : SUBSET Refs]

VARIABLES
    vaults,         \* every Vault opened: pass (Nothing once closed), secrets
    bound,          \* vaultBinder.v: an index of vaults, 0 when locked
    vfile, vtmp,    \* secrets.vault and its ".tmp"; a file has an inode
    inodes,         \* inode -> contents: pass, secrets, or Nothing if cut
    sweeping,       \* the sweep found the vault idle, has not cleared it yet
    req,            \* per client: program counter and locals
    requests,       \* counter of the bound
    credentials,    \* per ref: how the schedule file holds it
    stored, removed,\* secrets acknowledged as stored; ever asked to be deleted
    hazard          \* the two windows: two Vaults in use; a Vault closed under a call

vaultVars == <<vaults, bound, vfile, vtmp, inodes, sweeping, req, requests,
               credentials, stored, removed, hazard>>
vaultFiles == <<vfile, vtmp, inodes>>

NoRequest == [pc |-> "idle", op |-> "none", v |-> 0, todo |-> {}, sets |-> {},
              pass |-> Nothing, content |-> Nothing, inode |-> 0]

VaultInit ==
    /\ vaults = <<>> /\ bound = 0
    /\ vfile = 0 /\ vtmp = 0 /\ inodes = <<>>
    /\ sweeping = FALSE
    /\ req = [c \in Clients |-> NoRequest]
    /\ requests = 0
    /\ credentials = [r \in Refs |-> "plain"]
    /\ stored = {} /\ removed = {} /\ hazard = {}

Closed(v) == vaults[v].pass = Nothing
InUse == {v \in 1..Len(vaults) : ~Closed(v) /\ (bound = v \/ \E c \in Clients : req[c].v = v)}
Contents(i) == IF i = 0 THEN Nothing ELSE inodes[i]

\* Save holds the Vault's mutex from its first line to its last.
Saving(v) == \E c \in Clients : req[c].v = v /\ req[c].pc \in {"write", "rename"}
Owns(c) == req[c].v # 0 /\ ~Saving(req[c].v)

ReqEnds(c) == req' = [req EXCEPT ![c] = NoRequest]
ReqGoes(c, pc) == req' = [req EXCEPT ![c].pc = pc]

\* vaultBinder.set: the pointer is swapped and the old vault is closed.
Bind(v) ==
    /\ bound' = v
    /\ vaults' = IF bound = 0 THEN vaults
                 ELSE [vaults EXCEPT ![bound] = [pass |-> Nothing, secrets |-> {}]]

(***************************************************************************)
(* Requests.                                                                *)
(***************************************************************************)
\* A client's next request: the first step of its handler.
Asks(c, op, locals) ==
    /\ op \in VaultOps /\ req[c].pc = "idle" /\ requests < MaxRequests
    /\ requests' = requests + 1
    /\ req' = [req EXCEPT ![c] = locals]
    /\ UNCHANGED <<vaults, bound, vaultFiles, sweeping, credentials, stored, removed, hazard>>

\* vaultBinder.get at the head of a handler: a locked vault answers 403.
OnBound(op, refs, sets) ==
    [NoRequest EXCEPT !.pc = "mutate", !.op = op, !.v = bound, !.todo = refs, !.sets = sets]

SetAsked(c, r) == bound # 0 /\ Asks(c, "set", OnBound("set", {r}, {r}))

\* The AI-key form stores provider, key and model before it saves.
ConfigureAsked(c) == bound # 0 /\ Asks(c, "configure", OnBound("set", Refs, Refs))

DeleteAsked(c, r) == bound # 0 /\ Asks(c, "delete", OnBound("delete", {r}, {}))

ChangeAsked(c, p) ==
    bound # 0 /\ Asks(c, "change", [OnBound("change", {}, {}) EXCEPT !.pass = p])

\* The credentials schedules still hold in clear; without one nothing is saved.
Candidates == {r \in Refs : credentials[r] = "plain"}

MigrateAsked(c) ==
    bound # 0 /\ Candidates # {} /\ Asks(c, "migrate", OnBound("migrate", Candidates, {}))

UnlockAsked(c, p) ==
    Asks(c, "unlock", [NoRequest EXCEPT !.pc = "open", !.op = "unlock", !.pass = p])

LockAsked(c) == Asks(c, "lock", [NoRequest EXCEPT !.pc = "clear", !.op = "lock"])

\* handleVaultLock.
LockVault(c) ==
    /\ req[c].pc = "clear"
    /\ bound # 0 => ~Saving(bound)     \* Close waits for the Vault's mutex
    /\ Bind(0) /\ ReqEnds(c)
    /\ UNCHANGED <<vaultFiles, sweeping, requests, credentials, stored, removed, hazard>>

\* The idle sweep: shouldAutoLock under the mutex, then clear.
SweepFindsIdle ==
    /\ IdleSweep /\ bound # 0 /\ ~sweeping
    /\ sweeping' = TRUE
    /\ UNCHANGED <<vaults, bound, vaultFiles, req, requests, credentials, stored, removed, hazard>>

SweepClears ==
    /\ sweeping /\ (bound # 0 => ~Saving(bound))
    /\ sweeping' = FALSE
    /\ Bind(0)
    /\ UNCHANGED <<vaultFiles, req, requests, credentials, stored, removed, hazard>>

\* Vault.Open decrypts with the passphrase; Vault.Create starts empty.  The
\* file is looked at once by the handler's stat and Create's own.
OpenVault(c) ==
    /\ req[c].pc = "open"
    /\ LET file == Contents(vfile) IN
       \/ /\ file # Nothing /\ file.pass = req[c].pass
          /\ vaults' = Append(vaults, file)
          /\ req' = [req EXCEPT ![c].pc = "bind", ![c].v = Len(vaults) + 1]
       \/ /\ vfile # 0 /\ (file # Nothing => file.pass # req[c].pass)
          /\ ReqEnds(c) /\ UNCHANGED vaults
       \/ /\ vfile = 0
          /\ vaults' = Append(vaults, [pass |-> req[c].pass, secrets |-> {}])
          /\ req' = [req EXCEPT ![c].pc = "save", ![c].v = Len(vaults) + 1]
    /\ hazard' = IF InUse # {} THEN hazard \cup {"two vaults"} ELSE hazard
    /\ UNCHANGED <<bound, vaultFiles, sweeping, requests, credentials, stored, removed>>

BindVault(c) ==
    /\ req[c].pc = "bind" /\ (bound # 0 => ~Saving(bound))
    /\ Bind(req[c].v) /\ ReqEnds(c)
    /\ UNCHANGED <<vaultFiles, sweeping, requests, credentials, stored, removed, hazard>>

\* Set and Delete change the map; they do so on a closed Vault as well.
MutateOne(c, r) ==
    /\ req[c].pc = "mutate" /\ req[c].op # "migrate" /\ r \in req[c].todo /\ Owns(c)
    /\ vaults' = [vaults EXCEPT ![req[c].v].secrets =
                     IF req[c].op = "delete" THEN @ \ {r} ELSE @ \cup {r}]
    /\ removed' = IF req[c].op = "delete" THEN removed \cup {r} ELSE removed
    /\ req' = [req EXCEPT ![c].todo = @ \ {r}]
    /\ UNCHANGED <<bound, vaultFiles, sweeping, requests, credentials, stored, hazard>>

\* The migration sets the secret and rewrites the schedule file with the
\* marker, schedule by schedule; a schedule that cannot be saved keeps its
\* credential in clear.  The vault is saved after the last.
MigrateOne(c, r) ==
    /\ req[c].pc = "mutate" /\ req[c].op = "migrate" /\ r \in req[c].todo /\ Owns(c)
    /\ vaults' = [vaults EXCEPT ![req[c].v].secrets = @ \cup {r}]
    /\ \/ credentials' = [credentials EXCEPT ![r] = "marker"]
       \/ "save" \in VaultFaults /\ UNCHANGED credentials
    /\ req' = [req EXCEPT ![c].todo = @ \ {r}]
    /\ UNCHANGED <<bound, vaultFiles, sweeping, requests, stored, removed, hazard>>

\* ChangePassphrase swaps the key and then saves, whether or not the Vault
\* was closed in between.
SwapPass(c) ==
    /\ req[c].pc = "mutate" /\ req[c].op = "change" /\ Owns(c)
    /\ vaults' = [vaults EXCEPT ![req[c].v].pass = req[c].pass]
    /\ hazard' = IF Closed(req[c].v) THEN hazard \cup {"changed while closed"} ELSE hazard
    /\ ReqGoes(c, "save")
    /\ UNCHANGED <<bound, vaultFiles, sweeping, requests, credentials, stored, removed>>

MutationsDone(c) ==
    /\ req[c].pc = "mutate" /\ req[c].op # "change" /\ req[c].todo = {}
    /\ ReqGoes(c, "save")
    /\ UNCHANGED <<vaults, bound, vaultFiles, sweeping, requests, credentials, stored, removed, hazard>>

(***************************************************************************)
(* Save: a fixed temporary name, truncated, written, synced and renamed.    *)
(***************************************************************************)
\* The reply to a request whose Save returned.
Succeed(c) ==
    /\ stored' = stored \cup req[c].sets
    /\ IF req[c].op = "unlock" THEN ReqGoes(c, "bind") ELSE ReqEnds(c)

\* A closed Vault has no passphrase and cannot be saved; nor can any other
\* when the temporary file does not open.
SaveRefused(c) ==
    /\ req[c].pc = "save" /\ Owns(c)
    /\ Closed(req[c].v) \/ "save" \in VaultFaults
    /\ ReqEnds(c)
    /\ UNCHANGED <<vaults, bound, vaultFiles, sweeping, requests, credentials, stored, removed, hazard>>

\* A Save that writes secrets.vault in place.
SaveInPlace(c) ==
    /\ req[c].pc = "save" /\ Owns(c) /\ ~Closed(req[c].v)
    /\ IF vfile = 0
       THEN inodes' = Append(inodes, Nothing) /\ vfile' = Len(inodes) + 1
       ELSE inodes' = [inodes EXCEPT ![vfile] = Nothing] /\ UNCHANGED vfile
    /\ req' = [req EXCEPT ![c].pc = "write", ![c].inode = vfile', ![c].content = vaults[req[c].v]]
    /\ UNCHANGED <<vaults, bound, vtmp, sweeping, requests, credentials, stored, removed, hazard>>

\* A Save without the check for a closed Vault.
SaveThoughClosed(c) ==
    /\ req[c].pc = "save" /\ Owns(c)
    /\ IF vtmp = 0
       THEN inodes' = Append(inodes, Nothing) /\ vtmp' = Len(inodes) + 1
       ELSE inodes' = [inodes EXCEPT ![vtmp] = Nothing] /\ UNCHANGED vtmp
    /\ req' = [req EXCEPT ![c].pc = "write", ![c].inode = vtmp', ![c].content = vaults[req[c].v]]
    /\ UNCHANGED <<vaults, bound, vfile, sweeping, requests, credentials, stored, removed, hazard>>

SaveOpens(c) ==
    /\ req[c].pc = "save" /\ Owns(c) /\ ~Closed(req[c].v)
    /\ IF vtmp = 0
       THEN inodes' = Append(inodes, Nothing) /\ vtmp' = Len(inodes) + 1
       ELSE inodes' = [inodes EXCEPT ![vtmp] = Nothing] /\ UNCHANGED vtmp
    /\ req' = [req EXCEPT ![c].pc = "write", ![c].inode = vtmp', ![c].content = vaults[req[c].v]]
    /\ UNCHANGED <<vaults, bound, vfile, sweeping, requests, credentials, stored, removed, hazard>>

SaveWrites(c) ==
    /\ req[c].pc = "write"
    /\ inodes' = [inodes EXCEPT ![req[c].inode] = req[c].content]
    /\ ReqGoes(c, "rename")
    /\ UNCHANGED <<vaults, bound, vfile, vtmp, sweeping, requests, credentials, stored, removed, hazard>>

\* The write or the sync fails and the temporary file is removed, or the
\* rename fails and the file stays.  The migration ignores the error.
VaultSaveFails(c) ==
    /\ "save" \in VaultFaults
    /\ \/ req[c].pc = "write" /\ vtmp' = 0
       \/ req[c].pc = "rename" /\ UNCHANGED vtmp
    /\ ReqEnds(c)
    /\ UNCHANGED <<vaults, bound, vfile, inodes, sweeping, requests, credentials, stored, removed, hazard>>

SaveRenames(c) ==
    /\ req[c].pc = "rename"
    /\ \/ /\ vtmp # 0
          /\ vfile' = vtmp /\ vtmp' = 0
          /\ Succeed(c)
       \/ /\ vtmp = 0               \* another Vault's Save renamed it
          /\ ReqEnds(c) /\ UNCHANGED <<vfile, vtmp, stored>>
    /\ UNCHANGED <<vaults, bound, inodes, sweeping, requests, credentials, removed, hazard>>

\* The process dies: memory is gone, the files stay.
VaultCrash ==
    /\ "crash" \in VaultFaults /\ vaults # <<>>
    /\ vaults' = <<>> /\ bound' = 0 /\ sweeping' = FALSE
    /\ req' = [c \in Clients |-> NoRequest]
    /\ UNCHANGED <<vaultFiles, requests, credentials, stored, removed, hazard>>

VaultNext ==
    \/ \E c \in Clients :
          \/ ConfigureAsked(c) \/ MigrateAsked(c) \/ LockAsked(c)
          \/ \E p \in Passes : ChangeAsked(c, p) \/ UnlockAsked(c, p)
          \/ \E r \in Refs : SetAsked(c, r) \/ DeleteAsked(c, r) \/ MutateOne(c, r) \/ MigrateOne(c, r)
          \/ LockVault(c) \/ OpenVault(c) \/ BindVault(c)
          \/ SwapPass(c) \/ MutationsDone(c)
          \/ SaveRefused(c) \/ SaveOpens(c) \/ SaveWrites(c) \/ VaultSaveFails(c) \/ SaveRenames(c)
    \/ SweepFindsIdle \/ SweepClears \/ VaultCrash

VaultSpec == VaultInit /\ [][VaultNext]_vaultVars

(***************************************************************************)
(* Properties.                                                              *)
(***************************************************************************)
\* A secret whose Set was acknowledged and that nobody asked to delete is in
\* the file, whatever locks, idle sweeps, failed saves, other requests and
\* deaths of the process came after it (vault.go:293).  The two windows the
\* code leaves open are excluded by name: an unlock while another Vault is
\* in use, and a passphrase change on a Vault that was closed under it.
StoredSecretsDurable ==
    hazard = {} =>
        \/ stored \ removed = {}
        \/ Contents(vfile) # Nothing /\ stored \ removed \subseteq Contents(vfile).secrets

\* "Atomic write ... Crash-safe" (vault.go:293): at no moment is the vault
\* file cut, so a process that dies finds a vault it can open.
FileAlwaysWhole == (hazard = {} /\ vfile # 0) => Contents(vfile) # Nothing

\* "Callers should hold a single Vault per process and serialise Save()
\* through it" (vault.go:104-105).
SingleVault == Cardinality(InUse) <= 1

\* "re-encrypts the vault under a new passphrase" (vault.go:368): a change
\* of passphrase loses no stored secret.
PassphraseChangeKeepsSecrets ==
    "two vaults" \notin hazard =>
        \/ stored \ removed = {}
        \/ Contents(vfile) # Nothing /\ stored \ removed \subseteq Contents(vfile).secrets

\* "stores the plaintext in the vault" (vault_migrate.go:119): a credential
\* whose schedule holds a marker is in the vault's file, once no request is
\* in progress.
MigratedCredentialsKept ==
    (\A c \in Clients : req[c].pc = "idle") =>
        \A r \in Refs \ removed : credentials[r] = "marker" =>
            Contents(vfile) # Nothing /\ r \in Contents(vfile).secrets
=============================================================================

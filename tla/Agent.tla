------------------------------- MODULE Agent -------------------------------
(***************************************************************************)
(* The receiver's Sync (internal/lab/agent.go) on one state directory that *)
(* several processes may share: the service loop, a one-shot `edgelab      *)
(* sync`, an offline run.  Every durable write of Sync is an action, so    *)
(* that a crash, an error return or damage to a file can fall between any  *)
(* two of them.  AtomicWrite (temp file, fsync, rename, directory fsync)   *)
(* replaces one file atomically: it is one step, and a crash just before   *)
(* or just after that step covers its failures.                            *)
(*                                                                         *)
(* A signed manifest is a model value; its digest is its identity.  A file *)
(* is described by how its bytes compare with the digest in its name.      *)
(***************************************************************************)
EXTENDS Naturals, FiniteSets

CONSTANTS
    Procs,        \* processes that run Sync on the state directory
    Manifests,    \* release envelopes the hub may serve, digest = identity
    Chunks,       \* content-defined chunks, named by raw SHA-256
    Artifacts,    \* whole archives, named by artifact SHA-256
    Urls,         \* channel URLs
    SeqOf,        \* signed sequence number of a manifest
    ChunksOf,     \* Unique(m): the distinct chunks a manifest lists
    ArtifactOf,   \* the artifact a manifest describes
    Authentic,    \* manifests that pass Verify
    Sound,        \* manifests whose chunks do concatenate to the artifact
    Loadable,     \* kind docker-archive with signed image IDs
    OptionsOf,    \* the AgentOptions each process may be started with
    MaxDamage,    \* bound: how often one chunk file may be damaged
    None          \* no manifest, no process, no url

Options == [offline: BOOLEAN, dockerLoad: BOOLEAN, url: Urls \union {None}]

NoOptions == [offline |-> FALSE, dockerLoad |-> FALSE, url |-> None]

ASSUME ManifestAssumption ==
    /\ SeqOf \in [Manifests -> Nat \ {0}]
    /\ ChunksOf \in [Manifests -> SUBSET Chunks]
    /\ ArtifactOf \in [Manifests -> Artifacts]
    /\ Authentic \subseteq Manifests
    /\ Sound \subseteq Manifests
    /\ Loadable \subseteq Manifests

ASSUME EnvironmentAssumption ==
    /\ OptionsOf \in [Procs -> SUBSET Options]
    /\ MaxDamage \in Nat
    /\ None \notin Manifests \union Procs \union Urls

VARIABLES
    channel,      \* channel[u]: the envelope the hub serves at url u
    state,        \* state.json
    manifests,    \* manifests/<digest>.json
    cache,        \* cache/<chunk>
    staged,       \* staged/<artifact>.tar
    images,       \* releases whose image configs are in the Docker store
    lock,         \* holder of agent.lock
    pc,           \* where each process is in Sync
    opt,          \* its options
    mem,          \* its State: `old` until the manifest is accepted, then `s`
    cur,          \* its verified manifest m
    missing,      \* its chunks still to fetch
    archiveValid, \* its FileHash verdict on the staged archive
    exit,         \* how the last Sync ended: "ok", "error", "fault"
    downloads,    \* history: chunk downloads committed to the cache
    damages       \* history: valid chunk files the environment damaged

durable  == <<state, manifests, cache, staged, images>>
volatile == <<lock, pc, opt, mem, cur, missing, archiveValid, exit>>
history  == <<downloads, damages>>
vars     == <<channel, durable, volatile, history>>

(* How a file's bytes compare with the digest that names it.  A "damaged"  *)
(* file was right once; a "wrong" one never was.                           *)
FileStatus == {"absent", "good", "damaged", "wrong"}

Phases == {"", "planning", "fetching", "assembling", "loading", "loaded", "staged"}

State == [seq: Nat, digest: Manifests \union {None}, url: Urls \union {None},
          phase: Phases, loaded: Manifests \union {None}]

EmptyState == [seq |-> 0, digest |-> None, url |-> None, phase |-> "", loaded |-> None]

Steps == {"idle", "get", "verify", "record", "plan", "fetch", "assemble",
          "import", "load", "prove", "finish"}

TypeOK ==
    /\ channel \in [Urls -> Manifests]
    /\ state \in State
    /\ manifests \in [Manifests -> FileStatus]
    /\ cache \in [Chunks -> FileStatus]
    /\ staged \in [Artifacts -> FileStatus]
    /\ images \in SUBSET Manifests
    /\ lock \in Procs \union {None}
    /\ pc \in [Procs -> Steps]
    /\ opt \in [Procs -> Options]
    /\ mem \in [Procs -> State]
    /\ cur \in [Procs -> Manifests \union {None}]
    /\ \A p \in Procs : pc[p] \notin {"idle", "get"} => cur[p] \in Manifests
    /\ missing \in [Procs -> SUBSET Chunks]
    /\ archiveValid \in [Procs -> BOOLEAN]
    /\ exit \in {"", "ok", "error", "fault"}
    /\ downloads \in [Chunks -> Nat]
    /\ damages \in [Chunks -> 0..MaxDamage]

Init ==
    /\ channel \in [Urls -> Manifests]
    /\ state = EmptyState
    /\ manifests = [m \in Manifests |-> "absent"]
    /\ cache = [c \in Chunks |-> "absent"]
    /\ staged = [a \in Artifacts |-> "absent"]
    /\ images = {}
    /\ lock = None
    /\ pc = [p \in Procs |-> "idle"]
    /\ opt = [p \in Procs |-> NoOptions]
    /\ mem = [p \in Procs |-> EmptyState]
    /\ cur = [p \in Procs |-> None]
    /\ missing = [p \in Procs |-> {}]
    /\ archiveValid = [p \in Procs |-> FALSE]
    /\ exit = ""
    /\ downloads = [c \in Chunks |-> 0]
    /\ damages = [c \in Chunks |-> 0]

-----------------------------------------------------------------------------
(* Return from Sync or process death: the deferred UnlockState, or the     *)
(* kernel, releases the flock and the locals are gone.                     *)
Leave(p, how) ==
    /\ exit' = how
    /\ lock' = None
    /\ pc' = [pc EXCEPT ![p] = "idle"]
    /\ opt' = [opt EXCEPT ![p] = NoOptions]
    /\ mem' = [mem EXCEPT ![p] = EmptyState]
    /\ cur' = [cur EXCEPT ![p] = None]
    /\ missing' = [missing EXCEPT ![p] = {}]
    /\ archiveValid' = [archiveValid EXCEPT ![p] = FALSE]

Goto(p, step) == pc' = [pc EXCEPT ![p] = step]

writeState(p, s) ==
    /\ mem' = [mem EXCEPT ![p] = s]
    /\ state' = s

BeginUnlocked(p) == \* variant: a busy lock is ignored
    /\ pc[p] = "idle"
    /\ \E o \in OptionsOf[p] : opt' = [opt EXCEPT ![p] = o]
    /\ lock' = p
    /\ mem' = [mem EXCEPT ![p] = state]
    /\ exit' = ""
    /\ Goto(p, "get")
    /\ UNCHANGED <<channel, durable, cur, missing, archiveValid, history>>

(* LockState (non-blocking flock: a busy lock fails the call, which then   *)
(* changes nothing), CleanTemps, ReadKey, readState.                       *)
Begin(p) ==
    /\ pc[p] = "idle"
    /\ lock = None
    /\ \E o \in OptionsOf[p] : opt' = [opt EXCEPT ![p] = o]
    /\ lock' = p
    /\ mem' = [mem EXCEPT ![p] = state]
    /\ exit' = ""
    /\ Goto(p, "get")
    /\ UNCHANGED <<channel, durable, cur, missing, archiveValid, history>>

(* Offline: only the cached manifest of the accepted release.              *)
OfflineAllowed(p) ==
    /\ mem[p].digest # None
    /\ opt[p].url # None => opt[p].url = mem[p].url
    /\ manifests[mem[p].digest] = "good"

ReadCachedManifest(p) ==
    /\ pc[p] = "get"
    /\ opt[p].offline
    /\ OfflineAllowed(p)
    /\ cur' = [cur EXCEPT ![p] = mem[p].digest]
    /\ Goto(p, "verify")
    /\ UNCHANGED <<channel, durable, lock, opt, mem, missing, archiveValid, exit, history>>

(* Online: the manifest request.  With a verified cached manifest for the  *)
(* same url the hub may answer 304, and the cached bytes are what the      *)
(* channel holds; either way the envelope is the channel's.                *)
RequestManifest(p) ==
    /\ pc[p] = "get"
    /\ ~opt[p].offline
    /\ opt[p].url # None
    /\ cur' = [cur EXCEPT ![p] = channel[opt[p].url]]
    /\ Goto(p, "verify")
    /\ UNCHANGED <<channel, durable, lock, opt, mem, missing, archiveValid, exit, history>>

(* Verify: the signature and the shape of the manifest.                    *)
Verify(m) == m \in Authentic

AcceptableSibling(p) == \* variant: no equivocation check
    /\ Verify(cur[p])
    /\ SeqOf[cur[p]] >= mem[p].seq

(* Verify, the rollback check and the same-sequence equivocation check.    *)
Acceptable(p) ==
    /\ Verify(cur[p])
    /\ SeqOf[cur[p]] >= mem[p].seq
    /\ SeqOf[cur[p]] = mem[p].seq /\ mem[p].digest # None => cur[p] = mem[p].digest

SaveManifestLater(p) == \* variant: the envelope is not on disk before state.json
    /\ pc[p] = "verify"
    /\ Acceptable(p)
    /\ Goto(p, "record")
    /\ UNCHANGED <<channel, durable, lock, opt, mem, cur, missing, archiveValid, exit, history>>

(* The accepted envelope is written under its digest ...                   *)
SaveManifest(p) ==
    /\ pc[p] = "verify"
    /\ Acceptable(p)
    /\ manifests' = [manifests EXCEPT ![cur[p]] = "good"]
    /\ Goto(p, "record")
    /\ UNCHANGED <<channel, state, cache, staged, images, lock, opt, mem, cur, missing,
                   archiveValid, exit, history>>

(* ... before state.json names it: the durable anti-rollback mark, which   *)
(* carries the loaded marker of the previous state.                        *)
RecordPlanning(p) ==
    /\ pc[p] = "record"
    /\ writeState(p, [seq |-> SeqOf[cur[p]], digest |-> cur[p],
                      url |-> IF opt[p].offline THEN mem[p].url ELSE opt[p].url,
                      phase |-> "planning", loaded |-> mem[p].loaded])
    /\ Goto(p, "plan")
    /\ UNCHANGED <<channel, manifests, cache, staged, images, lock, opt, cur, missing,
                   archiveValid, exit, history>>

MissingAll(p) == ChunksOf[cur[p]] \* variant: nothing is reused

MissingFiles(p) == \* variant: presence is taken for validity
    {c \in ChunksOf[cur[p]] : cache[c] = "absent"}

(* ValidChunk on every unique chunk, FileHash of the staged archive.       *)
Missing(p) == {c \in ChunksOf[cur[p]] : cache[c] # "good"}

Plan(p) ==
    /\ pc[p] = "plan"
    /\ opt[p].offline => Missing(p) = {}
    /\ missing' = [missing EXCEPT ![p] = Missing(p)]
    /\ archiveValid' = [archiveValid EXCEPT ![p] = staged[ArtifactOf[cur[p]]] = "good"]
    /\ writeState(p, [mem[p] EXCEPT !.phase = "fetching"])
    /\ Goto(p, "fetch")
    /\ UNCHANGED <<channel, manifests, cache, staged, images, lock, opt, cur, exit, history>>

(* A worker commits one chunk.  A body that Decode rejects is retried and  *)
(* changes nothing; only decoded bytes reach AtomicWrite.                  *)
Decoded(body) == body = "good"

FetchChunk(p, c, body) ==
    /\ pc[p] = "fetch"
    /\ c \in missing[p]
    /\ Decoded(body)
    /\ cache' = [cache EXCEPT ![c] = body]
    /\ missing' = [missing EXCEPT ![p] = @ \ {c}]
    /\ downloads' = [downloads EXCEPT ![c] = @ + 1]
    /\ UNCHANGED <<channel, state, manifests, staged, images, lock, pc, opt, mem, cur,
                   archiveValid, exit, damages>>

(* wg.Wait returned without an error: phase assembling.                    *)
FetchDone(p) ==
    /\ pc[p] = "fetch"
    /\ missing[p] = {}
    /\ writeState(p, [mem[p] EXCEPT !.phase = "assembling"])
    /\ Goto(p, "assemble")
    /\ UNCHANGED <<channel, manifests, cache, staged, images, lock, opt, cur, missing,
                   archiveValid, exit, history>>

(* What the concatenated cache files are: the artifact only when every     *)
(* chunk file still is what its name says and the manifest is consistent.  *)
Assembled(p) ==
    IF cur[p] \in Sound /\ \A c \in ChunksOf[cur[p]] : cache[c] = "good"
    THEN "good" ELSE "wrong"

(* assemble renames its temp file only after the size and hash check.      *)
AssembleUnchecked(p) == \* variant: rename before the hash check
    /\ pc[p] = "assemble"
    /\ staged' = [staged EXCEPT ![ArtifactOf[cur[p]]] =
                    IF archiveValid[p] THEN @ ELSE Assembled(p)]
    /\ Goto(p, "import")
    /\ UNCHANGED <<channel, state, manifests, cache, images, lock, opt, mem, cur, missing,
                   archiveValid, exit, history>>

Assemble(p) ==
    /\ pc[p] = "assemble"
    /\ archiveValid[p] \/ Assembled(p) = "good"
    /\ staged' = [staged EXCEPT ![ArtifactOf[cur[p]]] =
                    IF archiveValid[p] THEN @ ELSE "good"]
    /\ Goto(p, "import")
    /\ UNCHANGED <<channel, state, manifests, cache, images, lock, opt, mem, cur, missing,
                   archiveValid, exit, history>>

(* No import asked for, or this exact manifest is already proved loaded.   *)
SkipImport(p) ==
    /\ pc[p] = "import"
    /\ opt[p].dockerLoad => cur[p] \in Loadable /\ mem[p].loaded = cur[p]
    /\ mem' = [mem EXCEPT ![p].phase = IF opt[p].dockerLoad THEN "loaded" ELSE "staged"]
    /\ Goto(p, "finish")
    /\ UNCHANGED <<channel, durable, lock, opt, cur, missing, archiveValid, exit, history>>

(* The loaded marker is cleared durably before Docker is called.           *)
BeginImport(p) ==
    /\ pc[p] = "import"
    /\ opt[p].dockerLoad
    /\ cur[p] \in Loadable
    /\ mem[p].loaded # cur[p]
    /\ writeState(p, [mem[p] EXCEPT !.loaded = None, !.phase = "loading"])
    /\ Goto(p, "load")
    /\ UNCHANGED <<channel, manifests, cache, staged, images, lock, opt, cur, missing,
                   archiveValid, exit, history>>

(* `docker image load` exits zero.  An archive damaged since its check     *)
(* does not yield the signed configs.                                      *)
DockerImageLoad(p) ==
    /\ pc[p] = "load"
    /\ images' = IF staged[ArtifactOf[cur[p]]] = "good" THEN images \union {cur[p]} ELSE images
    /\ Goto(p, "prove")
    /\ UNCHANGED <<channel, state, manifests, cache, staged, lock, opt, mem, cur, missing,
                   archiveValid, exit, history>>

LoadReported(p) == TRUE \* variant: docker's exit status is the proof

(* verifyLoadedConfigIdentity: every signed config read back from Docker.  *)
verifyLoadedConfigIdentity(p) == cur[p] \in images

ProveImport(p) ==
    /\ pc[p] = "prove"
    /\ verifyLoadedConfigIdentity(p)
    /\ mem' = [mem EXCEPT ![p].loaded = cur[p], ![p].phase = "loaded"]
    /\ Goto(p, "finish")
    /\ UNCHANGED <<channel, durable, lock, opt, cur, missing, archiveValid, exit, history>>

Finish(p) ==
    /\ pc[p] = "finish"
    /\ state' = mem[p]
    /\ Leave(p, "ok")
    /\ UNCHANGED <<channel, manifests, cache, staged, images, history>>

(* The error returns the code takes deterministically in a given state.    *)
Reject(p) ==
    /\ \/ pc[p] = "get" /\ opt[p].offline /\ ~OfflineAllowed(p)
       \/ pc[p] = "get" /\ ~opt[p].offline /\ opt[p].url = None
       \/ pc[p] = "verify" /\ ~Acceptable(p)
       \/ pc[p] = "plan" /\ opt[p].offline /\ Missing(p) # {}
       \/ pc[p] = "assemble" /\ ~archiveValid[p] /\ Assembled(p) # "good"
       \/ pc[p] = "import" /\ opt[p].dockerLoad /\ cur[p] \notin Loadable
       \/ pc[p] = "prove" /\ ~verifyLoadedConfigIdentity(p)
    /\ Leave(p, "error")
    /\ UNCHANGED <<channel, durable, history>>

-----------------------------------------------------------------------------
(* Faults: exhausted retries, a cancelled context, a full disk, a failed   *)
(* docker load, a kill or a power cut, at any step of Sync; a failed       *)
(* docker load may have stored the images before it failed.                *)
Abort(p) ==
    /\ pc[p] # "idle"
    /\ \/ images' = images
       \/ /\ pc[p] = "load"
          /\ staged[ArtifactOf[cur[p]]] = "good"
          /\ images' = images \union {cur[p]}
    /\ Leave(p, "fault")
    /\ UNCHANGED <<channel, state, manifests, cache, staged, history>>

(* Docker reports success but stored other configs than the signed ones.   *)
Misload(p) ==
    /\ pc[p] = "load"
    /\ cur[p] \notin images
    /\ Goto(p, "prove")
    /\ UNCHANGED <<channel, durable, lock, opt, mem, cur, missing, archiveValid, exit, history>>

DamageChunk(c) ==
    /\ cache[c] = "good"
    /\ damages[c] < MaxDamage
    /\ cache' = [cache EXCEPT ![c] = "damaged"]
    /\ damages' = [damages EXCEPT ![c] = @ + 1]
    /\ UNCHANGED <<channel, state, manifests, staged, images, volatile, downloads>>

DamageArchive(a) ==
    /\ staged[a] = "good"
    /\ staged' = [staged EXCEPT ![a] = "damaged"]
    /\ UNCHANGED <<channel, state, manifests, cache, images, volatile, history>>

(* Only the accepted manifest is ever read back, so only its file matters. *)
DamageManifest(m) ==
    /\ m = state.digest
    /\ manifests[m] = "good"
    /\ manifests' = [manifests EXCEPT ![m] = "damaged"]
    /\ UNCHANGED <<channel, state, cache, staged, images, volatile, history>>

(* The hub serves another envelope at a channel url: a promotion, an older *)
(* release restored from a backup, or bytes nobody signed.                 *)
Serve(u, m) ==
    /\ channel[u] # m
    /\ channel' = [channel EXCEPT ![u] = m]
    /\ UNCHANGED <<durable, volatile, history>>

Advance(p) ==
    \/ Begin(p)
    \/ ReadCachedManifest(p)
    \/ RequestManifest(p)
    \/ SaveManifest(p)
    \/ RecordPlanning(p)
    \/ Plan(p)
    \/ \E c \in Chunks, body \in {"good", "wrong"} : FetchChunk(p, c, body)
    \/ FetchDone(p)
    \/ Assemble(p)
    \/ SkipImport(p)
    \/ BeginImport(p)
    \/ DockerImageLoad(p)
    \/ ProveImport(p)
    \/ Finish(p)
    \/ Reject(p)

Fault ==
    \/ \E p \in Procs : Abort(p) \/ Misload(p)
    \/ \E c \in Chunks : DamageChunk(c)
    \/ \E a \in Artifacts : DamageArchive(a)
    \/ \E m \in Manifests : DamageManifest(m)
    \/ \E u \in Urls, m \in Manifests : Serve(u, m)

Next == (\E p \in Procs : Advance(p)) \/ Fault

Spec == Init /\ [][Next]_vars

(* The service loop starts another Sync after every one that ended, and a  *)
(* running Sync takes its next step: the fairness of receiverloop.Run.     *)
FairSpec == Spec /\ \A p \in Procs : WF_vars(Advance(p))

-----------------------------------------------------------------------------
(* The accepted release only ever moves forward: whatever the channels     *)
(* serve, whichever process writes, and across any crash, state.json never *)
(* goes back to a smaller sequence and never changes to another manifest   *)
(* of the same sequence (rollback and equivocation checks of Sync, the     *)
(* flock, and the durable mark written before fetching).                   *)
NoRollback ==
    [][/\ state'.seq >= state.seq
       /\ state'.seq = state.seq /\ state.digest # None => state'.digest = state.digest]_state

(* state.json names only manifests that passed Verify and whose envelope   *)
(* was written first, so that an offline run or an ETag finds it.          *)
AcceptedIsStored ==
    state.digest # None => /\ state.digest \in Authentic
                           /\ state.seq = SeqOf[state.digest]
                           /\ manifests[state.digest] # "absent"

(* loaded_manifest_sha256 is set only after a load whose stored configs    *)
(* were read back, and no crash or retry ever leaves it naming a release   *)
(* Docker was not seen to hold.                                            *)
LoadedIsProved == state.loaded # None => state.loaded \in images

(* A state that reports an archive as staged, loading or loaded has one    *)
(* that was assembled and hashed: never absent, never unverified bytes.    *)
ReadyIsAssembled ==
    /\ state.phase \in {"loading", "loaded", "staged"} =>
          staged[ArtifactOf[state.digest]] \in {"good", "damaged"}
    /\ \A a \in Artifacts : staged[a] # "wrong"

(* Completed chunks survive interruptions and are shared by releases: over *)
(* all Syncs of all processes a chunk is downloaded once, and once more    *)
(* for each time its cache file was damaged.                               *)
DownloadedOnce == \A c \in Chunks : downloads[c] <= 1 + damages[c]

(* A successful return leaves the accepted release recorded as ready, and  *)
(* as loaded only with the proof for exactly that manifest.                *)
SuccessIsReady ==
    exit = "ok" => /\ state.phase \in {"staged", "loaded"}
                   /\ state.phase = "loaded" => state.loaded = state.digest

Register == INSTANCE ReleaseRegister WITH
    accepted <- state.digest,
    ready    <- state.phase \in {"staged", "loaded"},
    imported <- state.loaded

(* Sync implements the abstract release register: every write of           *)
(* state.json, by any process and after any crash, is one of its steps.    *)
ImplementsRegister == Register!Spec

(* The newest manifest, when it can be delivered at all.                   *)
Deliverable ==
    {m \in Authentic \intersect Sound \intersect Loadable :
        \A n \in Authentic \ {m} : SeqOf[n] < SeqOf[m]}

(* Once faults stop and the channels stay at the newest release, repeated  *)
(* Syncs get it imported and proved, from whatever a crash left behind.    *)
Converges ==
    \A m \in Deliverable :
        (<>[][~Fault]_vars /\ <>[](\A u \in Urls : channel[u] = m))
            => []<>(state.digest = m /\ state.phase = "loaded" /\ state.loaded = m)
-----------------------------------------------------------------------------
(* The inductive invariant, in parts.  The flock excludes: ...             *)
LockHeld ==
    /\ \A p \in Procs : pc[p] # "idle" <=> lock = p
    /\ exit # "" => lock = None

(* ... so the holder's copy of the state is the file, up to the last write *)
MemIsState ==
    \A p \in Procs :
        /\ pc[p] \notin {"idle", "finish"} => mem[p] = state
        /\ pc[p] = "finish" =>
              /\ mem[p].seq = state.seq
              /\ mem[p].digest = state.digest
              /\ mem[p].phase \in {"staged", "loaded"}
              /\ mem[p].phase = "loaded" => mem[p].loaded = cur[p]
              /\ mem[p].loaded = state.loaded \/ mem[p].loaded = cur[p]
              /\ mem[p].loaded # None => mem[p].loaded \in images

AfterVerify == {"record", "plan", "fetch", "assemble", "import", "load", "prove", "finish"}
AfterRecord == AfterVerify \ {"record"}
AfterAssemble == {"import", "load", "prove", "finish"}

CurIsVerified ==
    \A p \in Procs :
        /\ pc[p] \in AfterVerify => cur[p] \in Authentic /\ manifests[cur[p]] # "absent"
        /\ pc[p] = "record" => Acceptable(p)
        /\ pc[p] \in AfterRecord => state.digest = cur[p]
        /\ pc[p] \in {"load", "prove"} => state.loaded = None

EmptyUntilAccepted ==
    state.digest = None => state.seq = 0 /\ state.phase = "" /\ state.loaded = None

MissingIsInvalid ==
    \A p \in Procs : pc[p] = "fetch" => \A c \in missing[p] : cache[c] # "good"

HasArchive(m) == staged[ArtifactOf[m]] \in {"good", "damaged"}

ArchiveIsHashed ==
    \A p \in Procs :
        /\ pc[p] \in {"fetch", "assemble"} /\ archiveValid[p] => HasArchive(cur[p])
        /\ pc[p] \in AfterAssemble => HasArchive(cur[p])

DownloadsCounted ==
    \A c \in Chunks : downloads[c] <= damages[c] + (IF cache[c] = "good" THEN 1 ELSE 0)

(* The conjunction that every step preserves: the published invariants and *)
(* the facts about the lock holder's memory that they rest on.             *)
IInv ==
    /\ TypeOK
    /\ LockHeld
    /\ MemIsState
    /\ CurIsVerified
    /\ EmptyUntilAccepted
    /\ MissingIsInvalid
    /\ ArchiveIsHashed
    /\ DownloadsCounted
    /\ AcceptedIsStored
    /\ LoadedIsProved
    /\ ReadyIsAssembled
    /\ SuccessIsReady
=============================================================================

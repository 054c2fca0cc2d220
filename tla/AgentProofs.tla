---------------------------- MODULE AgentProofs ----------------------------
(***************************************************************************)
(* Proofs about Agent for every number of processes, manifests, chunks,    *)
(* artifacts and urls.                                                     *)
(***************************************************************************)
EXTENDS Agent, TLAPS

(* The states Sync builds from a state it read are states.                 *)
LEMMA StateForms ==
    /\ EmptyState \in State /\ NoOptions \in Options
    /\ \A s \in State, ph \in Phases :
          /\ [s EXCEPT !.phase = ph] \in State
          /\ [s EXCEPT !.loaded = None, !.phase = ph] \in State
          /\ \A m \in Manifests : [s EXCEPT !.loaded = m, !.phase = ph] \in State
    /\ \A s \in State : /\ s.seq \in Nat /\ s.digest \in Manifests \union {None}
                         /\ s.url \in Urls \union {None} /\ s.loaded \in Manifests \union {None}
                         /\ s.phase \in Phases
    /\ \A o \in Options : /\ o.url \in Urls \union {None}
                           /\ o.offline \in BOOLEAN /\ o.dockerLoad \in BOOLEAN
BY DEF State, Options, EmptyState, NoOptions, Phases

(* The state recorded for a manifest that passed the checks is a state.    *)
LEMMA PlanningState ==
    ASSUME NEW m \in Manifests, NEW u \in Urls \union {None},
           NEW l \in Manifests \union {None}
    PROVE  [seq |-> SeqOf[m], digest |-> m, url |-> u, phase |-> "planning", loaded |-> l]
              \in State
BY ManifestAssumption DEF State, Phases

(* Counting one more keeps a counter's type, and its bound when below it.  *)
LEMMA CountUp ==
    \A f \in [Chunks -> Nat], c \in Chunks : [f EXCEPT ![c] = f[c] + 1] \in [Chunks -> Nat]
OBVIOUS

(* The same for the bounded damage counter of a chunk file.                *)
LEMMA CountBelow ==
    \A f \in [Chunks -> 0..MaxDamage], c \in Chunks :
        f[c] < MaxDamage => [f EXCEPT ![c] = f[c] + 1] \in [Chunks -> 0..MaxDamage]
BY EnvironmentAssumption

(* Every step of Sync and every fault keeps the types: in particular a     *)
(* process past the manifest request holds a manifest.                     *)
LEMMA TypeStep == TypeOK /\ [Next]_vars => TypeOK'
<1> SUFFICES ASSUME TypeOK, [Next]_vars PROVE TypeOK'
    OBVIOUS
<1> USE ManifestAssumption, EnvironmentAssumption
<1> USE DEF TypeOK, Steps, FileStatus, durable, volatile, history, Goto, writeState
<1>1. ASSUME NEW p \in Procs, Begin(p) PROVE TypeOK'
  <2>1. PICK o \in Options : opt' = [opt EXCEPT ![p] = o]
    BY <1>1 DEF Begin
  <2> QED BY <1>1, <2>1 DEF Begin
<1>2. ASSUME NEW p \in Procs, ReadCachedManifest(p) PROVE TypeOK'
  BY <1>2, StateForms DEF ReadCachedManifest, OfflineAllowed
<1>3. ASSUME NEW p \in Procs, RequestManifest(p) PROVE TypeOK'
  BY <1>3, StateForms DEF RequestManifest
<1>4. ASSUME NEW p \in Procs, SaveManifest(p) PROVE TypeOK'
  BY <1>4 DEF SaveManifest
<1>5. ASSUME NEW p \in Procs, RecordPlanning(p) PROVE TypeOK'
  <2> DEFINE u == IF opt[p].offline THEN mem[p].url ELSE opt[p].url
             s == [seq |-> SeqOf[cur[p]], digest |-> cur[p], url |-> u,
                   phase |-> "planning", loaded |-> mem[p].loaded]
  <2>1. s \in State
    <3>1. cur[p] \in Manifests /\ u \in Urls \union {None}
      BY <1>5, StateForms DEF RecordPlanning
    <3>2. mem[p].loaded \in Manifests \union {None}
      BY <1>5, StateForms
    <3> QED BY <3>1, <3>2, PlanningState
  <2>2. /\ mem' = [mem EXCEPT ![p] = s] /\ state' = s
        /\ pc[p] = "record" /\ pc' = [pc EXCEPT ![p] = "plan"]
        /\ UNCHANGED <<channel, manifests, cache, staged, images, lock, opt, cur, missing, archiveValid, exit,
                       downloads, damages>>
    BY <1>5 DEF RecordPlanning
  <2> HIDE DEF s
  <2> QED BY <2>1, <2>2
<1>6. ASSUME NEW p \in Procs, Plan(p) PROVE TypeOK'
  <2> DEFINE s == [mem[p] EXCEPT !.phase = "fetching"]
  <2>1. s \in State
    BY StateForms DEF Phases
  <2> HIDE DEF s
  <2>2. /\ mem' = [mem EXCEPT ![p] = s] /\ state' = s
        /\ pc[p] = "plan" /\ pc' = [pc EXCEPT ![p] = "fetch"]
        /\ UNCHANGED <<channel, manifests, cache, staged, images, lock, opt, cur, exit,
                       downloads, damages>>
    BY <1>6 DEF Plan, s
  <2>3. missing' \in [Procs -> SUBSET Chunks] /\ archiveValid' \in [Procs -> BOOLEAN]
    BY <1>6 DEF Plan, Missing
  <2> QED BY <2>1, <2>2, <2>3
<1>7. ASSUME NEW p \in Procs, NEW c \in Chunks, NEW body, FetchChunk(p, c, body) PROVE TypeOK'
  <2>1. cache' \in [Chunks -> FileStatus]
    BY <1>7 DEF FetchChunk, Decoded
  <2>2. missing[p] \subseteq Chunks
    OBVIOUS
  <2>3. missing' \in [Procs -> SUBSET Chunks]
    BY <1>7, <2>2 DEF FetchChunk
  <2>4. downloads' \in [Chunks -> Nat]
    BY <1>7, CountUp DEF FetchChunk
  <2> QED BY <1>7, <2>1, <2>3, <2>4 DEF FetchChunk
<1>8. ASSUME NEW p \in Procs, FetchDone(p) PROVE TypeOK'
  <2> DEFINE s == [mem[p] EXCEPT !.phase = "assembling"]
  <2>1. s \in State
    BY StateForms DEF Phases
  <2> HIDE DEF s
  <2>2. /\ mem' = [mem EXCEPT ![p] = s] /\ state' = s
        /\ pc[p] = "fetch" /\ pc' = [pc EXCEPT ![p] = "assemble"]
        /\ UNCHANGED <<channel, manifests, cache, staged, images, lock, opt, cur, missing, archiveValid, exit,
                       downloads, damages>>
    BY <1>8 DEF FetchDone, s
  <2> QED BY <2>1, <2>2
<1>9. ASSUME NEW p \in Procs, Assemble(p) PROVE TypeOK'
  BY <1>9 DEF Assemble
<1>10. ASSUME NEW p \in Procs, SkipImport(p) PROVE TypeOK'
  <2>1. mem' \in [Procs -> State]
    <3> DEFINE s == [mem[p] EXCEPT !.phase = IF opt[p].dockerLoad THEN "loaded" ELSE "staged"]
    <3>1. s \in State
      BY StateForms DEF Phases
    <3>2. mem' = [mem EXCEPT ![p] = s]
      BY <1>10 DEF SkipImport
    <3> QED BY <3>1, <3>2
  <2> QED BY <1>10, <2>1 DEF SkipImport
<1>11. ASSUME NEW p \in Procs, BeginImport(p) PROVE TypeOK'
  <2> DEFINE s == [mem[p] EXCEPT !.loaded = None, !.phase = "loading"]
  <2>1. s \in State
    BY StateForms DEF Phases
  <2> HIDE DEF s
  <2>2. /\ mem' = [mem EXCEPT ![p] = s] /\ state' = s
        /\ pc[p] = "import" /\ pc' = [pc EXCEPT ![p] = "load"]
        /\ UNCHANGED <<channel, manifests, cache, staged, images, lock, opt, cur, missing, archiveValid, exit,
                       downloads, damages>>
    BY <1>11 DEF BeginImport, s
  <2> QED BY <2>1, <2>2
<1>12. ASSUME NEW p \in Procs, DockerImageLoad(p) PROVE TypeOK'
  BY <1>12 DEF DockerImageLoad
<1>13. ASSUME NEW p \in Procs, ProveImport(p) PROVE TypeOK'
  <2>1. mem' \in [Procs -> State]
    <3> DEFINE s == [mem[p] EXCEPT !.loaded = cur[p], !.phase = "loaded"]
    <3>1. cur[p] \in Manifests
      BY <1>13 DEF ProveImport
    <3>2. s \in State
      BY <3>1, StateForms DEF Phases
    <3>3. mem' = [mem EXCEPT ![p] = s]
      BY <1>13 DEF ProveImport
    <3> QED BY <3>2, <3>3
  <2> QED BY <1>13, <2>1 DEF ProveImport
<1>14. ASSUME NEW p \in Procs, Finish(p) PROVE TypeOK'
  BY <1>14, StateForms DEF Finish, Leave
<1>15. ASSUME NEW p \in Procs, Reject(p) PROVE TypeOK'
  BY <1>15, StateForms DEF Reject, Leave
<1>16. ASSUME NEW p \in Procs, Abort(p) PROVE TypeOK'
  BY <1>16, StateForms DEF Abort, Leave
<1>17. ASSUME NEW p \in Procs, Misload(p) PROVE TypeOK'
  BY <1>17 DEF Misload
<1>18. ASSUME NEW c \in Chunks, DamageChunk(c) PROVE TypeOK'
  <2>1. damages' \in [Chunks -> 0..MaxDamage]
    BY <1>18, CountBelow DEF DamageChunk
  <2> QED BY <1>18, <2>1 DEF DamageChunk
<1>19. ASSUME NEW a \in Artifacts, DamageArchive(a) PROVE TypeOK'
  BY <1>19 DEF DamageArchive
<1>20. ASSUME NEW m \in Manifests, DamageManifest(m) PROVE TypeOK'
  BY <1>20 DEF DamageManifest
<1>21. ASSUME NEW u \in Urls, NEW m \in Manifests, Serve(u, m) PROVE TypeOK'
  BY <1>21 DEF Serve
<1>22. CASE UNCHANGED vars
  BY <1>22 DEF vars
<1> QED
  BY <1>1, <1>2, <1>3, <1>4, <1>5, <1>6, <1>7, <1>8, <1>9, <1>10, <1>11, <1>12, <1>13,
     <1>14, <1>15, <1>16, <1>17, <1>18, <1>19, <1>20, <1>21, <1>22 DEF Next, Advance, Fault

(* Every step of Sync, every fault and every change of a channel keeps the *)
(* inductive invariant.  One step per action; in each, "others" says *)
(* that no other process is in Sync and "writes" what the action changes.  *)
LEMMA InvStep == IInv /\ TypeOK' /\ [Next]_vars => IInv'
<1> SUFFICES ASSUME IInv, TypeOK', [Next]_vars PROVE IInv'
    OBVIOUS
<1> USE DEF durable, volatile, history, Goto, writeState, Leave
<1>a. /\ pc \in [Procs -> Steps] /\ mem \in [Procs -> State] /\ opt \in [Procs -> Options]
      /\ cur \in [Procs -> Manifests \union {None}] /\ missing \in [Procs -> SUBSET Chunks]
      /\ archiveValid \in [Procs -> BOOLEAN] /\ lock \in Procs \union {None}
      /\ None \notin Procs
  BY EnvironmentAssumption DEF IInv, TypeOK
<1>b. /\ state \in State /\ manifests \in [Manifests -> FileStatus]
      /\ cache \in [Chunks -> FileStatus] /\ staged \in [Artifacts -> FileStatus]
      /\ images \in SUBSET Manifests /\ ArtifactOf \in [Manifests -> Artifacts]
      /\ None \notin Manifests
      /\ \A q \in Procs : pc[q] \notin {"idle", "get"} => cur[q] \in Manifests
  BY EnvironmentAssumption, ManifestAssumption DEF IInv, TypeOK
<1>c. /\ downloads \in [Chunks -> Nat] /\ damages \in [Chunks -> Nat]
      /\ downloads' \in [Chunks -> Nat] /\ damages' \in [Chunks -> Nat]
  <2>1. 0..MaxDamage \subseteq Nat
    BY EnvironmentAssumption
  <2>2. /\ damages \in [Chunks -> 0..MaxDamage] /\ damages' \in [Chunks -> 0..MaxDamage]
        /\ downloads \in [Chunks -> Nat] /\ downloads' \in [Chunks -> Nat]
    BY DEF IInv, TypeOK
  <2> HIDE DEF IInv
  <2> QED BY <2>1, <2>2
<1>1. ASSUME NEW p \in Procs, Begin(p) PROVE IInv'
  <2>others. \A q \in Procs : q # p => pc[q] = "idle" /\ pc'[q] = "idle"
    BY <1>1, <1>a DEF IInv, LockHeld, Begin
  <2>1. LockHeld'
    BY <1>1, <1>a DEF IInv, LockHeld, Begin
  <2>2. MemIsState'
    BY <1>1, <1>a, <1>b, <2>others DEF IInv, MemIsState, Begin
  <2>3. CurIsVerified'
    BY <1>1, <1>a, <1>b, <2>others DEF IInv, CurIsVerified, AfterVerify, AfterRecord,
       Acceptable, Begin
  <2>4. MissingIsInvalid' /\ ArchiveIsHashed'
    BY <1>1, <1>a, <1>b, <2>others DEF IInv, MissingIsInvalid, ArchiveIsHashed,
       AfterAssemble, HasArchive, Begin
  <2>5. DownloadsCounted'
    BY <1>1, <1>c DEF IInv, DownloadsCounted, Begin
  <2>6. EmptyUntilAccepted' /\ AcceptedIsStored' /\ LoadedIsProved' /\ ReadyIsAssembled' /\
     SuccessIsReady'
    BY <1>1, <1>a, <1>b DEF IInv, EmptyUntilAccepted, AcceptedIsStored, LoadedIsProved,
       ReadyIsAssembled, SuccessIsReady, Begin
  <2> QED BY <2>1, <2>2, <2>3, <2>4, <2>5, <2>6 DEF IInv
<1>2. ASSUME NEW p \in Procs, ReadCachedManifest(p) PROVE IInv'
  <2>others. \A q \in Procs : q # p => pc[q] = "idle" /\ pc'[q] = "idle"
    BY <1>2, <1>a DEF IInv, LockHeld, ReadCachedManifest
  <2>1. LockHeld'
    BY <1>2, <1>a DEF IInv, LockHeld, ReadCachedManifest
  <2>2. MemIsState'
    BY <1>2, <1>a, <1>b, <2>others DEF IInv, MemIsState, ReadCachedManifest
  <2>3. CurIsVerified'
    BY <1>2, <1>a, <1>b, <2>others DEF IInv, CurIsVerified, AfterVerify, AfterRecord,
       Acceptable, ReadCachedManifest
  <2>4. MissingIsInvalid' /\ ArchiveIsHashed'
    BY <1>2, <1>a, <1>b, <2>others DEF IInv, MissingIsInvalid, ArchiveIsHashed,
       AfterAssemble, HasArchive, ReadCachedManifest
  <2>5. DownloadsCounted'
    BY <1>2, <1>c DEF IInv, DownloadsCounted, ReadCachedManifest
  <2>6. EmptyUntilAccepted' /\ AcceptedIsStored' /\ LoadedIsProved' /\ ReadyIsAssembled' /\
     SuccessIsReady'
    BY <1>2, <1>a, <1>b DEF IInv, EmptyUntilAccepted, AcceptedIsStored, LoadedIsProved,
       ReadyIsAssembled, SuccessIsReady, ReadCachedManifest
  <2> QED BY <2>1, <2>2, <2>3, <2>4, <2>5, <2>6 DEF IInv
<1>3. ASSUME NEW p \in Procs, RequestManifest(p) PROVE IInv'
  <2>others. \A q \in Procs : q # p => pc[q] = "idle" /\ pc'[q] = "idle"
    BY <1>3, <1>a DEF IInv, LockHeld, RequestManifest
  <2>1. LockHeld'
    BY <1>3, <1>a DEF IInv, LockHeld, RequestManifest
  <2>2. MemIsState'
    BY <1>3, <1>a, <1>b, <2>others DEF IInv, MemIsState, RequestManifest
  <2>3. CurIsVerified'
    BY <1>3, <1>a, <1>b, <2>others DEF IInv, CurIsVerified, AfterVerify, AfterRecord,
       Acceptable, RequestManifest
  <2>4. MissingIsInvalid' /\ ArchiveIsHashed'
    BY <1>3, <1>a, <1>b, <2>others DEF IInv, MissingIsInvalid, ArchiveIsHashed,
       AfterAssemble, HasArchive, RequestManifest
  <2>5. DownloadsCounted'
    BY <1>3, <1>c DEF IInv, DownloadsCounted, RequestManifest
  <2>6. EmptyUntilAccepted' /\ AcceptedIsStored' /\ LoadedIsProved' /\ ReadyIsAssembled' /\
     SuccessIsReady'
    BY <1>3, <1>a, <1>b DEF IInv, EmptyUntilAccepted, AcceptedIsStored, LoadedIsProved,
       ReadyIsAssembled, SuccessIsReady, RequestManifest
  <2> QED BY <2>1, <2>2, <2>3, <2>4, <2>5, <2>6 DEF IInv
<1>4. ASSUME NEW p \in Procs, SaveManifest(p) PROVE IInv'
  <2>others. \A q \in Procs : q # p => pc[q] = "idle" /\ pc'[q] = "idle"
    BY <1>4, <1>a DEF IInv, LockHeld, SaveManifest
  <2>1. LockHeld'
    BY <1>4, <1>a DEF IInv, LockHeld, SaveManifest
  <2>2. MemIsState'
    BY <1>4, <1>a, <1>b, <2>others DEF IInv, MemIsState, SaveManifest
  <2>3. CurIsVerified'
    BY <1>4, <1>a, <1>b, <2>others DEF IInv, CurIsVerified, AfterVerify, AfterRecord,
       Acceptable, Verify, MemIsState, SaveManifest
  <2>4. MissingIsInvalid' /\ ArchiveIsHashed'
    BY <1>4, <1>a, <1>b, <2>others DEF IInv, MissingIsInvalid, ArchiveIsHashed,
       AfterAssemble, HasArchive, SaveManifest
  <2>5. DownloadsCounted'
    BY <1>4, <1>c DEF IInv, DownloadsCounted, SaveManifest
  <2>6. EmptyUntilAccepted' /\ LoadedIsProved' /\ ReadyIsAssembled' /\ SuccessIsReady'
    BY <1>4, <1>a, <1>b DEF IInv, EmptyUntilAccepted, LoadedIsProved, ReadyIsAssembled,
       SuccessIsReady, SaveManifest
  <2>7. AcceptedIsStored'
    BY <1>4, <1>a, <1>b DEF IInv, AcceptedIsStored, SaveManifest
  <2> QED BY <2>1, <2>2, <2>3, <2>4, <2>5, <2>6, <2>7 DEF IInv
<1>5. ASSUME NEW p \in Procs, RecordPlanning(p) PROVE IInv'
  <2>others. \A q \in Procs : q # p => pc[q] = "idle" /\ pc'[q] = "idle"
    BY <1>5, <1>a DEF IInv, LockHeld, RecordPlanning
  <2>at. pc[p] = "record"
    BY <1>5 DEF RecordPlanning
  <2>lock. lock = p /\ exit = ""
    BY <1>a, <2>at DEF IInv, LockHeld
  <2>h1. mem[p] = state
    BY <1>a, <1>b, <2>at DEF IInv, MemIsState
  <2>h2. cur[p] \in Authentic /\ manifests[cur[p]] # "absent"
    BY <1>a, <1>b, <2>at DEF IInv, CurIsVerified, AfterVerify
  <2>held. cur[p] # None /\ mem[p] = state /\ cur[p] \in Authentic /\ manifests[cur[p]] #
     "absent"
    BY <1>b, <2>at, <2>h1, <2>h2
  <2>writes. /\ state'.digest = cur[p] /\ state'.seq = SeqOf[cur[p]]
        /\ state'.phase = "planning" /\ state'.loaded = state.loaded
        /\ pc' = [pc EXCEPT ![p] = "plan"]
        /\ UNCHANGED <<manifests, cache, staged, images, downloads, damages, cur,
           lock, exit, archiveValid, missing>>
    BY <1>5, <1>a, <1>b, <2>at, <2>held DEF RecordPlanning, State
  <2>1. LockHeld'
    BY <1>5, <1>a, <1>b, <2>others DEF IInv, LockHeld, RecordPlanning
  <2>2. MemIsState'
    BY <1>5, <1>a, <1>b, <2>others DEF IInv, MemIsState, RecordPlanning
  <2>3. CurIsVerified'
    <3>1. cur[p] \in Authentic /\ manifests[cur[p]] # "absent"
      BY <2>at DEF IInv, CurIsVerified, AfterVerify
    <3>2. /\ pc'[p] = "plan" /\ cur'[p] = cur[p] /\ state'.digest = cur[p]
          /\ manifests' = manifests
      BY <1>a, <2>held, <2>writes
    <3> QED BY <2>others, <3>1, <3>2 DEF CurIsVerified, AfterVerify, AfterRecord
  <2>4. EmptyUntilAccepted'
    BY <1>b, <2>lock, <2>held, <2>h2, <2>writes DEF IInv, EmptyUntilAccepted
  <2>5. MissingIsInvalid'
    BY <1>5, <1>a, <1>b, <2>others DEF IInv, MissingIsInvalid, RecordPlanning
  <2>6. ArchiveIsHashed'
    BY <1>5, <1>a, <1>b, <2>others, <2>held, <2>writes DEF IInv, ArchiveIsHashed,
       AfterAssemble, HasArchive, RecordPlanning
  <2>7. DownloadsCounted'
    BY <1>a, <1>b, <2>others, <2>at, <2>lock, <2>held, <2>h2, <2>writes DEF IInv,
       DownloadsCounted
  <2>8. AcceptedIsStored'
    BY <1>b, <2>lock, <2>held, <2>h2, <2>writes DEF IInv, AcceptedIsStored
  <2>9. LoadedIsProved'
    BY <1>b, <2>lock, <2>held, <2>h2, <2>writes DEF IInv, LoadedIsProved
  <2>10. ReadyIsAssembled'
    BY <1>b, <2>lock, <2>held, <2>h2, <2>writes DEF IInv, ReadyIsAssembled, HasArchive
  <2>11. SuccessIsReady'
    BY <1>b, <2>lock, <2>held, <2>h2, <2>writes DEF IInv, SuccessIsReady
  <2> QED BY <2>1, <2>2, <2>3, <2>4, <2>5, <2>6, <2>7, <2>8, <2>9, <2>10, <2>11 DEF IInv
<1>6. ASSUME NEW p \in Procs, Plan(p) PROVE IInv'
  <2>others. \A q \in Procs : q # p => pc[q] = "idle" /\ pc'[q] = "idle"
    BY <1>6, <1>a DEF IInv, LockHeld, Plan
  <2>at. pc[p] = "plan"
    BY <1>6 DEF Plan
  <2>lock. lock = p /\ exit = ""
    BY <1>a, <2>at DEF IInv, LockHeld
  <2>h1. mem[p] = state
    BY <1>a, <1>b, <2>at DEF IInv, MemIsState
  <2>h2. state.digest = cur[p]
    BY <1>a, <1>b, <2>at DEF IInv, CurIsVerified, AfterVerify, AfterRecord
  <2>held. cur[p] # None /\ mem[p] = state /\ state.digest = cur[p]
    BY <1>b, <2>at, <2>h1, <2>h2
  <2>writes. /\ state'.digest = state.digest /\ state'.seq = state.seq
        /\ state'.phase = "fetching" /\ state'.loaded = state.loaded
        /\ pc' = [pc EXCEPT ![p] = "fetch"]
        /\ UNCHANGED <<manifests, cache, staged, images, downloads, damages, cur, lock, exit>>
    BY <1>6, <1>a, <1>b, <2>at, <2>held DEF Plan, State
  <2>1. LockHeld'
    BY <1>6, <1>a, <1>b, <2>others DEF IInv, LockHeld, Plan, Missing
  <2>2. MemIsState'
    BY <1>6, <1>a, <1>b, <2>others DEF IInv, MemIsState, Plan, Missing
  <2>3. CurIsVerified'
    <3>1. cur[p] \in Authentic /\ manifests[cur[p]] # "absent"
      BY <2>at DEF IInv, CurIsVerified, AfterVerify
    <3>2. /\ pc'[p] = "fetch" /\ cur'[p] = cur[p] /\ state'.digest = cur[p]
          /\ manifests' = manifests
      BY <1>a, <2>held, <2>writes
    <3> QED BY <2>others, <3>1, <3>2 DEF CurIsVerified, AfterVerify, AfterRecord
  <2>4. EmptyUntilAccepted'
    BY <1>b, <2>lock, <2>held, <2>writes DEF IInv, EmptyUntilAccepted
  <2>5. MissingIsInvalid'
    BY <1>6, <1>a, <1>b, <2>others DEF IInv, MissingIsInvalid, Plan, Missing
  <2>6. ArchiveIsHashed'
    BY <1>6, <1>a, <1>b, <2>others, <2>held, <2>writes DEF IInv, ArchiveIsHashed,
       AfterAssemble, HasArchive, Plan, Missing
  <2>7. DownloadsCounted'
    BY <1>a, <1>b, <2>others, <2>at, <2>lock, <2>held, <2>writes DEF IInv, DownloadsCounted
  <2>8. AcceptedIsStored'
    BY <1>b, <2>lock, <2>held, <2>writes DEF IInv, AcceptedIsStored
  <2>9. LoadedIsProved'
    BY <1>b, <2>lock, <2>held, <2>writes DEF IInv, LoadedIsProved
  <2>10. ReadyIsAssembled'
    BY <1>b, <2>lock, <2>held, <2>writes DEF IInv, ReadyIsAssembled, HasArchive
  <2>11. SuccessIsReady'
    BY <1>b, <2>lock, <2>held, <2>writes DEF IInv, SuccessIsReady
  <2> QED BY <2>1, <2>2, <2>3, <2>4, <2>5, <2>6, <2>7, <2>8, <2>9, <2>10, <2>11 DEF IInv
<1>7. ASSUME NEW p \in Procs, NEW c \in Chunks, NEW body, FetchChunk(p, c, body) PROVE IInv'
  <2>others. \A q \in Procs : q # p => pc[q] = "idle" /\ pc'[q] = "idle"
    BY <1>7, <1>a DEF IInv, LockHeld, FetchChunk
  <2>1. LockHeld'
    BY <1>7, <1>a DEF IInv, LockHeld, FetchChunk, Decoded
  <2>2. MemIsState'
    BY <1>7, <1>a, <1>b, <2>others DEF IInv, MemIsState, FetchChunk, Decoded
  <2>3. CurIsVerified'
    BY <1>7, <1>a, <1>b, <2>others DEF IInv, CurIsVerified, AfterVerify, AfterRecord,
       Acceptable, FetchChunk, Decoded
  <2>4. MissingIsInvalid' /\ ArchiveIsHashed'
    BY <1>7, <1>a, <1>b, <2>others DEF IInv, MissingIsInvalid, ArchiveIsHashed,
       AfterAssemble, HasArchive, FetchChunk, Decoded
  <2>5. DownloadsCounted'
    BY <1>7, <1>c, <1>b DEF IInv, DownloadsCounted, MissingIsInvalid, FetchChunk, Decoded
  <2>6. EmptyUntilAccepted' /\ AcceptedIsStored' /\ LoadedIsProved' /\ ReadyIsAssembled' /\
     SuccessIsReady'
    BY <1>7, <1>a, <1>b DEF IInv, EmptyUntilAccepted, AcceptedIsStored, LoadedIsProved,
       ReadyIsAssembled, SuccessIsReady, FetchChunk, Decoded
  <2> QED BY <2>1, <2>2, <2>3, <2>4, <2>5, <2>6 DEF IInv
<1>8. ASSUME NEW p \in Procs, FetchDone(p) PROVE IInv'
  <2>others. \A q \in Procs : q # p => pc[q] = "idle" /\ pc'[q] = "idle"
    BY <1>8, <1>a DEF IInv, LockHeld, FetchDone
  <2>at. pc[p] = "fetch"
    BY <1>8 DEF FetchDone
  <2>lock. lock = p /\ exit = ""
    BY <1>a, <2>at DEF IInv, LockHeld
  <2>h1. mem[p] = state
    BY <1>a, <1>b, <2>at DEF IInv, MemIsState
  <2>h2. state.digest = cur[p]
    BY <1>a, <1>b, <2>at DEF IInv, CurIsVerified, AfterVerify, AfterRecord
  <2>held. cur[p] # None /\ mem[p] = state /\ state.digest = cur[p]
    BY <1>b, <2>at, <2>h1, <2>h2
  <2>writes. /\ state'.digest = state.digest /\ state'.seq = state.seq
        /\ state'.phase = "assembling" /\ state'.loaded = state.loaded
        /\ pc' = [pc EXCEPT ![p] = "assemble"]
        /\ UNCHANGED <<manifests, cache, staged, images, downloads, damages, cur,
           lock, exit, archiveValid, missing>>
    BY <1>8, <1>a, <1>b, <2>at, <2>held DEF FetchDone, State
  <2>1. LockHeld'
    BY <1>8, <1>a, <1>b, <2>others DEF IInv, LockHeld, FetchDone
  <2>2. MemIsState'
    BY <1>8, <1>a, <1>b, <2>others DEF IInv, MemIsState, FetchDone
  <2>3. CurIsVerified'
    <3>1. cur[p] \in Authentic /\ manifests[cur[p]] # "absent"
      BY <2>at DEF IInv, CurIsVerified, AfterVerify
    <3>2. /\ pc'[p] = "assemble" /\ cur'[p] = cur[p] /\ state'.digest = cur[p]
          /\ manifests' = manifests
      BY <1>a, <2>held, <2>writes
    <3> QED BY <2>others, <3>1, <3>2 DEF CurIsVerified, AfterVerify, AfterRecord
  <2>4. EmptyUntilAccepted'
    BY <1>b, <2>lock, <2>held, <2>writes DEF IInv, EmptyUntilAccepted
  <2>5. MissingIsInvalid'
    BY <1>8, <1>a, <1>b, <2>others DEF IInv, MissingIsInvalid, FetchDone
  <2>6. ArchiveIsHashed'
    BY <1>a, <1>b, <2>others, <2>at, <2>lock, <2>held, <2>writes DEF IInv,
       ArchiveIsHashed, AfterAssemble, HasArchive
  <2>7. DownloadsCounted'
    BY <1>a, <1>b, <2>others, <2>at, <2>lock, <2>held, <2>writes DEF IInv, DownloadsCounted
  <2>8. AcceptedIsStored'
    BY <1>b, <2>lock, <2>held, <2>writes DEF IInv, AcceptedIsStored
  <2>9. LoadedIsProved'
    BY <1>b, <2>lock, <2>held, <2>writes DEF IInv, LoadedIsProved
  <2>10. ReadyIsAssembled'
    BY <1>b, <2>lock, <2>held, <2>writes DEF IInv, ReadyIsAssembled, HasArchive
  <2>11. SuccessIsReady'
    BY <1>b, <2>lock, <2>held, <2>writes DEF IInv, SuccessIsReady
  <2> QED BY <2>1, <2>2, <2>3, <2>4, <2>5, <2>6, <2>7, <2>8, <2>9, <2>10, <2>11 DEF IInv
<1>9. ASSUME NEW p \in Procs, Assemble(p) PROVE IInv'
  <2>others. \A q \in Procs : q # p => pc[q] = "idle" /\ pc'[q] = "idle"
    BY <1>9, <1>a DEF IInv, LockHeld, Assemble
  <2>1. LockHeld'
    BY <1>9, <1>a DEF IInv, LockHeld, Assemble
  <2>2. MemIsState'
    BY <1>9, <1>a, <1>b, <2>others DEF IInv, MemIsState, Assemble
  <2>3. CurIsVerified'
    BY <1>9, <1>a, <1>b, <2>others DEF IInv, CurIsVerified, AfterVerify, AfterRecord,
       Acceptable, Assemble
  <2>4. MissingIsInvalid' /\ ArchiveIsHashed'
    BY <1>9, <1>a, <1>b, <2>others DEF IInv, MissingIsInvalid, ArchiveIsHashed,
       AfterAssemble, HasArchive, Assemble
  <2>5. DownloadsCounted'
    BY <1>9, <1>c DEF IInv, DownloadsCounted, Assemble
  <2>6. EmptyUntilAccepted' /\ AcceptedIsStored' /\ LoadedIsProved' /\ SuccessIsReady'
    BY <1>9, <1>a, <1>b DEF IInv, EmptyUntilAccepted, AcceptedIsStored, LoadedIsProved,
       SuccessIsReady, Assemble
  <2>7. ReadyIsAssembled'
    BY <1>9, <1>a, <1>b DEF IInv, ReadyIsAssembled, Assemble
  <2> QED BY <2>1, <2>2, <2>3, <2>4, <2>5, <2>6, <2>7 DEF IInv
<1>10. ASSUME NEW p \in Procs, SkipImport(p) PROVE IInv'
  <2>others. \A q \in Procs : q # p => pc[q] = "idle" /\ pc'[q] = "idle"
    BY <1>10, <1>a DEF IInv, LockHeld, SkipImport
  <2>1. LockHeld'
    BY <1>10, <1>a DEF IInv, LockHeld, SkipImport
  <2>2. MemIsState'
    BY <1>10, <1>a, <1>b, <2>others DEF IInv, MemIsState, LoadedIsProved, CurIsVerified,
       AfterVerify, AfterRecord, State, SkipImport
  <2>3. CurIsVerified'
    BY <1>10, <1>a, <1>b, <2>others DEF IInv, CurIsVerified, AfterVerify, AfterRecord,
       Acceptable, SkipImport
  <2>4. MissingIsInvalid' /\ ArchiveIsHashed'
    BY <1>10, <1>a, <1>b, <2>others DEF IInv, MissingIsInvalid, ArchiveIsHashed,
       AfterAssemble, HasArchive, SkipImport
  <2>5. DownloadsCounted'
    BY <1>10, <1>c DEF IInv, DownloadsCounted, SkipImport
  <2>6. EmptyUntilAccepted' /\ AcceptedIsStored' /\ LoadedIsProved' /\ ReadyIsAssembled' /\
     SuccessIsReady'
    BY <1>10, <1>a, <1>b DEF IInv, EmptyUntilAccepted, AcceptedIsStored, LoadedIsProved,
       ReadyIsAssembled, SuccessIsReady, SkipImport
  <2> QED BY <2>1, <2>2, <2>3, <2>4, <2>5, <2>6 DEF IInv
<1>11. ASSUME NEW p \in Procs, BeginImport(p) PROVE IInv'
  <2>others. \A q \in Procs : q # p => pc[q] = "idle" /\ pc'[q] = "idle"
    BY <1>11, <1>a DEF IInv, LockHeld, BeginImport
  <2>at. pc[p] = "import"
    BY <1>11 DEF BeginImport
  <2>lock. lock = p /\ exit = ""
    BY <1>a, <2>at DEF IInv, LockHeld
  <2>h1. mem[p] = state
    BY <1>a, <1>b, <2>at DEF IInv, MemIsState
  <2>h2. state.digest = cur[p]
    BY <1>a, <1>b, <2>at DEF IInv, CurIsVerified, AfterVerify, AfterRecord
  <2>h3. HasArchive(cur[p])
    BY <1>a, <1>b, <2>at DEF IInv, ArchiveIsHashed, AfterAssemble
  <2>held. cur[p] # None /\ mem[p] = state /\ state.digest = cur[p] /\ HasArchive(cur[p])
    BY <1>b, <2>at, <2>h1, <2>h2, <2>h3
  <2>writes. /\ state'.digest = state.digest /\ state'.seq = state.seq
        /\ state'.phase = "loading" /\ state'.loaded = None
        /\ pc' = [pc EXCEPT ![p] = "load"]
        /\ UNCHANGED <<manifests, cache, staged, images, downloads, damages, cur,
           lock, exit, archiveValid, missing>>
    BY <1>11, <1>a, <1>b, <2>at, <2>held DEF BeginImport, State
  <2>1. LockHeld'
    BY <1>11, <1>a, <1>b, <2>others DEF IInv, LockHeld, BeginImport
  <2>2. MemIsState'
    BY <1>11, <1>a, <1>b, <2>others DEF IInv, MemIsState, BeginImport
  <2>3. CurIsVerified'
    <3>1. cur[p] \in Authentic /\ manifests[cur[p]] # "absent"
      BY <2>at DEF IInv, CurIsVerified, AfterVerify
    <3>2. /\ pc'[p] = "load" /\ cur'[p] = cur[p] /\ state'.digest = cur[p]
          /\ manifests' = manifests /\ state'.loaded = None
      BY <1>a, <2>held, <2>writes
    <3> QED BY <2>others, <3>1, <3>2 DEF CurIsVerified, AfterVerify, AfterRecord
  <2>4. EmptyUntilAccepted'
    BY <1>b, <2>lock, <2>held, <2>writes DEF IInv, EmptyUntilAccepted
  <2>5. MissingIsInvalid'
    BY <1>11, <1>a, <1>b, <2>others DEF IInv, MissingIsInvalid, BeginImport
  <2>6. ArchiveIsHashed'
    BY <1>11, <1>a, <1>b, <2>others, <2>held, <2>writes DEF IInv, ArchiveIsHashed,
       AfterAssemble, HasArchive, BeginImport
  <2>7. DownloadsCounted'
    BY <1>a, <1>b, <2>others, <2>at, <2>lock, <2>held, <2>writes DEF IInv, DownloadsCounted
  <2>8. AcceptedIsStored'
    BY <1>b, <2>lock, <2>held, <2>writes DEF IInv, AcceptedIsStored
  <2>9. LoadedIsProved'
    BY <1>b, <2>lock, <2>held, <2>writes DEF IInv, LoadedIsProved
  <2>10. ReadyIsAssembled'
    BY <1>b, <2>lock, <2>held, <2>writes DEF IInv, ReadyIsAssembled, HasArchive
  <2>11. SuccessIsReady'
    BY <1>b, <2>lock, <2>held, <2>writes DEF IInv, SuccessIsReady
  <2> QED BY <2>1, <2>2, <2>3, <2>4, <2>5, <2>6, <2>7, <2>8, <2>9, <2>10, <2>11 DEF IInv
<1>12. ASSUME NEW p \in Procs, DockerImageLoad(p) PROVE IInv'
  <2>others. \A q \in Procs : q # p => pc[q] = "idle" /\ pc'[q] = "idle"
    BY <1>12, <1>a DEF IInv, LockHeld, DockerImageLoad
  <2>1. LockHeld'
    BY <1>12, <1>a DEF IInv, LockHeld, DockerImageLoad
  <2>2. MemIsState'
    BY <1>12, <1>a, <1>b, <2>others DEF IInv, MemIsState, DockerImageLoad
  <2>3. CurIsVerified'
    BY <1>12, <1>a, <1>b, <2>others DEF IInv, CurIsVerified, AfterVerify, AfterRecord,
       Acceptable, DockerImageLoad
  <2>4. MissingIsInvalid' /\ ArchiveIsHashed'
    BY <1>12, <1>a, <1>b, <2>others DEF IInv, MissingIsInvalid, ArchiveIsHashed,
       AfterAssemble, HasArchive, DockerImageLoad
  <2>5. DownloadsCounted'
    BY <1>12, <1>c DEF IInv, DownloadsCounted, DockerImageLoad
  <2>6. EmptyUntilAccepted' /\ AcceptedIsStored' /\ LoadedIsProved' /\ ReadyIsAssembled' /\
     SuccessIsReady'
    BY <1>12, <1>a, <1>b DEF IInv, EmptyUntilAccepted, AcceptedIsStored, LoadedIsProved,
       ReadyIsAssembled, SuccessIsReady, DockerImageLoad
  <2> QED BY <2>1, <2>2, <2>3, <2>4, <2>5, <2>6 DEF IInv
<1>13. ASSUME NEW p \in Procs, ProveImport(p) PROVE IInv'
  <2>others. \A q \in Procs : q # p => pc[q] = "idle" /\ pc'[q] = "idle"
    BY <1>13, <1>a DEF IInv, LockHeld, ProveImport
  <2>1. LockHeld'
    BY <1>13, <1>a DEF IInv, LockHeld, ProveImport, verifyLoadedConfigIdentity
  <2>2. MemIsState'
    BY <1>13, <1>a, <1>b, <2>others DEF IInv, MemIsState, ProveImport,
       verifyLoadedConfigIdentity
  <2>3. CurIsVerified'
    BY <1>13, <1>a, <1>b, <2>others DEF IInv, CurIsVerified, AfterVerify, AfterRecord,
       Acceptable, ProveImport, verifyLoadedConfigIdentity
  <2>4. MissingIsInvalid' /\ ArchiveIsHashed'
    BY <1>13, <1>a, <1>b, <2>others DEF IInv, MissingIsInvalid, ArchiveIsHashed,
       AfterAssemble, HasArchive, ProveImport, verifyLoadedConfigIdentity
  <2>5. DownloadsCounted'
    BY <1>13, <1>c DEF IInv, DownloadsCounted, ProveImport, verifyLoadedConfigIdentity
  <2>6. EmptyUntilAccepted' /\ AcceptedIsStored' /\ LoadedIsProved' /\ ReadyIsAssembled' /\
     SuccessIsReady'
    BY <1>13, <1>a, <1>b DEF IInv, EmptyUntilAccepted, AcceptedIsStored, LoadedIsProved,
       ReadyIsAssembled, SuccessIsReady, ProveImport, verifyLoadedConfigIdentity
  <2> QED BY <2>1, <2>2, <2>3, <2>4, <2>5, <2>6 DEF IInv
<1>14. ASSUME NEW p \in Procs, Finish(p) PROVE IInv'
  <2>others. \A q \in Procs : q # p => pc[q] = "idle" /\ pc'[q] = "idle"
    BY <1>14, <1>a DEF IInv, LockHeld, Finish
  <2>at. pc[p] = "finish"
    BY <1>14 DEF Finish
  <2>lock. lock = p /\ exit = ""
    BY <1>a, <2>at DEF IInv, LockHeld
  <2>h1. state.digest = cur[p]
    BY <1>a, <1>b, <2>at DEF IInv, CurIsVerified, AfterVerify, AfterRecord
  <2>h2. HasArchive(cur[p])
    BY <1>a, <1>b, <2>at DEF IInv, ArchiveIsHashed, AfterAssemble
  <2>h3. /\ mem[p].seq = state.seq /\ mem[p].digest = state.digest
         /\ mem[p].phase = "loaded" => mem[p].loaded = cur[p]
         /\ mem[p].phase \in {"staged", "loaded"}
         /\ mem[p].loaded # None => mem[p].loaded \in images
    BY <1>a, <1>b, <2>at DEF IInv, MemIsState
  <2>held. cur[p] # None /\ state.digest = cur[p] /\ HasArchive(cur[p])
    BY <1>b, <2>at, <2>h1, <2>h2, <2>h3
  <2>writes. /\ state'.digest = state.digest /\ state'.seq = state.seq
        /\ state' = mem[p]
        /\ pc' = [pc EXCEPT ![p] = "idle"]
        /\ UNCHANGED <<manifests, cache, staged, images, downloads, damages>>
    BY <1>14, <1>a, <1>b, <2>at, <2>held, <2>h3 DEF Finish, State
  <2>1. LockHeld'
    BY <1>14, <1>a, <1>b, <2>others DEF IInv, LockHeld, Finish
  <2>2. MemIsState'
    BY <1>14, <1>a, <1>b, <2>others DEF IInv, MemIsState, Finish
  <2>3. CurIsVerified'
    BY <1>a, <1>b, <2>others, <2>at, <2>lock, <2>held, <2>writes DEF IInv, CurIsVerified,
       AfterVerify, AfterRecord
  <2>4. EmptyUntilAccepted'
    BY <1>b, <2>lock, <2>held, <2>h3, <2>writes DEF IInv, EmptyUntilAccepted
  <2>5. MissingIsInvalid'
    BY <1>14, <1>a, <1>b, <2>others DEF IInv, MissingIsInvalid, Finish
  <2>6. ArchiveIsHashed'
    BY <1>14, <1>a, <1>b, <2>others, <2>held, <2>writes DEF IInv, ArchiveIsHashed,
       AfterAssemble, HasArchive, Finish
  <2>7. DownloadsCounted'
    BY <1>a, <1>b, <2>others, <2>at, <2>lock, <2>held, <2>writes DEF IInv, DownloadsCounted
  <2>8. AcceptedIsStored'
    BY <1>b, <2>lock, <2>held, <2>h3, <2>writes DEF IInv, AcceptedIsStored
  <2>9. LoadedIsProved'
    BY <1>b, <2>lock, <2>held, <2>h3, <2>writes DEF IInv, LoadedIsProved
  <2>10. ReadyIsAssembled'
    BY <1>b, <2>lock, <2>held, <2>h3, <2>writes DEF IInv, ReadyIsAssembled, HasArchive
  <2>11. SuccessIsReady'
    BY <1>b, <2>lock, <2>held, <2>h3, <2>writes DEF IInv, SuccessIsReady
  <2> QED BY <2>1, <2>2, <2>3, <2>4, <2>5, <2>6, <2>7, <2>8, <2>9, <2>10, <2>11 DEF IInv
<1>15. ASSUME NEW p \in Procs, Reject(p) PROVE IInv'
  <2>others. \A q \in Procs : q # p => pc[q] = "idle" /\ pc'[q] = "idle"
    BY <1>15, <1>a DEF IInv, LockHeld, Reject
  <2>1. LockHeld'
    BY <1>15, <1>a DEF IInv, LockHeld, Reject
  <2>2. MemIsState'
    BY <1>15, <1>a, <1>b, <2>others DEF IInv, MemIsState, Reject
  <2>3. CurIsVerified'
    BY <1>15, <1>a, <1>b, <2>others DEF IInv, CurIsVerified, AfterVerify, AfterRecord,
       Acceptable, Reject
  <2>4. MissingIsInvalid' /\ ArchiveIsHashed'
    BY <1>15, <1>a, <1>b, <2>others DEF IInv, MissingIsInvalid, ArchiveIsHashed,
       AfterAssemble, HasArchive, Reject
  <2>5. DownloadsCounted'
    BY <1>15, <1>c DEF IInv, DownloadsCounted, Reject
  <2>6. EmptyUntilAccepted' /\ AcceptedIsStored' /\ LoadedIsProved' /\ ReadyIsAssembled' /\
     SuccessIsReady'
    BY <1>15, <1>a, <1>b DEF IInv, EmptyUntilAccepted, AcceptedIsStored, LoadedIsProved,
       ReadyIsAssembled, SuccessIsReady, Reject
  <2> QED BY <2>1, <2>2, <2>3, <2>4, <2>5, <2>6 DEF IInv
<1>16. ASSUME NEW p \in Procs, Abort(p) PROVE IInv'
  <2>others. \A q \in Procs : q # p => pc[q] = "idle" /\ pc'[q] = "idle"
    BY <1>16, <1>a DEF IInv, LockHeld, Abort
  <2>1. LockHeld'
    BY <1>16, <1>a DEF IInv, LockHeld, Abort
  <2>2. MemIsState'
    BY <1>16, <1>a, <1>b, <2>others DEF IInv, MemIsState, Abort
  <2>3. CurIsVerified'
    BY <1>16, <1>a, <1>b, <2>others DEF IInv, CurIsVerified, AfterVerify, AfterRecord,
       Acceptable, Abort
  <2>4. MissingIsInvalid' /\ ArchiveIsHashed'
    BY <1>16, <1>a, <1>b, <2>others DEF IInv, MissingIsInvalid, ArchiveIsHashed,
       AfterAssemble, HasArchive, Abort
  <2>5. DownloadsCounted'
    BY <1>16, <1>c DEF IInv, DownloadsCounted, Abort
  <2>6. EmptyUntilAccepted' /\ AcceptedIsStored' /\ LoadedIsProved' /\ ReadyIsAssembled' /\
     SuccessIsReady'
    BY <1>16, <1>a, <1>b DEF IInv, EmptyUntilAccepted, AcceptedIsStored, LoadedIsProved,
       ReadyIsAssembled, SuccessIsReady, Abort
  <2> QED BY <2>1, <2>2, <2>3, <2>4, <2>5, <2>6 DEF IInv
<1>17. ASSUME NEW p \in Procs, Misload(p) PROVE IInv'
  <2>others. \A q \in Procs : q # p => pc[q] = "idle" /\ pc'[q] = "idle"
    BY <1>17, <1>a DEF IInv, LockHeld, Misload
  <2>1. LockHeld'
    BY <1>17, <1>a DEF IInv, LockHeld, Misload
  <2>2. MemIsState'
    BY <1>17, <1>a, <1>b, <2>others DEF IInv, MemIsState, Misload
  <2>3. CurIsVerified'
    BY <1>17, <1>a, <1>b, <2>others DEF IInv, CurIsVerified, AfterVerify, AfterRecord,
       Acceptable, Misload
  <2>4. MissingIsInvalid' /\ ArchiveIsHashed'
    BY <1>17, <1>a, <1>b, <2>others DEF IInv, MissingIsInvalid, ArchiveIsHashed,
       AfterAssemble, HasArchive, Misload
  <2>5. DownloadsCounted'
    BY <1>17, <1>c DEF IInv, DownloadsCounted, Misload
  <2>6. EmptyUntilAccepted' /\ AcceptedIsStored' /\ LoadedIsProved' /\ ReadyIsAssembled' /\
     SuccessIsReady'
    BY <1>17, <1>a, <1>b DEF IInv, EmptyUntilAccepted, AcceptedIsStored, LoadedIsProved,
       ReadyIsAssembled, SuccessIsReady, Misload
  <2> QED BY <2>1, <2>2, <2>3, <2>4, <2>5, <2>6 DEF IInv
<1>18. ASSUME NEW c \in Chunks, DamageChunk(c) PROVE IInv'
  <2>1. LockHeld' /\ MemIsState'
    BY <1>18, <1>a, <1>b DEF IInv, LockHeld, MemIsState, DamageChunk
  <2>2. CurIsVerified'
    BY <1>18, <1>a, <1>b DEF IInv, CurIsVerified, AfterVerify, AfterRecord, Acceptable,
       DamageChunk
  <2>3. MissingIsInvalid' /\ ArchiveIsHashed'
    BY <1>18, <1>a, <1>b DEF IInv, MissingIsInvalid, ArchiveIsHashed, AfterAssemble,
       HasArchive, DamageChunk
  <2>4. DownloadsCounted'
    BY <1>18, <1>c, <1>b DEF IInv, DownloadsCounted, DamageChunk
  <2>5. EmptyUntilAccepted' /\ AcceptedIsStored' /\ LoadedIsProved' /\ ReadyIsAssembled' /\
     SuccessIsReady'
    BY <1>18, <1>a, <1>b DEF IInv, EmptyUntilAccepted, AcceptedIsStored, LoadedIsProved,
       ReadyIsAssembled, SuccessIsReady, DamageChunk
  <2> QED BY <2>1, <2>2, <2>3, <2>4, <2>5 DEF IInv
<1>19. ASSUME NEW a \in Artifacts, DamageArchive(a) PROVE IInv'
  <2>1. LockHeld' /\ MemIsState'
    BY <1>19, <1>a, <1>b DEF IInv, LockHeld, MemIsState, DamageArchive
  <2>2. CurIsVerified'
    BY <1>19, <1>a, <1>b DEF IInv, CurIsVerified, AfterVerify, AfterRecord, Acceptable,
       DamageArchive
  <2>3. MissingIsInvalid' /\ ArchiveIsHashed'
    BY <1>19, <1>a, <1>b DEF IInv, MissingIsInvalid, ArchiveIsHashed, AfterAssemble,
       HasArchive, DamageArchive
  <2>4. DownloadsCounted'
    BY <1>19, <1>c, <1>b DEF IInv, DownloadsCounted, DamageArchive
  <2>5. EmptyUntilAccepted' /\ AcceptedIsStored' /\ LoadedIsProved' /\ SuccessIsReady'
    BY <1>19, <1>a, <1>b DEF IInv, EmptyUntilAccepted, AcceptedIsStored, LoadedIsProved,
       SuccessIsReady, DamageArchive
  <2>6. ReadyIsAssembled'
    BY <1>19, <1>a, <1>b DEF IInv, ReadyIsAssembled, DamageArchive
  <2> QED BY <2>1, <2>2, <2>3, <2>4, <2>5, <2>6 DEF IInv
<1>20. ASSUME NEW m \in Manifests, DamageManifest(m) PROVE IInv'
  <2>1. LockHeld' /\ MemIsState'
    BY <1>20, <1>a, <1>b DEF IInv, LockHeld, MemIsState, DamageManifest
  <2>2. CurIsVerified'
    BY <1>20, <1>a, <1>b DEF IInv, CurIsVerified, AfterVerify, AfterRecord, Acceptable,
       DamageManifest
  <2>3. MissingIsInvalid' /\ ArchiveIsHashed'
    BY <1>20, <1>a, <1>b DEF IInv, MissingIsInvalid, ArchiveIsHashed, AfterAssemble,
       HasArchive, DamageManifest
  <2>4. DownloadsCounted'
    BY <1>20, <1>c, <1>b DEF IInv, DownloadsCounted, DamageManifest
  <2>5. EmptyUntilAccepted' /\ AcceptedIsStored' /\ LoadedIsProved' /\ ReadyIsAssembled' /\
     SuccessIsReady'
    BY <1>20, <1>a, <1>b DEF IInv, EmptyUntilAccepted, AcceptedIsStored, LoadedIsProved,
       ReadyIsAssembled, SuccessIsReady, DamageManifest
  <2> QED BY <2>1, <2>2, <2>3, <2>4, <2>5 DEF IInv
<1>21. ASSUME NEW u \in Urls, NEW m \in Manifests, Serve(u, m) PROVE IInv'
  <2>1. LockHeld' /\ MemIsState'
    BY <1>21, <1>a, <1>b DEF IInv, LockHeld, MemIsState, Serve
  <2>2. CurIsVerified'
    BY <1>21, <1>a, <1>b DEF IInv, CurIsVerified, AfterVerify, AfterRecord, Acceptable, Serve
  <2>3. MissingIsInvalid' /\ ArchiveIsHashed'
    BY <1>21, <1>a, <1>b DEF IInv, MissingIsInvalid, ArchiveIsHashed, AfterAssemble,
       HasArchive, Serve
  <2>4. DownloadsCounted'
    BY <1>21, <1>c, <1>b DEF IInv, DownloadsCounted, Serve
  <2>5. EmptyUntilAccepted' /\ AcceptedIsStored' /\ LoadedIsProved' /\ ReadyIsAssembled' /\
     SuccessIsReady'
    BY <1>21, <1>a, <1>b DEF IInv, EmptyUntilAccepted, AcceptedIsStored, LoadedIsProved,
       ReadyIsAssembled, SuccessIsReady, Serve
  <2> QED BY <2>1, <2>2, <2>3, <2>4, <2>5 DEF IInv
<1>22. CASE UNCHANGED vars
  BY <1>22 DEF vars, IInv, LockHeld, MemIsState, CurIsVerified, EmptyUntilAccepted,
     MissingIsInvalid, ArchiveIsHashed, DownloadsCounted, AcceptedIsStored, LoadedIsProved,
     ReadyIsAssembled, SuccessIsReady, TypeOK, AfterVerify, AfterRecord, AfterAssemble,
     HasArchive, Acceptable
<1> QED
  BY <1>1, <1>2, <1>3, <1>4, <1>5, <1>6, <1>7, <1>8, <1>9, <1>10, <1>11, <1>12, <1>13,
     <1>14, <1>15, <1>16, <1>17, <1>18, <1>19, <1>20, <1>21, <1>22 DEF Next, Advance, Fault

(* The initial state directory satisfies the inductive invariant.          *)
LEMMA InvInit == Init => IInv
<1> SUFFICES ASSUME Init PROVE IInv
    OBVIOUS
<1> USE ManifestAssumption, EnvironmentAssumption
<1>a. damages = [c \in Chunks |-> 0] /\ downloads = [c \in Chunks |-> 0]
  BY DEF Init
<1>1. TypeOK
  <2>1. damages \in [Chunks -> 0..MaxDamage] /\ downloads \in [Chunks -> Nat]
    <3>1. 0 \in 0..MaxDamage
      OBVIOUS
    <3> QED BY <1>a, <3>1
  <2>2. missing \in [Procs -> SUBSET Chunks] /\ images \in SUBSET Manifests
    BY DEF Init
  <2>3. mem \in [Procs -> State] /\ opt \in [Procs -> Options] /\ state \in State
    BY StateForms DEF Init
  <2> QED BY <2>1, <2>2, <2>3 DEF Init, TypeOK, Steps, FileStatus
<1>2. LockHeld /\ MemIsState /\ CurIsVerified
  BY DEF Init, LockHeld, MemIsState, CurIsVerified, AfterVerify, AfterRecord
<1>3. /\ EmptyUntilAccepted /\ AcceptedIsStored /\ LoadedIsProved /\ ReadyIsAssembled
      /\ SuccessIsReady
  BY DEF Init, EmptyState, EmptyUntilAccepted, AcceptedIsStored, LoadedIsProved,
         ReadyIsAssembled, SuccessIsReady
<1>4. MissingIsInvalid /\ ArchiveIsHashed
  BY DEF Init, MissingIsInvalid, ArchiveIsHashed, AfterAssemble
<1>5. DownloadsCounted
  BY <1>a DEF DownloadsCounted
<1> QED BY <1>1, <1>2, <1>3, <1>4, <1>5 DEF IInv

(* The inductive invariant holds throughout, for any number of processes   *)
(* on one state directory and whatever the hub serves.                     *)
THEOREM AgentInvariant == Spec => []IInv
<1>1. Init => IInv
  BY InvInit
<1>2. IInv /\ [Next]_vars => IInv'
  <2> SUFFICES ASSUME IInv, [Next]_vars PROVE IInv'
      OBVIOUS
  <2>1. TypeOK'
    BY TypeStep DEF IInv
  <2> QED BY <2>1, InvStep
<1> QED BY <1>1, <1>2, PTL DEF Spec

(* The state directory is always well-typed: a process past the manifest   *)
(* request holds a manifest, and counters stay within their bounds.        *)
THEOREM AgentTypeOK == Spec => []TypeOK
<1>1. IInv => TypeOK
  BY DEF IInv
<1> QED BY <1>1, AgentInvariant, PTL

(* state.json only ever names a verified manifest whose envelope is stored *)
(* (Sync writes manifests/<digest>.json before state.json).                *)
THEOREM AgentAcceptedIsStored == Spec => []AcceptedIsStored
<1>1. IInv => AcceptedIsStored
  BY DEF IInv
<1> QED BY <1>1, AgentInvariant, PTL

(* The loaded marker of state.json always names a release whose configs    *)
(* were read back from Docker, whatever crashed between the load, the      *)
(* proof and the write.                                                    *)
THEOREM AgentLoadedIsProved == Spec => []LoadedIsProved
<1>1. IInv => LoadedIsProved
  BY DEF IInv
<1> QED BY <1>1, AgentInvariant, PTL

(* An archive that state.json reports was assembled and hashed.            *)
THEOREM AgentReadyIsAssembled == Spec => []ReadyIsAssembled
<1>1. IInv => ReadyIsAssembled
  BY DEF IInv
<1> QED BY <1>1, AgentInvariant, PTL

(* A Sync that returned without error left the accepted release recorded   *)
(* as ready, and as loaded only with the proof for exactly that manifest.  *)
THEOREM AgentSuccessIsReady == Spec => []SuccessIsReady
<1>1. IInv => SuccessIsReady
  BY DEF IInv
<1> QED BY <1>1, AgentInvariant, PTL

(* A chunk is downloaded once, and once more for each time its cache file  *)
(* was damaged: interruptions and further releases cost nothing again.     *)
THEOREM AgentDownloadedOnce == Spec => []DownloadedOnce
<1>1. IInv => DownloadedOnce
  <2> SUFFICES ASSUME IInv, NEW c \in Chunks PROVE downloads[c] <= 1 + damages[c]
      BY DEF DownloadedOnce
  <2>1. downloads[c] \in Nat /\ damages[c] \in 0..MaxDamage
    BY DEF IInv, TypeOK
  <2>2. downloads[c] <= damages[c] + (IF cache[c] = "good" THEN 1 ELSE 0)
    BY DEF IInv, DownloadsCounted
  <2> QED BY <2>1, <2>2, EnvironmentAssumption
<1> QED BY <1>1, AgentInvariant, PTL

(* Everything a step can do to state.json: nothing; record a manifest that *)
(* is no rollback; move the phase of the accepted one; clear the loaded    *)
(* marker before an import; or complete.                                   *)
Records ==
    /\ state'.digest \in Authentic
    /\ state'.seq = SeqOf[state'.digest]
    /\ state'.seq >= state.seq
    /\ state'.seq = state.seq /\ state.digest # None => state'.digest = state.digest
    /\ state'.phase = "planning"
    /\ state'.loaded = state.loaded

Continues ==
    /\ state.digest # None
    /\ state'.digest = state.digest /\ state'.seq = state.seq
    /\ \/ state'.phase \in {"fetching", "assembling"} /\ state'.loaded = state.loaded
       \/ state'.phase = "loading" /\ state'.loaded = None /\ state.loaded # state.digest
       \/ /\ state'.phase \in {"staged", "loaded"}
          /\ state'.loaded \in {state.loaded, state.digest}

(* Each write of state.json has one of these shapes.                       *)
LEMMA StateWrites == IInv /\ [Next]_vars => state' = state \/ Records \/ Continues
<1> SUFFICES ASSUME IInv, [Next]_vars PROVE state' = state \/ Records \/ Continues
    OBVIOUS
<1> USE DEF durable, volatile, history
<1>a. /\ pc \in [Procs -> Steps] /\ mem \in [Procs -> State]
      /\ state \in State /\ None \notin Manifests
      /\ \A q \in Procs : pc[q] \notin {"idle", "get"} => cur[q] \in Manifests
  BY EnvironmentAssumption DEF IInv, TypeOK
<1>b. \A p \in Procs : pc[p] \in AfterRecord => state.digest = cur[p] /\ cur[p] # None
  BY <1>a DEF IInv, CurIsVerified, AfterVerify, AfterRecord
<1>c. \A p \in Procs : pc[p] \in AfterVerify \ {"finish"} => mem[p] = state
  BY DEF IInv, MemIsState, AfterVerify
<1>1. ASSUME NEW p \in Procs, RecordPlanning(p) PROVE Records
  <2>1. mem[p] = state /\ cur[p] \in Authentic /\ Acceptable(p)
    BY <1>1, <1>c DEF RecordPlanning, IInv, CurIsVerified, AfterVerify
  <2>2. /\ state'.digest = cur[p] /\ state'.seq = SeqOf[cur[p]]
        /\ state'.phase = "planning" /\ state'.loaded = state.loaded
    BY <1>1, <2>1 DEF RecordPlanning, writeState
  <2> QED BY <2>1, <2>2 DEF Records, Acceptable, Verify
<1>2. ASSUME NEW p \in Procs, Plan(p) PROVE Continues
  <2>1. mem[p] = state /\ state.digest = cur[p] /\ cur[p] # None
    BY <1>2, <1>b, <1>c DEF Plan, AfterVerify, AfterRecord
  <2>2. state' = [state EXCEPT !.phase = "fetching"]
    BY <1>2, <2>1 DEF Plan, writeState
  <2> QED BY <1>a, <2>1, <2>2 DEF Continues, State
<1>3. ASSUME NEW p \in Procs, FetchDone(p) PROVE Continues
  <2>1. mem[p] = state /\ state.digest = cur[p] /\ cur[p] # None
    BY <1>3, <1>b, <1>c DEF FetchDone, AfterVerify, AfterRecord
  <2>2. state' = [state EXCEPT !.phase = "assembling"]
    BY <1>3, <2>1 DEF FetchDone, writeState
  <2> QED BY <1>a, <2>1, <2>2 DEF Continues, State
<1>4. ASSUME NEW p \in Procs, BeginImport(p) PROVE Continues
  <2>1. mem[p] = state /\ state.digest = cur[p] /\ cur[p] # None
    BY <1>4, <1>b, <1>c DEF BeginImport, AfterVerify, AfterRecord
  <2>2. state.loaded # cur[p] /\ state' = [state EXCEPT !.loaded = None, !.phase = "loading"]
    BY <1>4, <2>1 DEF BeginImport, writeState
  <2> QED BY <1>a, <2>1, <2>2 DEF Continues, State
<1>5. ASSUME NEW p \in Procs, Finish(p) PROVE Continues
  <2>1. pc[p] = "finish" /\ state' = mem[p]
    BY <1>5 DEF Finish
  <2>2. state.digest = cur[p] /\ cur[p] # None
    BY <1>b, <2>1 DEF AfterVerify, AfterRecord
  <2>3. /\ mem[p].seq = state.seq /\ mem[p].digest = state.digest
        /\ mem[p].phase \in {"staged", "loaded"}
        /\ mem[p].loaded = state.loaded \/ mem[p].loaded = cur[p]
    BY <2>1 DEF IInv, MemIsState
  <2> QED BY <2>1, <2>2, <2>3 DEF Continues
<1>6. ASSUME NEW p \in Procs, Advance(p) PROVE state' = state \/ Records \/ Continues
  BY <1>1, <1>2, <1>3, <1>4, <1>5, <1>6 DEF Advance, Begin, ReadCachedManifest, RequestManifest,
     SaveManifest, FetchChunk, Assemble, SkipImport, DockerImageLoad, ProveImport, Reject
<1>7. CASE Fault
  BY <1>7 DEF Fault, Abort, Misload, DamageChunk, DamageArchive, DamageManifest, Serve
<1>8. CASE UNCHANGED vars
  BY <1>8 DEF vars
<1> QED BY <1>6, <1>7, <1>8 DEF Next

(* The accepted release never moves back: state.json never goes to a       *)
(* smaller sequence, nor to another manifest of the same sequence.         *)
THEOREM AgentNoRollback == Spec => NoRollback
<1>1. IInv /\ [Next]_vars =>
        [/\ state'.seq >= state.seq
         /\ state'.seq = state.seq /\ state.digest # None => state'.digest = state.digest]_state
  <2> SUFFICES ASSUME IInv, [Next]_vars, state' # state
               PROVE  /\ state'.seq >= state.seq
                      /\ state'.seq = state.seq /\ state.digest # None
                            => state'.digest = state.digest
      OBVIOUS
  <2>1. state.seq \in Nat
    BY DEF IInv, TypeOK, State
  <2> QED BY <2>1, StateWrites DEF Records, Continues
<1> QED BY <1>1, AgentInvariant, PTL DEF Spec, NoRollback

(* Sync, with its processes, crashes and damage, implements the abstract   *)
(* release register.                                                       *)
THEOREM AgentRefinement == Spec => ImplementsRegister
<1>1. Init => Register!Init
  <2> SUFFICES ASSUME Init PROVE Register!Init
      OBVIOUS
  <2>1. state.digest = None /\ state.loaded = None /\ state.phase \notin {"staged", "loaded"}
    BY DEF Init, EmptyState
  <2> QED BY <2>1 DEF Register!Init
<1>2. IInv /\ [Next]_vars => [Register!Next]_(Register!vars)
  <2> SUFFICES ASSUME IInv, [Next]_vars PROVE [Register!Next]_(Register!vars)
      OBVIOUS
  <2>1. CASE state' = state
    BY <2>1 DEF Register!vars
  <2>2. CASE Records
    <3>1. /\ state.digest \in Manifests =>
                 state.seq = SeqOf[state.digest] /\ state.digest # None
          /\ state.seq \in Nat /\ state'.seq = SeqOf[state'.digest] /\ state'.seq >= state.seq
          /\ state'.seq \in Nat
      BY <2>2, ManifestAssumption, EnvironmentAssumption
         DEF Records, IInv, AcceptedIsStored, TypeOK, State
    <3>2. state.digest \in Manifests =>
             state'.digest = state.digest \/ SeqOf[state'.digest] > SeqOf[state.digest]
      BY <2>2, <3>1 DEF Records
    <3>3. Register!Accept(state'.digest)
      BY <2>2, <3>2 DEF Records, Register!Accept
    <3> QED BY <2>2, <3>3 DEF Records, Register!Next
  <2>3. CASE Continues
    <3>1. CASE state'.phase \in {"fetching", "assembling"} /\ state'.loaded = state.loaded
      <4>1. state.digest \in Authentic
        BY <2>3 DEF Continues, IInv, AcceptedIsStored
      <4>2. Register!Accept(state.digest)
        BY <2>3, <3>1 DEF Continues, Register!Accept
      <4> QED BY <4>1, <4>2 DEF Register!Next
    <3>2. CASE state'.phase = "loading" /\ state'.loaded = None /\ state.loaded # state.digest
      BY <2>3, <3>2 DEF Continues, Register!Next, Register!StartImport
    <3>3. CASE /\ state'.phase \in {"staged", "loaded"}
               /\ state'.loaded \in {state.loaded, state.digest}
      BY <2>3, <3>3 DEF Continues, Register!Next, Register!Complete
    <3> QED BY <2>3, <3>1, <3>2, <3>3 DEF Continues
  <2> QED BY <2>1, <2>2, <2>3, StateWrites
<1> QED BY <1>1, <1>2, AgentInvariant, PTL DEF Spec, ImplementsRegister, Register!Spec
=============================================================================

----------------------------- MODULE ConfRunner -----------------------------
(***************************************************************************)
(* The config-gated client (cmd/edgelab/conf.go, internal/clientconf): one *)
(* run of conf fetches and verifies the manifest, applies the allow and    *)
(* ignore lists, lets lab.Sync fetch and deliver, and may then recreate    *)
(* containers of the signed images.  The channel moves and containers come *)
(* and go between any two of its steps.                                    *)
(*                                                                         *)
(* lab.Sync is the subject of Agent: here it accepts what the channel      *)
(* holds unless that is older than what it accepted before, downloads,     *)
(* and loads when DockerLoad is set.  A container's name counts its        *)
(* "-restarted" suffixes.                                                  *)
(***************************************************************************)
EXTENDS Naturals, Sequences, SequencesExt, FiniteSets

CONSTANTS
    MaxRelease,   \* releases are their sequence numbers
    ImageIDs,     \* manifest.image_ids of each release; <<>> for a raw archive
    Allow,        \* releases the allow expression matches (all, if it is empty)
    Ignore,       \* releases the ignore expression matches
    Bases,        \* names of containers, less their "-restarted" suffixes
    Selected,     \* names, suffixes included, that restart.include and restart.exclude select
    Images,       \* images of the Docker daemon
    Descendants,  \* images built from an image, itself included
    MaxRuns,      \* bound: runs of conf
    MaxStarts,    \* bound: containers started by others
    MaxFaults,    \* bound: failed calls, failed syncs and crashes
    None

Releases == 1..MaxRelease

ASSUME ConfAssumption ==
    /\ MaxRelease \in Nat /\ MaxRuns \in Nat /\ MaxStarts \in Nat /\ MaxFaults \in Nat
    /\ Allow \subseteq Releases /\ Ignore \subseteq Releases
    /\ Selected \subseteq Bases \X Nat
    /\ Descendants \in [Images -> SUBSET Images]
    /\ DOMAIN ImageIDs = Releases /\ \A r \in Releases : ImageIDs[r] \in Seq(Images)

VARIABLES
    action,       \* Config.Action
    channel,      \* release the manifest URL serves
    accepted,     \* the agent's anti-rollback mark
    downloaded,   \* history: releases whose archive was fetched
    loaded,       \* history: releases Sync loaded and proved
    containers,   \* the Docker daemon's containers
    pc,
    m,            \* the manifest that passed the gate
    got,          \* the release Sync delivered
    ids,          \* image IDs RestartMatching has still to look up
    imageID,      \* the one it is working on
    todo,         \* containers listed and still to recreate
    current,      \* the container being recreated
    records,      \* AuditRecords of this run
    audit,        \* records in the audit file written last
    removed,      \* history: containers this run removed
    replaced,     \* history: those whose replacement was started
    touched,      \* history: containers this run stopped or removed, and its release
    born,         \* container IDs used
    runs, starts, faults

sync    == <<accepted, downloaded, loaded>>
locals  == <<pc, m, got, ids, imageID, todo, current, records>>
docker  == <<containers, born>>
history == <<removed, replaced, touched>>
bounds  == <<runs, starts, faults>>
vars    == <<action, channel, sync, docker, locals, audit, history, bounds>>

(* A configuration that Parse accepts; the action defaults to dry-run.     *)
Init ==
    /\ action \in {"dry-run", "load", "restart"}
    /\ channel \in Releases
    /\ accepted = 0 /\ downloaded = {} /\ loaded = {}
    /\ containers = {}
    /\ pc = "idle"
    /\ m = None /\ got = None
    /\ ids = <<>> /\ imageID = None /\ todo = {} /\ current = None /\ records = {}
    /\ audit = {}
    /\ removed = {} /\ replaced = {} /\ touched = {} /\ born = 0
    /\ runs = 0 /\ starts = 0 /\ faults = 0

-----------------------------------------------------------------------------
Fault == faults < MaxFaults /\ faults' = faults + 1

(* Ignore wins over allow; an empty allow matches everything.              *)
Eligible(r) == r \notin Ignore /\ (Allow = {} \/ r \in Allow)

(* The process returns or dies: its memory is gone.                        *)
Exit ==
    /\ pc' = "idle"
    /\ m' = None /\ got' = None
    /\ ids' = <<>> /\ imageID' = None /\ todo' = {} /\ current' = None /\ records' = {}

(* WriteAudit: a file named by the second; nothing reads the older ones.   *)
WriteAudit(recs) == audit' = recs

Start ==
    /\ pc = "idle" /\ runs < MaxRuns
    /\ runs' = runs + 1
    /\ removed' = {} /\ replaced' = {} /\ touched' = {}
    /\ pc' = "fetch"
    /\ UNCHANGED <<action, channel, sync, docker, m, got, ids, imageID, todo,
                   current, records, audit, starts, faults>>

(* fetchVerifiedManifest: no anti-rollback check here.                     *)
Fetch ==
    /\ pc = "fetch"
    /\ m' = channel
    /\ pc' = "gate"
    /\ UNCHANGED <<action, channel, sync, docker, got, ids, imageID, todo,
                   current, records, audit, history, bounds>>

(* An ineligible release ends the run with a plan ...                      *)
Filtered ==
    /\ pc = "gate" /\ ~Eligible(m)
    /\ Exit
    /\ UNCHANGED <<action, channel, sync, docker, audit, history, bounds>>

(* ... an eligible one goes to lab.Sync ...                                *)
Gate ==
    /\ pc = "gate" /\ Eligible(m)
    /\ pc' = "sync"
    /\ UNCHANGED <<action, channel, sync, docker, m, got, ids, imageID, todo,
                   current, records, audit, history, bounds>>

(* ... which fetches the manifest itself and refuses an older one ...      *)
SyncFetch ==
    /\ pc = "sync" /\ channel >= accepted
    /\ got' = channel /\ accepted' = channel
    /\ pc' = "transfer"
    /\ UNCHANGED <<action, channel, downloaded, loaded, docker, m, ids, imageID,
                   todo, current, records, audit, history, bounds>>

SyncRefuses ==
    /\ pc = "sync" /\ channel < accepted
    /\ WriteAudit({})
    /\ Exit
    /\ UNCHANGED <<action, channel, sync, docker, history, bounds>>

DockerLoad == action # "dry-run"

(* ... downloads the archive, and loads it if DockerLoad is set.           *)
Transfer ==
    /\ pc = "transfer"
    /\ downloaded' = downloaded \union {got}
    /\ pc' = IF DockerLoad THEN "load" ELSE "act"
    /\ UNCHANGED <<action, channel, accepted, loaded, docker, m, got, ids, imageID,
                   todo, current, records, audit, history, bounds>>

Load ==
    /\ pc = "load" /\ ImageIDs[got] # <<>>
    /\ loaded' = loaded \union {got}
    /\ pc' = "act"
    /\ UNCHANGED <<action, channel, accepted, downloaded, docker, m, got, ids,
                   imageID, todo, current, records, audit, history, bounds>>

(* A raw archive cannot be loaded.                                         *)
LoadRefused ==
    /\ pc = "load" /\ ImageIDs[got] = <<>>
    /\ WriteAudit({})
    /\ Exit
    /\ UNCHANGED <<action, channel, sync, docker, history, bounds>>

SyncFails ==
    /\ pc \in {"sync", "transfer", "load"}
    /\ Fault
    /\ WriteAudit({})
    /\ Exit
    /\ UNCHANGED <<action, channel, sync, docker, history, runs, starts>>

(* Act: only restart, with signed image IDs, does more than report.        *)
ActReports ==
    /\ pc = "act"
    /\ action # "restart" \/ ImageIDs[m] = <<>>
    /\ Exit
    /\ UNCHANGED <<action, channel, sync, docker, audit, history, bounds>>

ActRestarts ==
    /\ pc = "act"
    /\ action = "restart" /\ ImageIDs[m] # <<>>
    /\ ids' = ImageIDs[m]
    /\ pc' = "ps"
    /\ UNCHANGED <<action, channel, sync, docker, m, got, imageID, todo,
                   current, records, audit, history, bounds>>

(* RestartMatching: docker ps --filter ancestor= lists the running         *)
(* containers of an image and of those built from it.                      *)
Ps ==
    /\ pc = "ps" /\ ids # <<>>
    /\ imageID' = Head(ids) /\ ids' = Tail(ids)
    /\ todo' = {c \in containers : c.up /\ c.image \in Descendants[Head(ids)] /\ c.name \in Selected}
    /\ pc' = "each"
    /\ UNCHANGED <<action, channel, sync, docker, m, got, current, records,
                   audit, history, bounds>>

(* A failing docker ps returns before WriteAudit.                          *)
PsFails ==
    /\ pc = "ps" /\ ids # <<>>
    /\ Fault
    /\ Exit
    /\ UNCHANGED <<action, channel, sync, docker, audit, history, runs, starts>>

PsDone ==
    /\ pc = "ps" /\ ids = <<>>
    /\ pc' = "audit"
    /\ UNCHANGED <<action, channel, sync, docker, m, got, ids, imageID, todo,
                   current, records, audit, history, bounds>>

(* An AuditRecord names the signed image ID.                               *)
Note(c, done) ==
    records' = records \union {[container |-> c.id, image |-> imageID, release |-> m, recreated |-> done]}

EachDone ==
    /\ pc = "each" /\ todo = {}
    /\ pc' = "ps"
    /\ UNCHANGED <<action, channel, sync, docker, m, got, ids, imageID, todo,
                   current, records, audit, history, bounds>>

NamedByName(c) == {d \in containers : d.name = c.name} \* variant: docker is given the name

(* The container a docker stop or rm of the listed one's ID goes to.       *)
Named(c) == {d \in containers : d.id = c.id}

Touch(c) == touched' = touched \union {[container |-> d, release |-> m] : d \in Named(c)}

(* recreate, step 1: docker stop; a container already stopped is no error. *)
Stop(c) ==
    /\ pc = "each" /\ c \in todo
    /\ todo' = todo \ {c}
    /\ \/ /\ Named(c) # {}
          /\ containers' = (containers \ Named(c)) \union {[d EXCEPT !.up = FALSE] : d \in Named(c)}
          /\ Touch(c)
          /\ current' = c
          /\ pc' = "rm"
          /\ UNCHANGED <<records, faults>>
       \/ /\ Named(c) = {} \/ faults < MaxFaults
          /\ faults' = IF Named(c) = {} THEN faults ELSE faults + 1
          /\ Note(c, FALSE)
          /\ UNCHANGED <<containers, touched, current, pc>>
    /\ UNCHANGED <<action, channel, sync, m, got, ids, imageID, audit, born, removed, replaced, runs, starts>>

(* Step 2: docker rm.                                                      *)
Rm ==
    /\ pc = "rm"
    /\ \/ /\ Named(current) # {}
          /\ containers' = containers \ Named(current)
          /\ Touch(current)
          /\ removed' = removed \union {current.id}
          /\ pc' = "run"
          /\ UNCHANGED <<current, records, faults>>
       \/ /\ Named(current) = {} \/ faults < MaxFaults
          /\ faults' = IF Named(current) = {} THEN faults ELSE faults + 1
          /\ Note(current, FALSE)
          /\ current' = None
          /\ pc' = "each"
          /\ UNCHANGED <<containers, removed, touched>>
    /\ UNCHANGED <<action, channel, sync, m, got, ids, imageID, todo, audit, born, replaced, runs, starts>>

NewName(c) == <<c.name[1], c.name[2] + 1>>
NameFree(n) == \A c \in containers : c.name # n

Replace ==
    /\ containers' = containers \union
         {[id |-> born + 1, name |-> NewName(current), image |-> imageID, up |-> TRUE]}
    /\ born' = born + 1
    /\ replaced' = replaced \union {current.id}
    /\ Note(current, TRUE)

RunUnchecked == \* variant: the result of docker run is not looked at
    /\ pc = "run"
    /\ \/ NameFree(NewName(current)) /\ Replace
       \/ Note(current, TRUE) /\ UNCHANGED <<docker, replaced>>
    /\ current' = None
    /\ pc' = "each"
    /\ UNCHANGED <<action, channel, sync, m, got, ids, imageID, todo, audit, removed, touched, bounds>>

(* Step 3: docker run under the new name, which may be taken.              *)
Run ==
    /\ pc = "run"
    /\ \/ NameFree(NewName(current)) /\ Replace /\ UNCHANGED faults
       \/ /\ ~NameFree(NewName(current)) \/ faults < MaxFaults
          /\ faults' = IF NameFree(NewName(current)) THEN faults + 1 ELSE faults
          /\ Note(current, FALSE)
          /\ UNCHANGED <<docker, replaced>>
    /\ current' = None
    /\ pc' = "each"
    /\ UNCHANGED <<action, channel, sync, m, got, ids, imageID, todo, audit, removed, touched, runs, starts>>

Audit ==
    /\ pc = "audit"
    /\ WriteAudit(records)
    /\ Exit
    /\ UNCHANGED <<action, channel, sync, docker, history, bounds>>

(* The process is killed, or a write of the summary or the audit fails;    *)
(* the history speaks of runs that return by themselves.                   *)
Crash ==
    /\ pc # "idle"
    /\ Fault
    /\ Exit
    /\ removed' = {} /\ replaced' = {}
    /\ UNCHANGED <<action, channel, sync, docker, audit, touched, runs, starts>>

-----------------------------------------------------------------------------
(* The hub's channel is promoted, or rolled back.                          *)
Serve(r) ==
    /\ pc # "idle" /\ r # channel
    /\ channel' = r
    /\ UNCHANGED <<action, sync, docker, locals, audit, history, bounds>>

(* Others start containers, and containers end or are removed: their names *)
(* are free then, their IDs never return.                                  *)
StartContainer(b, i) ==
    /\ starts < MaxStarts
    /\ NameFree(<<b, 0>>)
    /\ containers' = containers \union {[id |-> born + 1, name |-> <<b, 0>>, image |-> i, up |-> TRUE]}
    /\ born' = born + 1
    /\ starts' = starts + 1
    /\ UNCHANGED <<action, channel, sync, locals, audit, history, runs, faults>>

EndContainer(c) ==
    /\ c \in containers
    /\ Fault
    /\ \/ c.up /\ containers' = (containers \ {c}) \union {[c EXCEPT !.up = FALSE]}
       \/ containers' = containers \ {c}
    /\ UNCHANGED <<action, channel, sync, locals, audit, history, born, runs, starts>>

Conf ==
    \/ Start \/ Fetch \/ Filtered \/ Gate
    \/ SyncFetch \/ SyncRefuses \/ Transfer \/ Load \/ LoadRefused \/ SyncFails
    \/ ActReports \/ ActRestarts
    \/ Ps \/ PsFails \/ PsDone \/ EachDone \/ Rm \/ Run \/ Audit
    \/ \E c \in todo : Stop(c)

Next ==
    \/ Conf \/ Crash
    \/ \E r \in Releases : Serve(r)
    \/ \E b \in Bases, i \in Images : StartContainer(b, i)
    \/ \E c \in containers : EndContainer(c)

Spec == Init /\ [][Next]_vars

-----------------------------------------------------------------------------
(* Whatever starts, ends and takes a freed name between the listing and    *)
(* the docker calls, conf stops and removes no container but one whose     *)
(* name, with its suffixes, is selected and whose image is, or is built    *)
(* from, one that is signed for a release neither list excludes.           *)
OnlySelectedIsTouched ==
    \A t \in touched :
        /\ t.container.name \in Selected
        /\ \E i \in Range(ImageIDs[t.release]) : t.container.image \in Descendants[i]
        /\ t.release \notin Ignore
        /\ Allow # {} => t.release \in Allow

(* A run that gets as far as its audit has a record of every container it  *)
(* took away, and the record says whether the replacement runs, also when  *)
(* the new name was taken or a step failed.                                *)
LossIsReported ==
    pc = "audit" => \A i \in removed : \E rec \in records :
        rec.container = i /\ (rec.recreated <=> i \in replaced)

(* conf.go 8-9: "an ineligible release never costs bytes".  Sync fetches   *)
(* the manifest again and does not ask the gate: the channel may move in   *)
(* between.                                                                *)
IneligibleCostsNothing == \A r \in downloaded : Eligible(r)

(* runner.go 151: RestartMatching is "never called before a verified       *)
(* load".  The release it works on is the gate's, the one that was loaded  *)
(* is what Sync fetched.                                                   *)
NeverBeforeLoad == pc \in {"ps", "each", "rm", "run", "audit"} => m \in loaded

(* conf.go 13-14: restart "works only on containers whose image ID matches *)
(* the manifest's signed IDs".  The filter of docker ps also lists         *)
(* containers of images built from a signed one.                           *)
OnlySignedIsTouched == \A t \in touched : t.container.image \in Range(ImageIDs[t.release])
=============================================================================

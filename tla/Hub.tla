-------------------------------- MODULE Hub --------------------------------
(***************************************************************************)
(* The hub's read path (internal/hub/hub.go): concurrent GETs share one    *)
(* read of an object (the inflight map), bodies are kept in a              *)
(* byte-budgeted LRU, and the announce trigger (internal/push/trigger.go)  *)
(* drops cached metadata when it sees a release file written.  Every       *)
(* critical section of Hub.mu and of lru.mu is an action, and so is every  *)
(* read of a file.                                                         *)
(*                                                                         *)
(* A body is a model value.  The fault server may flip a bit of the slice  *)
(* load returned (`bad`), and the leader of a read returns the very slice  *)
(* that it put in the cache: `lent` names the request still holding it.    *)
(***************************************************************************)
EXTENDS Naturals, Sequences, FiniteSets

CONSTANTS
    Clients,      \* concurrent requests
    Metas,        \* releases/*.json objects
    Chunks,       \* chunks/*/*.gz objects
    Bodies,       \* contents of files
    SizeOf,       \* length of a content
    ChunkBody,    \* the content a chunk is addressed by
    MaxBytes,     \* cache budget
    Garbled,      \* contents that are no envelope of a release
    CorruptFirst, \* fault plan: chunk requests answered with a flipped bit
    MaxWrites,    \* bound: writes of release files
    MaxFaults,    \* bound: stats and reads of the trigger that fail
    None

(* A []byte in use: its content, whether a bit of it is flipped, and the   *)
(* request that holds it together with the cache, None if nobody does.     *)
Slices == [body : Bodies, bad : BOOLEAN, lent : Clients \union {None}]

(* fileStamp: size and modification time of a file.                        *)
Stamps == [size : Nat, mtime : Nat]

ASSUME HubAssumption ==
    /\ Metas \intersect Chunks = {}
    /\ SizeOf \in [Bodies -> Nat]
    /\ ChunkBody \in [Chunks -> Bodies]
    /\ Garbled \subseteq Bodies
    /\ {MaxBytes, CorruptFirst, MaxWrites, MaxFaults} \subseteq Nat
    /\ None \notin Clients \union Bodies \union Metas \union Chunks
    /\ None \notin Slices /\ None \notin Stamps

Objects  == Metas \union Chunks
Releases == Bodies \ {ChunkBody[c] : c \in Chunks} \* contents of release files

VARIABLES
    file,         \* content of each object's file, None if there is none
    mtime,        \* modification time of each release file, 0 if there is none
    dir,          \* the releases directory exists
    order,        \* LRU entries [obj, data], most recent first; data is a slice
    curBytes,     \* LRU.curBytes
    inflight,     \* leader of the read in flight of an object
    pc, obj,      \* where each request is, and the object it asks for
    call,         \* leader a request waits for
    got,          \* slice a request holds: [body, bad, lent], None after an error
    spoil,        \* the request is one of the first CorruptFirst
    tpc, tfile,   \* the trigger: where it is, and the file it looks at
    names,        \* release files its scan has still to look at
    stamps,       \* size and time of each file at its last stat, None if not seen
    announced,    \* content last taken up for an announcement
    primed,       \* the initial scan is over
    told,         \* history: content last given to the broker, None if none was
    failed,       \* history: files with a trigger_error since
    clean,        \* history: an invalidation no reader overlapped covers the file
    fresh,        \* history: files that appeared after the initial scan
    blurred,      \* history: files last written without the clock moving on
    chunkNo, writes, faults

cache    == <<order, curBytes>>
requests == <<inflight, pc, obj, call, got, spoil, chunkNo>>
trigger  == <<tpc, tfile, names, stamps, announced, primed, told, failed, faults>>
origin   == <<file, mtime, dir, writes, fresh, blurred>>
vars     == <<cache, requests, trigger, origin, clean>>

(* A hub process starting over an origin that may have releases already.   *)
Init ==
    /\ \E b \in [Metas -> Releases \union {None}] :
          /\ file = [o \in Objects |-> IF o \in Metas THEN b[o] ELSE ChunkBody[o]]
          /\ mtime = [m \in Metas |-> IF b[m] = None THEN 0 ELSE 1]
          /\ dir \in {TRUE, \E m \in Metas : b[m] # None}
    /\ order = <<>>
    /\ curBytes = 0
    /\ inflight = [o \in Objects |-> None]
    /\ pc = [r \in Clients |-> "idle"]
    /\ obj = [r \in Clients |-> None]
    /\ call = [r \in Clients |-> None]
    /\ got = [r \in Clients |-> None]
    /\ spoil = [r \in Clients |-> FALSE]
    /\ tpc = "wait"
    /\ tfile = None
    /\ names = {}
    /\ stamps = [m \in Metas |-> None]
    /\ announced = [m \in Metas |-> None]
    /\ told = [m \in Metas |-> None]
    /\ primed = FALSE
    /\ clean = Metas
    /\ fresh = {} /\ failed = {} /\ blurred = {}
    /\ chunkNo = 0 /\ writes = 0 /\ faults = 0

-----------------------------------------------------------------------------
(* LRU                                                                     *)
Cached(o) == \E i \in DOMAIN order : order[i].obj = o

DataOf(o) == order[CHOOSE i \in DOMAIN order : order[i].obj = o].data

(* The entries of a sequence whose object is in O, in their order.         *)
Only(s, O) ==
    LET only[i \in 0..Len(s)] ==
          IF i = 0 THEN <<>>
          ELSE IF s[i].obj \in O THEN Append(only[i - 1], s[i]) ELSE only[i - 1]
    IN  only[Len(s)]

Without(s, o) == Only(s, Objects \ {o})

(* get moves the entry to the front.                                       *)
Touched(o) == <<[obj |-> o, data |-> DataOf(o)]>> \o Without(order, o)

(* Bytes of a sequence of entries.                                         *)
Total(s) ==
    LET sum[i \in 0..Len(s)] == IF i = 0 THEN 0 ELSE sum[i - 1] + SizeOf[s[i].data.body]
    IN  sum[Len(s)]

(* put evicts from the back while it is over the budget and more than one  *)
(* entry is left: the longest prefix within the budget stays.              *)
Kept(s) ==
    LET fits == {n \in 1..Len(s) : n = 1 \/ Total(SubSeq(s, 1, n)) <= MaxBytes}
    IN  SubSeq(s, 1, CHOOSE n \in fits : \A k \in fits : k <= n)

PutUncounted(o, d) == \* variant: the replaced entry stays accounted
    LET s == <<[obj |-> o, data |-> d]>> \o Without(order, o)
    IN  /\ order' = Kept(s)
        /\ curBytes' = curBytes + SizeOf[d.body] - (Total(s) - Total(Kept(s)))

put(o, d) ==
    LET s    == <<[obj |-> o, data |-> d]>> \o Without(order, o)
        old  == IF Cached(o) THEN SizeOf[DataOf(o).body] ELSE 0
    IN  /\ order' = Kept(s)
        /\ curBytes' = curBytes + SizeOf[d.body] - old - (Total(s) - Total(Kept(s)))

-----------------------------------------------------------------------------
(* load                                                                    *)
Goto(r, step) == pc' = [pc EXCEPT ![r] = step]

Copy(d) == [d EXCEPT !.lent = None]

ArriveCounted(r, o) == \* variant: every request is numbered
    /\ pc[r] = "idle"
    /\ spoil' = [spoil EXCEPT ![r] = chunkNo < CorruptFirst]
    /\ chunkNo' = IF spoil'[r] THEN chunkNo + 1 ELSE chunkNo
    /\ obj' = [obj EXCEPT ![r] = o]
    /\ Goto(r, "lookup")
    /\ UNCHANGED <<cache, inflight, call, got, trigger, origin, clean>>

(* A GET arrives.  Chunk requests are counted up to CorruptFirst: the fault *)
(* plan does not tell later ones apart.                                    *)
Arrive(r, o) ==
    /\ pc[r] = "idle"
    /\ spoil' = [spoil EXCEPT ![r] = o \in Chunks /\ chunkNo < CorruptFirst]
    /\ chunkNo' = IF spoil'[r] THEN chunkNo + 1 ELSE chunkNo
    /\ obj' = [obj EXCEPT ![r] = o]
    /\ Goto(r, "lookup")
    /\ UNCHANGED <<cache, inflight, call, got, trigger, origin, clean>>

(* Fast path: a hit returns a copy.                                        *)
Lookup(r) ==
    /\ pc[r] = "lookup"
    /\ \/ /\ Cached(obj[r])
          /\ order' = Touched(obj[r])
          /\ got' = [got EXCEPT ![r] = Copy(DataOf(obj[r]))]
          /\ Goto(r, "serve")
       \/ /\ ~Cached(obj[r])
          /\ Goto(r, "fly")
          /\ UNCHANGED <<order, got>>
    /\ UNCHANGED <<curBytes, inflight, obj, call, spoil, chunkNo, trigger, origin, clean>>

(* Join the read in flight ...                                             *)
Join(r) ==
    /\ pc[r] = "fly"
    /\ inflight[obj[r]] # None
    /\ call' = [call EXCEPT ![r] = inflight[obj[r]]]
    /\ Goto(r, "wait")
    /\ UNCHANGED <<cache, inflight, obj, got, spoil, chunkNo, trigger, origin, clean>>

LeadAlways(r) == \* variant: a read in flight is not looked for
    /\ pc[r] = "fly"
    /\ inflight' = [inflight EXCEPT ![obj[r]] = r]
    /\ Goto(r, "read")
    /\ UNCHANGED <<cache, obj, call, got, spoil, chunkNo, trigger, origin, clean>>

(* ... or lead one.                                                        *)
Lead(r) ==
    /\ pc[r] = "fly"
    /\ inflight[obj[r]] = None
    /\ inflight' = [inflight EXCEPT ![obj[r]] = r]
    /\ Goto(r, "read")
    /\ UNCHANGED <<cache, obj, call, got, spoil, chunkNo, trigger, origin, clean>>

(* The underlying loader: os.ReadFile, an error when there is no file.     *)
Read(r) ==
    /\ pc[r] = "read"
    /\ got' = [got EXCEPT ![r] =
          IF file[obj[r]] = None THEN None
          ELSE [body |-> file[obj[r]], bad |-> FALSE, lent |-> r]]
    /\ Goto(r, "land")
    /\ UNCHANGED <<cache, inflight, obj, call, spoil, chunkNo, trigger, origin, clean>>

(* The inflight entry is deleted before the body is cached.                *)
Land(r) ==
    /\ pc[r] = "land"
    /\ inflight' = [inflight EXCEPT ![obj[r]] = None]
    /\ Goto(r, "finish")
    /\ UNCHANGED <<cache, obj, call, got, spoil, chunkNo, trigger, origin, clean>>

(* The requests that wait for r see its result, c.data and c.err.          *)
Done(r) ==
    LET woken == {q \in Clients : pc[q] = "wait" /\ call[q] = r}
    IN  /\ pc' = [q \in Clients |->
                     IF q \in woken THEN "woken" ELSE IF q = r THEN "serve" ELSE pc[q]]
        /\ got' = [q \in Clients |-> IF q \in woken THEN got[r] ELSE got[q]]

(* A body is put in the cache, an error is not; then wg.Done.              *)
Finish(r) ==
    /\ pc[r] = "finish"
    /\ IF got[r] = None THEN UNCHANGED cache ELSE put(obj[r], got[r])
    /\ Done(r)
    /\ UNCHANGED <<inflight, obj, call, spoil, chunkNo, trigger, origin, clean>>

WakeOnData(r) == \* variant: a waiter goes on only when there is a body
    /\ pc[r] = "woken"
    /\ got[r] # None
    /\ order' = IF Cached(obj[r]) THEN Touched(obj[r]) ELSE order
    /\ got' = [got EXCEPT ![r] = Copy(IF Cached(obj[r]) THEN DataOf(obj[r]) ELSE got[r])]
    /\ call' = [call EXCEPT ![r] = None]
    /\ Goto(r, "serve")
    /\ UNCHANGED <<curBytes, inflight, obj, spoil, chunkNo, trigger, origin, clean>>

(* A waiter prefers the cached body to the one of the call, and copies it. *)
Wake(r) ==
    /\ pc[r] = "woken"
    /\ \/ /\ got[r] = None
          /\ UNCHANGED <<order, got>>
       \/ /\ got[r] # None /\ Cached(obj[r])
          /\ order' = Touched(obj[r])
          /\ got' = [got EXCEPT ![r] = Copy(DataOf(obj[r]))]
       \/ /\ got[r] # None /\ ~Cached(obj[r])
          /\ order' = order
          /\ got' = [got EXCEPT ![r] = Copy(got[r])]
    /\ call' = [call EXCEPT ![r] = None]
    /\ Goto(r, "serve")
    /\ UNCHANGED <<curBytes, inflight, obj, spoil, chunkNo, trigger, origin, clean>>

(* The slice r was lent, after r is done with it.                          *)
Returned(d, r) ==
    IF d = None \/ d.lent # r THEN d
    ELSE [body |-> d.body, bad |-> d.bad # spoil[r], lent |-> None]

(* The fault server flips its bit in place and sends the body.             *)
Serve(r) ==
    /\ pc[r] = "serve"
    /\ order' = [i \in DOMAIN order |-> [order[i] EXCEPT !.data = Returned(@, r)]]
    /\ got' = [[q \in Clients |-> Returned(got[q], r)] EXCEPT ![r] = None]
    /\ obj' = [obj EXCEPT ![r] = None]
    /\ spoil' = [spoil EXCEPT ![r] = FALSE]
    /\ Goto(r, "idle")
    /\ UNCHANGED <<curBytes, inflight, call, chunkNo, trigger, origin, clean>>

-----------------------------------------------------------------------------
(* A publish or a promotion renames new content over a release file;       *)
(* AtomicWrite creates the directory when it has to.  Two writes may get   *)
(* the same modification time.                                             *)
Write(m, b) ==
    /\ writes < MaxWrites
    /\ writes' = writes + 1
    /\ file' = [file EXCEPT ![m] = b]
    /\ dir' = TRUE
    /\ \/ /\ mtime' = [mtime EXCEPT ![m] = @ + 1]
          /\ blurred' = blurred \ {m}
       \/ /\ mtime[m] # 0
          /\ mtime' = mtime
          /\ blurred' = blurred \union {m}
    /\ fresh' = IF primed /\ mtime[m] = 0 THEN fresh \union {m} ELSE fresh
    /\ clean' = clean \ {m}
    /\ UNCHANGED <<cache, requests, trigger>>

(* What the trigger tells one write of a file from another by.             *)
Stamp(m) == [size |-> SizeOf[file[m]], mtime |-> mtime[m]]

(* ScanOnce reads the directory; it returns at once without one, and when  *)
(* reading it fails ...                                                    *)
ReadDir ==
    /\ tpc = "wait"
    /\ \/ /\ dir
          /\ names' = {m \in Metas : mtime[m] # 0}
          /\ tpc' = "scan"
       \/ UNCHANGED <<names, tpc>>
    /\ UNCHANGED <<cache, requests, tfile, stamps, announced, primed, told, failed, faults, origin, clean>>

StatKnown(m) == \* variant: a file not seen before is never announced
    /\ tpc = "scan"
    /\ m \in names
    /\ names' = names \ {m}
    /\ stamps' = [stamps EXCEPT ![m] = Stamp(m)]
    /\ IF stamps[m] \notin {None, Stamp(m)}
       THEN tpc' = "read" /\ tfile' = m
       ELSE UNCHANGED <<tpc, tfile>>
    /\ UNCHANGED <<cache, requests, announced, primed, told, failed, faults, origin, clean>>

(* ... and looks at each file: one whose stamp changed is announced if it  *)
(* was known or the initial scan is over.                                  *)
Stat(m) ==
    /\ tpc = "scan"
    /\ m \in names
    /\ names' = names \ {m}
    /\ stamps' = [stamps EXCEPT ![m] = Stamp(m)]
    /\ IF stamps[m] # Stamp(m) /\ (stamps[m] # None \/ primed)
       THEN tpc' = "read" /\ tfile' = m
       ELSE UNCHANGED <<tpc, tfile>>
    /\ UNCHANGED <<cache, requests, announced, primed, told, failed, faults, origin, clean>>

(* A stat that fails leaves the file to the next scan.                     *)
StatFails(m) ==
    /\ tpc = "scan"
    /\ m \in names
    /\ faults < MaxFaults
    /\ faults' = faults + 1
    /\ names' = names \ {m}
    /\ UNCHANGED <<cache, requests, tpc, tfile, stamps, announced, primed, told, failed, origin, clean>>

(* The scan is over.                                                       *)
Primed ==
    /\ tpc = "scan"
    /\ names = {}
    /\ primed' = TRUE
    /\ tpc' = "wait"
    /\ UNCHANGED <<cache, requests, tfile, names, stamps, announced, told, failed, faults, origin, clean>>

(* announceFile cannot read the file: trigger_error.  The stamp is         *)
(* recorded already, so the next scan does not come back to the file.      *)
ReadFails ==
    /\ tpc = "read"
    /\ faults < MaxFaults
    /\ faults' = faults + 1
    /\ failed' = failed \union {tfile}
    /\ tpc' = "scan"
    /\ UNCHANGED <<cache, requests, tfile, names, stamps, announced, primed, told, origin, clean>>

(* announceFile reads the file.  The content taken up last is not          *)
(* announced again; one that does not parse is a trigger_error, after it   *)
(* has been recorded as announced.                                         *)
AnnounceFile ==
    /\ tpc = "read"
    /\ announced' = [announced EXCEPT ![tfile] = file[tfile]]
    /\ \/ /\ announced[tfile] = file[tfile]
          /\ tpc' = "scan"
          /\ failed' = failed
       \/ /\ announced[tfile] # file[tfile] /\ file[tfile] \in Garbled
          /\ tpc' = "scan"
          /\ failed' = failed \union {tfile}
       \/ /\ announced[tfile] # file[tfile] /\ file[tfile] \notin Garbled
          /\ tpc' = "announce"
          /\ failed' = failed
    /\ UNCHANGED <<cache, requests, tfile, names, stamps, primed, told, faults, origin, clean>>

(* Readers of m that may still put content older than the file's.          *)
Overlaps(m) ==
    \E r \in Clients : /\ pc[r] \in {"land", "finish"} /\ obj[r] = m
                       /\ got[r] # None /\ got[r].body # file[m]

InvalidateFront == \* variant: the scan stops at the first entry it keeps
    LET other == {i \in DOMAIN order : order[i].obj \notin Metas}
        rest  == {i \in DOMAIN order : \E j \in other : j <= i}
    IN  /\ tpc = "announce"
        /\ order' = SubSeq(order, Len(order) - Cardinality(rest) + 1, Len(order))
        /\ curBytes' = Total(order')
        /\ clean' = clean \union {m \in Metas : announced[m] = file[m] /\ ~Overlaps(m)}
        /\ told' = [told EXCEPT ![tfile] = announced[tfile]]
        /\ failed' = failed \ {tfile}
        /\ tpc' = "scan"
        /\ UNCHANGED <<requests, tfile, names, stamps, announced, primed, faults, origin>>

(* The announce event drops every cached release (InvalidatePrefix), and   *)
(* the broker is given the content announceFile read.                      *)
Invalidate ==
    /\ tpc = "announce"
    /\ order' = Only(order, Chunks)
    /\ curBytes' = curBytes - Total(Only(order, Metas))
    /\ clean' = clean \union {m \in Metas : announced[m] = file[m] /\ ~Overlaps(m)}
    /\ told' = [told EXCEPT ![tfile] = announced[tfile]]
    /\ failed' = failed \ {tfile}
    /\ tpc' = "scan"
    /\ UNCHANGED <<requests, tfile, names, stamps, announced, primed, faults, origin>>

Request(r) ==
    \/ Lookup(r) \/ Join(r) \/ Lead(r) \/ Read(r) \/ Land(r) \/ Finish(r)
    \/ Wake(r) \/ Serve(r)

Trigger ==
    \/ ReadDir \/ (\E m \in Metas : Stat(m) \/ StatFails(m)) \/ Primed
    \/ ReadFails \/ AnnounceFile \/ Invalidate

Next ==
    \/ \E r \in Clients : Request(r)
    \/ \E r \in Clients, o \in Objects : Arrive(r, o)
    \/ Trigger
    \/ \E m \in Metas, b \in Releases : Write(m, b)

Spec == Init /\ [][Next]_vars

-----------------------------------------------------------------------------
(* The byte count is the sum of the cached bodies, no object is cached     *)
(* twice, and the budget is kept unless a single entry is left.            *)
CacheBound ==
    /\ curBytes = Total(order)
    /\ \A i, j \in DOMAIN order : order[i].obj = order[j].obj => i = j
    /\ curBytes <= MaxBytes \/ Len(order) = 1

(* An inflight entry names the request that is reading that object, and    *)
(* whoever waits, waits for a request that will still finish.              *)
FlightHasLeader ==
    /\ \A o \in Objects, r \in Clients :
          inflight[o] = r <=> pc[r] \in {"read", "land"} /\ obj[r] = o
    /\ \A r \in Clients : pc[r] = "wait" =>
          /\ call[r] \in Clients \ {r}
          /\ pc[call[r]] \in {"read", "land", "finish"}
          /\ obj[call[r]] = obj[r]

(* After an invalidation that no older read overlapped, cached metadata is *)
(* the file's until the file is written again.                             *)
CleanIsFresh ==
    \A m \in clean : Cached(m) => DataOf(m).body = file[m]

(* Every request is answered: no waiter is left behind.                    *)
LoadReturns == \A r \in Clients : []<>(pc[r] = "idle")

(* No write is passed over in silence: once a scan is over, a file that    *)
(* appeared after the initial scan or was announced before, and has not    *)
(* been written since its stat, has its very content with the broker - or  *)
(* a trigger_error reported, or was written twice within one modification  *)
(* time.  This holds for writes at any moment of a scan, between the stat  *)
(* and the read and between the read and the announcement too.             *)
SeenIsTold ==
    tpc = "wait" => \A m \in Metas :
        (m \in fresh \/ told[m] # None) /\ stamps[m] = Stamp(m) =>
            told[m] = file[m] \/ m \in failed \/ m \in blurred

(* "files that appear afterwards are genuine publishes and must announce"  *)
(* (trigger.go, primed): a release file that appeared after the initial    *)
(* scan has reached the broker once a scan has passed it.  One failed read *)
(* is enough to violate it.                                                *)
MustAnnounce ==
    tpc = "wait" => \A m \in fresh : stamps[m] # None => told[m] # None

(* The corruption the fault plan asks for stays with chunks, although it   *)
(* is written into slices the cache and other requests share: release      *)
(* metadata is never cached or served with a flipped bit.                  *)
MetadataIsIntact ==
    /\ \A i \in DOMAIN order : order[i].data.bad => order[i].obj \in Chunks
    /\ \A r \in Clients : got[r] # None /\ got[r].bad => obj[r] \in Chunks

(* "so a fresh channel write is never shadowed by stale cached metadata"   *)
(* (hub.go, InvalidatePrefix): once the trigger has announced the content  *)
(* of the file, the cache does not hold another.                           *)
NeverShadowed ==
    \A m \in Metas : tpc \in {"wait", "scan"} /\ announced[m] = file[m] /\ file[m] # None /\ Cached(m)
        => DataOf(m).body = file[m]
=============================================================================

------------------------------ MODULE EventLog ------------------------------
(***************************************************************************)
(* The admin plane's durable event log (internal/admin/admin.go): a JSONL  *)
(* file with one previous generation, rotation by rename, a sequence       *)
(* number recovered from the current file on open, and cursor queries.     *)
(* EventLog.mu makes Emit, Query and Close atomic towards each other; a    *)
(* failed call or a crash can leave part of a line behind.                 *)
(*                                                                         *)
(* A line is [ids, seq, nl]: the events written on it, the number it       *)
(* parses to (0 when it does not parse), and whether its newline is there. *)
(***************************************************************************)
EXTENDS Naturals, Sequences, FiniteSetsExt

CONSTANTS
    MaxLines,     \* the generation cap; lines have one length here
    MaxEmits,    \* bound: calls of Emit
    MaxFaults     \* bound: crashes, restarts and failed calls

ASSUME EventLogAssumption == MaxLines \in Nat \ {0} /\ MaxEmits \in Nat /\ MaxFaults \in Nat

VARIABLES
    current, previous, \* the two generations, sequences of lines
    up,                \* the log is open
    handle,            \* its file handle is usable
    size, seq,         \* EventLog.size and EventLog.seq
    events,            \* calls of Emit so far; names the events
    acked,             \* history: events Emit returned nil for, in order
    cursor, lastRead,  \* a client's cursor, and the newest event it was given
    forgot,            \* history: the log was opened on a current file with no readable
                       \* line, or a readable line was left without its newline
    faults

files  == <<current, previous>>
log    == <<up, handle, size, seq>>
client == <<cursor, lastRead>>
logVars   == <<files, log, events, acked, client, forgot, faults>>

LogInit ==
    /\ current = <<>> /\ previous = <<>>
    /\ up = FALSE /\ handle = FALSE
    /\ size = 0 /\ seq = 0
    /\ events = 0 /\ acked = <<>>
    /\ cursor = 0 /\ lastRead = 0
    /\ forgot = FALSE
    /\ faults = 0

-----------------------------------------------------------------------------
Fault == faults < MaxFaults /\ faults' = faults + 1

LinesOf(f) == {f[i] : i \in DOMAIN f}

(* What appending an event's bytes makes of a file: a line without newline *)
(* is glued to them and parses no more.                                    *)
Appended(f, id, n, nl) ==
    IF f # <<>> /\ ~f[Len(f)].nl
    THEN [f EXCEPT ![Len(f)] = [ids |-> @.ids \union {id}, seq |-> 0, nl |-> nl]]
    ELSE Append(f, [ids |-> {id}, seq |-> n, nl |-> nl])

LastLineSeq(f) == IF f = <<>> THEN 0 ELSE f[Len(f)].seq \* variant: the last line's, if it parses

(* lastSeq: the largest number on a line of the current file that parses.  *)
lastSeq(f) == Max({l.seq : l \in LinesOf(f)} \union {0})

(* Rotation happens when the generation has reached its cap.               *)
FullGeneration(n) == n >= MaxLines

(* OpenEventLog.                                                           *)
Open ==
    /\ ~up
    /\ up' = TRUE /\ handle' = TRUE
    /\ seq' = lastSeq(current)
    /\ IF FullGeneration(Len(current))
       THEN current' = <<>> /\ previous' = current /\ size' = 0
       ELSE UNCHANGED files /\ size' = Len(current)
    /\ forgot' = (forgot \/ (events > 0 /\ \A l \in LinesOf(current) : l.seq = 0))
    /\ UNCHANGED <<events, acked, client, faults>>

(* The file Emit appends to, after the rotation it may start with.         *)
Rotated == IF FullGeneration(size) THEN <<>> ELSE current

RotateTruncates == previous' = previous \* variant: the file is truncated before the rename

Rotate == previous' = IF FullGeneration(size) THEN current ELSE previous

Size == IF FullGeneration(size) THEN 0 ELSE size

CanEmit == up /\ handle /\ events < MaxEmits

(* A successful Emit: rotate if full, write, fsync.                        *)
Emit ==
    /\ CanEmit
    /\ Rotate
    /\ events' = events + 1
    /\ seq' = seq + 1
    /\ current' = Appended(Rotated, events + 1, seq + 1, TRUE)
    /\ size' = Size + 1
    /\ acked' = Append(acked, events + 1)
    /\ UNCHANGED <<up, handle, client, forgot, faults>>

(* The write fails after some bytes, perhaps all but the newline: the      *)
(* number is taken back, the size is not advanced.                         *)
EmitTorn ==
    /\ CanEmit
    /\ Fault
    /\ Rotate
    /\ events' = events + 1
    /\ \E n \in {0, seq + 1} :
          /\ current' = Appended(Rotated, events + 1, n, FALSE)
          /\ forgot' = (forgot \/ n # 0)
    /\ size' = Size
    /\ UNCHANGED <<up, handle, seq, acked, client>>

EmitUnsyncedUndone == \* variant: the number is taken back as after a failed write
    /\ CanEmit
    /\ Fault
    /\ Rotate
    /\ events' = events + 1
    /\ current' = Appended(Rotated, events + 1, seq + 1, TRUE)
    /\ size' = Size
    /\ UNCHANGED <<up, handle, seq, acked, client, forgot>>

(* The fsync fails: the line is there, its number is used, the size is not *)
(* advanced.                                                               *)
EmitUnsynced ==
    /\ CanEmit
    /\ Fault
    /\ Rotate
    /\ events' = events + 1
    /\ seq' = seq + 1
    /\ current' = Appended(Rotated, events + 1, seq + 1, TRUE)
    /\ size' = Size
    /\ UNCHANGED <<up, handle, acked, client, forgot>>

(* rotateLocked fails with the file closed, before or after the rename:    *)
(* every later Emit fails to close it again.                               *)
RotateFails ==
    /\ CanEmit
    /\ FullGeneration(size)
    /\ Fault
    /\ handle' = FALSE
    /\ \/ UNCHANGED files
       \/ current' = <<>> /\ previous' = current
    /\ UNCHANGED <<up, size, seq, events, acked, client, forgot>>

(* The event leaves no byte: the directory sync that ends a rotation fails *)
(* (the new generation is in use already), or the write fails at once.     *)
EmitNothing ==
    /\ CanEmit
    /\ Fault
    /\ Rotate
    /\ current' = Rotated
    /\ size' = Size
    /\ UNCHANGED <<up, handle, seq, events, acked, client, forgot>>

(* The process stops: between two calls (Close) or, with part of a line    *)
(* written or a rotation half done, inside Emit.                           *)
Stop ==
    /\ up
    /\ Fault
    /\ up' = FALSE /\ handle' = FALSE
    /\ \/ UNCHANGED <<files, events, forgot>>
       \/ /\ CanEmit
          /\ Rotate
          /\ events' = events + 1
          /\ \E n \in {0, seq + 1}, nl \in BOOLEAN :
                 /\ nl => n # 0
                 /\ current' = Appended(Rotated, events + 1, n, nl)
                 /\ forgot' = (forgot \/ (n # 0 /\ ~nl))
       \/ /\ handle /\ FullGeneration(size)
          /\ current' = <<>> /\ previous' = current
          /\ UNCHANGED <<events, forgot>>
    /\ UNCHANGED <<size, seq, acked, client>>

Recent == previous \o current

(* Where a query finds lines past a cursor; it gives them in file order.   *)
Query(after) == {i \in DOMAIN Recent : Recent[i].seq > after}

(* A client asks for the events past its cursor and moves it to the last   *)
(* it gets; its limit may end the answer at any of them.                   *)
Poll ==
    /\ up
    /\ \E i \in Query(cursor) :
          /\ cursor' = Recent[i].seq
          /\ lastRead' = Max(Recent[i].ids)
    /\ UNCHANGED <<files, log, events, acked, forgot, faults>>

LogNext ==
    \/ Open \/ Emit \/ EmitTorn \/ EmitUnsynced \/ RotateFails \/ EmitNothing
    \/ Stop \/ Poll

LogSpec == LogInit /\ [][LogNext]_logVars

-----------------------------------------------------------------------------
Increasing(f) ==
    \A i, j \in DOMAIN f : i < j /\ f[i].seq # 0 /\ f[j].seq # 0 => f[i].seq < f[j].seq

(* In a generation the numbers of the readable lines increase, whatever    *)
(* writes failed and however often the log was reopened.  An open log is   *)
(* at or above every readable line of its current file; only the line of a *)
(* write that failed just before its newline, which the log took back, can *)
(* be one above.  And while nothing was forgotten the numbers increase     *)
(* across the rotation, through both generations.                          *)
NumbersIncrease ==
    /\ Increasing(current) /\ Increasing(previous)
    /\ up => \A l \in LinesOf(current) : l.seq <= seq \/ (~l.nl /\ l.seq = seq + 1)
    /\ ~forgot => Increasing(Recent)

OnDisk == UNION {l.ids : l \in LinesOf(previous) \union LinesOf(current)}

(* Rotation gives up old events only: of the last MaxLines events, those   *)
(* that were acknowledged are in one of the two files.                     *)
RecentRetained ==
    \A i \in DOMAIN acked : acked[i] + MaxLines > events => acked[i] \in OnDisk

(* What "a cursor-based query issued before a restart keeps working after  *)
(* it" (admin.go 32-34) comes down to in the code: a readable event newer  *)
(* than the last one the client was given is past its cursor, across       *)
(* rotations, failed writes, crashes and restarts, as long as each open    *)
(* found a readable line in the current file to recover the number from    *)
(* and no readable line was left without its newline.                      *)
CursorKeepsWorking ==
    ~forgot => \A l \in LinesOf(previous) \union LinesOf(current) :
        l.seq # 0 /\ (\A id \in l.ids : id > lastRead) => l.seq > cursor

(* admin.go 32-34 as it stands, where no call of Emit ever returned an     *)
(* error: the number of an open log is not below a cursor a client was     *)
(* given, so what is emitted next is past it.  It is violated when the log *)
(* is opened right after a rotation: the numbers start from one again.     *)
CursorSurvivesRestart == up /\ Len(acked) = events => cursor <= seq
=============================================================================

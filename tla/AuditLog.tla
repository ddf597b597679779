-------------------------------- MODULE AuditLog --------------------------------
(***************************************************************************)
(* BatchAuditLogger (core/audit_logger.py): entries are put in a bounded   *)
(* queue by coroutines of the event loop; a background task wakes up every *)
(* flush interval, takes up to a batch of them and hands it to a thread    *)
(* that appends it to one file per day.  flush() and close() take batches  *)
(* of their own, each written by a thread of its own.                      *)
(*                                                                         *)
(* An entry is its number in the order of the calls to log().  An entry    *)
(* that sampling leaves out never exists.  Some entries cannot be          *)
(* serialized (a details value of an unknown type, a lone surrogate in a   *)
(* string).  Time is counted in ticks.                                     *)
(***************************************************************************)
EXTENDS Positions

CONSTANTS
    BatchSize,      \* AuditConfig.batch_size
    QueueMaxSize,   \* AuditConfig.queue_max_size
    RetentionDays,  \* AuditConfig.retention_days
    TicksPerDay,    \* how finely a day is cut
    Callers,        \* coroutines that call flush() themselves
    MayClose,       \* close() may be called
    MaySync,        \* sync_log() may be called
    MaxEntries,     \* BOUND: entries logged
    MaxClock        \* BOUND: ticks

ASSUME AuditAssumption ==
    /\ BatchSize \in Nat \ {0}
    /\ QueueMaxSize \in Nat \ {0}
    /\ RetentionDays \in Nat \ {0}
    /\ TicksPerDay \in Nat \ {0}
    /\ {"periodic", "close"} \cap Callers = {}
    /\ MayClose \in BOOLEAN /\ MaySync \in BOOLEAN
    /\ MaxEntries \in Nat
    /\ MaxClock \in Nat

\* Whose batch a thread writes.
Writers == {"periodic", "close"} \cup Callers

VARIABLES
    clock,     \* the time
    stamp,     \* stamp[e]: the time entry e was logged at
    unserializable,  \* the entries model_dump_json raises for
    queue,     \* the asyncio queue
    flusher,   \* the background task: "none" before the first entry, "live",
               \* "gone" after close(), "dead" of an exception
    writing,   \* writing[f]: what the thread that serves f has still to write
    file,      \* file[d]: the entries in audit-<day d>.jsonl
    dropped,   \* entries dropped from the full queue
    failed,    \* entries of batches whose write failed or raised
    purged,    \* entries deleted with their file
    closing    \* how far close() is

auditVars == <<clock, stamp, unserializable, queue, flusher, writing, file, dropped, failed, purged, closing>>

Day(t) == t \div TicksPerDay
Days   == 0 .. Day(MaxClock)

Entries    == 1 .. Len(stamp)
Elements(s) == {s[k] : k \in DOMAIN s}

--------------------------------------------------------------------------------
Tick ==
    /\ clock < MaxClock
    /\ clock' = clock + 1
    /\ UNCHANGED <<stamp, unserializable, queue, flusher, writing, file, dropped, failed, purged, closing>>

\* Mutant: the newest entry gives way.
PutRefusing(e) ==
    IF Len(queue) < QueueMaxSize
    THEN queue' = Append(queue, e) /\ UNCHANGED dropped
    ELSE UNCHANGED queue /\ dropped' = dropped \cup {e}

\* put_nowait; when the queue is full the oldest entry gives way.
Put(e) ==
    IF Len(queue) < QueueMaxSize
    THEN queue' = Append(queue, e) /\ UNCHANGED dropped
    ELSE /\ queue' = Append(Tail(queue), e)
         /\ dropped' = dropped \cup {Head(queue)}

\* A new entry can be serialized or not.
NewEntry ==
    /\ Len(stamp) < MaxEntries
    /\ stamp' = Append(stamp, clock)
    /\ unserializable' \in {unserializable, unserializable \cup {Len(stamp) + 1}}

\* log(): the first entry creates the queue and the background task, which ends
\* at once if close() came first.
Log ==
    /\ NewEntry
    /\ Put(Len(stamp) + 1)
    /\ flusher' = IF flusher # "none" THEN flusher
                  ELSE IF closing = "open" THEN "live" ELSE "gone"
    /\ UNCHANGED <<clock, writing, file, failed, purged, closing>>

\* sync_log(): the entry goes past the queue to the file of its day, or is lost;
\* what raises here is caught.
SyncLog ==
    /\ MaySync /\ NewEntry
    /\ LET e == Len(stamp) + 1
       IN  \/ /\ e \notin unserializable'
              /\ file' = [file EXCEPT ![Day(clock)] = Append(@, e)] /\ UNCHANGED failed
           \/ failed' = failed \cup {e} /\ UNCHANGED file
    /\ UNCHANGED <<clock, queue, flusher, writing, dropped, purged, closing>>

\* How many entries the next batch takes.
BatchLen == IF Len(queue) < BatchSize THEN Len(queue) ELSE BatchSize

\* The next batch, and whether _write_batch raises before it starts a thread: it
\* serializes the entries outside its try.
Batch  == SubSeq(queue, 1, BatchLen)
Raises == Elements(Batch) \cap unserializable # {}

\* The batch is handed to a thread, or lost with the exception.
HandOver(f) ==
    IF Raises
    THEN failed' = failed \cup Elements(Batch) /\ UNCHANGED writing
    ELSE writing' = [writing EXCEPT ![f] = Batch] /\ UNCHANGED failed

\* Mutant: the batch is read but stays in the queue.
DrainCopy(f) ==
    /\ writing[f] = <<>>
    /\ HandOver(f)
    /\ UNCHANGED queue

\* _flush_batch takes its batch and has it written.
Drain(f) ==
    /\ writing[f] = <<>>
    /\ HandOver(f)
    /\ queue' = SubSeq(queue, BatchLen + 1, Len(queue))

\* Mutant: the timer flushes full batches only.
TimerFiresWhenFull ==
    /\ flusher = "live" /\ Len(queue) >= BatchSize
    /\ Drain("periodic")
    /\ flusher' = IF Raises THEN "dead" ELSE flusher
    /\ UNCHANGED <<clock, stamp, unserializable, file, dropped, purged, closing>>

\* The background task wakes up; its own last batch has been written by then.  Nobody
\* catches what _flush_batch raises: the task ends, and log() starts no other.
TimerFires ==
    /\ flusher = "live" /\ queue # <<>>
    /\ Drain("periodic")
    /\ flusher' = IF Raises THEN "dead" ELSE flusher
    /\ UNCHANGED <<clock, stamp, unserializable, file, dropped, purged, closing>>

\* flush(): an exception goes to its caller.
Flush(c) ==
    /\ queue # <<>>
    /\ Drain(c)
    /\ UNCHANGED <<clock, stamp, unserializable, flusher, file, dropped, purged, closing>>

--------------------------------------------------------------------------------
(* The threads: _write_batch                                                *)

OfDay(s, d)    == Picked(s, {i \in 1..Len(s) : Day(stamp[s[i]]) = d})
NotOfDay(s, d) == Picked(s, {i \in 1..Len(s) : Day(stamp[s[i]]) # d})

\* The lines of the batch's next day are appended to that day's file.
WriteDay(f) ==
    /\ writing[f] # <<>>
    /\ LET d == Day(stamp[Head(writing[f])])
       IN  /\ file' = [file EXCEPT ![d] = @ \o OfDay(writing[f], d)]
           /\ writing' = [writing EXCEPT ![f] = NotOfDay(@, d)]
    /\ UNCHANGED <<clock, stamp, unserializable, queue, flusher, dropped, failed, purged, closing>>

\* A file cannot be written: the rest of the batch is given up.
WriteFails(f) ==
    /\ writing[f] # <<>>
    /\ failed' = failed \cup Elements(writing[f])
    /\ writing' = [writing EXCEPT ![f] = <<>>]
    /\ UNCHANGED <<clock, stamp, unserializable, queue, flusher, file, dropped, purged, closing>>

--------------------------------------------------------------------------------
\* close(): the task is cancelled, a batch of it already handed to a thread is not.
Close ==
    /\ MayClose /\ closing = "open"
    /\ closing' = "cancelling"
    /\ flusher' = IF flusher = "live" THEN "gone" ELSE flusher
    /\ UNCHANGED <<clock, stamp, unserializable, queue, writing, file, dropped, failed, purged>>

\* The task has ended; one more batch is flushed.
CloseFlush ==
    /\ closing = "cancelling"
    /\ closing' = "flushing"
    /\ Drain("close")
    /\ UNCHANGED <<clock, stamp, unserializable, flusher, file, dropped, purged>>

CloseReturns ==
    /\ closing = "flushing" /\ writing["close"] = <<>>
    /\ closing' = "closed"
    /\ UNCHANGED <<clock, stamp, unserializable, queue, flusher, writing, file, dropped, failed, purged>>

\* purge_old_entries compares the midnight a file is named after with the time
\* RetentionDays ago.
Expired(d) == (d + RetentionDays) * TicksPerDay < clock

Purge ==
    /\ \E d \in Days : Expired(d) /\ file[d] # <<>>
    /\ purged' = purged \cup UNION {Elements(file[d]) : d \in {d \in Days : Expired(d)}}
    /\ file' = [d \in Days |-> IF Expired(d) THEN <<>> ELSE file[d]]
    /\ UNCHANGED <<clock, stamp, unserializable, queue, flusher, writing, dropped, failed, closing>>

--------------------------------------------------------------------------------
AuditInit ==
    /\ clock = 0
    /\ stamp = <<>>
    /\ unserializable = {}
    /\ queue = <<>>
    /\ flusher = "none"
    /\ writing = [f \in Writers |-> <<>>]
    /\ file = [d \in Days |-> <<>>]
    /\ dropped = {}
    /\ failed = {}
    /\ purged = {}
    /\ closing = "open"

AuditNext ==
    \/ Tick \/ Log \/ SyncLog \/ TimerFires \/ Close \/ CloseFlush \/ CloseReturns \/ Purge
    \/ \E c \in Callers : Flush(c)
    \/ \E f \in Writers : WriteDay(f) \/ WriteFails(f)

AuditSpec == AuditInit /\ [][AuditNext]_auditVars

\* The interval passes, and a thread finishes or fails.
AuditFairSpec ==
    /\ AuditSpec
    /\ WF_auditVars(TimerFires)
    /\ \A f \in Writers : WF_auditVars(WriteDay(f) \/ WriteFails(f))

--------------------------------------------------------------------------------
(* Properties                                                               *)

At(s, e) == {k \in DOMAIN s : s[k] = e}

QueuePlaces(e)   == {<<"queue", k>> : k \in At(queue, e)}
WritingPlaces(e) == UNION {{<<"writing", f, k>> : k \in At(writing[f], e)} : f \in Writers}
FilePlaces(e)    == UNION {{<<"file", d, k>> : k \in At(file[d], e)} : d \in Days}
GonePlaces(set, name, e) == {<<name>> : x \in set \cap {e}}

\* Every place entry e is in.
Copies(e) ==
    QueuePlaces(e) \cup WritingPlaces(e) \cup FilePlaces(e)
    \cup GonePlaces(dropped, "dropped", e) \cup GonePlaces(failed, "failed", e)
    \cup GonePlaces(purged, "purged", e)

\* Whatever the timer, flush(), close() and the threads do together, an entry is
\* in one place: it is neither written twice nor lost without a dropped, failed
\* or purged entry to account for it.
EachInOnePlace == \A e \in Entries : Cardinality(Copies(e)) = 1

\* The queue keeps to its bound, whatever a batch in a thread does meanwhile, and what
\* that costs are old entries: the latest QueueMaxSize are never dropped.
NewestKept ==
    /\ Len(queue) <= QueueMaxSize
    /\ \A e \in dropped : e + QueueMaxSize <= Len(stamp)

\* A file holds its entries in the order they were logged, so that
\* query_from_disk answers "in chronological order (oldest first)".
Chronological ==
    \A d \in Days : \A i, j \in DOMAIN file[d] : i < j => file[d][i] < file[d][j]

\* Every entry leaves the queue, a partial batch as well, whatever flush() takes
\* from under the timer, unless the logger is closed before or the timer is dead;
\* and a write that fails does not kill the timer: an entry that cannot be
\* serialized does, and is lost itself.
EveryEntryFlushed ==
    /\ \A e \in 1 .. MaxEntries :
          e \in Elements(queue) ~>
            e \notin Elements(queue) \/ closing # "open" \/ flusher = "dead"
    /\ [](flusher = "dead" => unserializable \cap failed # {})

\* What the class promises of an entry: "flushes to disk either when batch is full or
\* after flush_interval".
FlushedInTime ==
    \A e \in 1 .. MaxEntries :
        e \in Elements(queue) ~> e \notin Elements(queue) \/ closing # "open"
================================================================================

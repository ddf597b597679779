----------------------------- MODULE AuditQuery -----------------------------
(***************************************************************************)
(* What is read back from the audit files: the queries and the alert rules *)
(* of core/audit/query.py and the disk query behind /api/audit/query.  Two *)
(* loggers write the same folder: the batch logger of audit_logger.py,     *)
(* whose times name no zone, and that of core/security.py, whose times do. *)
(* An entry goes to the file of the day it is dated; a write that fails    *)
(* half way leaves a torn line, and the next write goes on in that line.   *)
(* If the line was cut inside a character, the file cannot be decoded past *)
(* that place, nor from the start of the block the decoder has it in.      *)
(***************************************************************************)
EXTENDS Positions

CONSTANTS AuditUsers, AuditKinds, \* an entry's user, and what its action and outcome
                                  \* make of it: "denied", "login_failed", "deleted",
                                  \* "configured", "crossed", "other"
          DayLength,              \* instants of a day
          MaxLate,                \* how long an entry waits for its batch
          QueryLimit,             \* the limit of _all_entries
          SpikeThreshold,         \* the threshold of the rules that count
          SpikeWindow,            \* their window_minutes
          MaxInstant, MaxEntries, MaxTears \* bounds

ASSUME AuditQueryAssumption ==
  /\ DayLength \in Nat \ {0} /\ MaxLate \in Nat /\ QueryLimit \in Nat \ {0}
  /\ SpikeThreshold \in Nat \ {0} /\ SpikeWindow \in Nat \ {0}
  /\ MaxInstant \in Nat /\ MaxEntries \in Nat /\ MaxTears \in Nat

VARIABLES
  instant,  \* now
  dayFiles, \* audit-<day>.jsonl: the lines of each day's file, TornLine among them
  unended,  \* the days whose file does not end in a newline
  split,    \* those of them whose file ends inside a character
  legible,  \* how many lines of a file its readers get before decoding fails, or Whole
  kept,     \* history: entries whose write returned, by day and in order
  tears     \* history: writes that failed half way

auditQueryVars == <<instant, dayFiles, unended, split, legible, kept, tears>>

Days == 0..(MaxInstant \div DayLength)
DayOf(t) == t \div DayLength
\* Where the lines of some files are: <<day, number>>
Places(files) == UNION {{d} \X (DOMAIN files[d]) : d \in Days}
TornLine == [user |-> "", kind |-> "torn", at |-> -1, zoned |-> FALSE]
Whole == -1

AuditQueryInit ==
  /\ instant = 0
  /\ dayFiles = [d \in Days |-> <<>>] /\ unended = {} /\ split = {}
  /\ legible = [d \in Days |-> Whole]
  /\ kept = [d \in Days |-> <<>>] /\ tears = 0

AuditEntries ==
  [user : AuditUsers, kind : AuditKinds, at : {t \in 0..instant : t >= instant - MaxLate},
   zoned : BOOLEAN]

\* A line is written, or goes on in the torn line.  There what was cut inside a
\* character can no longer be decoded, together with any of the lines before it: the
\* decoder takes blocks of the file, not lines.
WriteLine(d, line) ==
  /\ dayFiles' = IF d \in unended THEN dayFiles ELSE [dayFiles EXCEPT ![d] = Append(@, line)]
  /\ IF d \in split /\ legible[d] = Whole
     THEN \E n \in 0..(Len(dayFiles[d]) - 1) : legible' = [legible EXCEPT ![d] = n]
     ELSE legible' = legible

\* A write of either logger, the batch logger's a batch of one
AppendEntry(e) ==
  LET d == DayOf(e.at)
  IN  /\ Cardinality(Places(kept)) < MaxEntries
      /\ kept' = [kept EXCEPT ![d] = Append(@, e)]
      /\ WriteLine(d, e)
      /\ unended' = unended \ {d} /\ split' = split \ {d}
      /\ UNCHANGED <<instant, tears>>

\* The disk is full, or the process ends, in the middle of the line, inside a character
\* of it or between two.
TearEntry(e, inside) ==
  LET d == DayOf(e.at)
  IN  /\ tears < MaxTears /\ tears' = tears + 1
      /\ WriteLine(d, TornLine)
      /\ unended' = unended \cup {d}
      /\ split' = IF inside THEN split \cup {d} ELSE split \ {d}
      /\ UNCHANGED <<instant, kept>>

PassTime ==
  /\ instant < MaxInstant /\ instant' = instant + 1
  /\ UNCHANGED <<dayFiles, unended, split, legible, kept, tears>>

AuditQueryNext ==
  \/ \E e \in AuditEntries : AppendEntry(e) \/ \E inside \in BOOLEAN : TearEntry(e, inside)
  \/ PassTime

QuerySpecification == AuditQueryInit /\ [][AuditQueryNext]_auditQueryVars

(***************************************************************************)
(* AuditQuery                                                              *)
(***************************************************************************)

LineAt(p) == dayFiles[p[1]][p[2]]

\* "for line in f" raises where decoding fails and ends the file; where json.loads or
\* AuditLogEntry fails, the line is skipped.
Readable == {p \in Places(dayFiles) :
  /\ legible[p[1]] = Whole \/ p[2] <= legible[p[1]]
  /\ LineAt(p) # TornLine}

\* the files one after the other, their names sorted, or sorted in reverse; a file's
\* lines as they were written
OldFilesFirst == {pair \in Readable \X Readable :
  LET p == pair[1]  q == pair[2] IN p[1] < q[1] \/ (p[1] = q[1] /\ p[2] < q[2])}
NewFilesFirst == {pair \in Readable \X Readable :
  LET p == pair[1]  q == pair[2] IN p[1] > q[1] \/ (p[1] = q[1] /\ p[2] < q[2])}

\* All queries give a time with a zone.  To compare it with one without raises, and
\* the line is skipped like one that is torn.
Since(since) == {p \in Readable : LineAt(p).zoned /\ LineAt(p).at >= since}

\* _all_entries
AllEntries(since) == FirstOf(QueryLimit, Since(since), NewFilesFirst)

\* the queries that read everything and filter: by user and action (logins, exports,
\* escalations, discussions), by resource, by outcome, by the action's prefix
QueryKind(kinds, since) == {p \in AllEntries(since) : LineAt(p).kind \in kinds}

\* query_by_user and custom_query: the limit is passed on to _all_entries
QueryByUser(u, since) == {p \in AllEntries(since) : LineAt(p).user = u}

\* What a disk query asks for, the days by the names of the files
Wanted(u, first, last) == {p \in Readable : LineAt(p).user = u /\ p[1] \in first..last}

\* Mutant: the limit cuts the lines before they are filtered
FromDiskLimitFirst(u, first, last, limit) ==
  FirstOf(limit, Readable, OldFilesFirst) \cap Wanted(u, first, last)

\* BatchAuditLogger.query_from_disk
FromDisk(u, first, last, limit) == FirstOf(limit, Wanted(u, first, last), OldFilesFirst)

(***************************************************************************)
(* AlertEvaluator                                                          *)
(***************************************************************************)
\* DEFAULT_RULES: the window, 0 for all time, and the entries that count
AlertRules ==
  {[kind |-> k, window |-> SpikeWindow, threshold |-> SpikeThreshold] :
     k \in AuditKinds \cap {"denied", "login_failed"}}
  \cup {[kind |-> k, window |-> 0, threshold |-> 1] :
     k \in AuditKinds \cap {"deleted", "configured", "crossed"}}

\* _evaluate_rule: the caller's window, if it gives one, for the rules that have one
RuleSince(rule, override) ==
  IF rule.window = 0 THEN 0
  ELSE instant - (IF override # 0 THEN override ELSE rule.window)

\* evaluate, _check_count_rule
Fired(rule, override) ==
  Cardinality(QueryKind({rule.kind}, RuleSince(rule, override))) >= rule.threshold

(***************************************************************************)
(* Properties                                                              *)
(***************************************************************************)
Matching(rule, since) == {p \in Since(since) : LineAt(p).kind = rule.kind}

Overrides == {0, SpikeWindow + 1}

\* A rule fires when, and only when, its window holds as many of its events as it
\* takes, across midnight, torn lines and entries that were written late, as long as
\* the window holds no more entries than the query reads.
AlertsExact == \A rule \in AlertRules, o \in Overrides :
  LET since == RuleSince(rule, o)
  IN  /\ Fired(rule, o) => Cardinality(Matching(rule, since)) >= rule.threshold
      /\ Cardinality(Matching(rule, since)) >= rule.threshold
           /\ Cardinality(Since(since)) <= QueryLimit
         => Fired(rule, o)

\* A user's query finds what any later reader of the files finds in the same time and
\* with a zone, while the time holds no more such entries than the limit lets it read.
UsersFound == \A u \in AuditUsers, since \in 0..instant :
  Cardinality(Since(since)) <= QueryLimit =>
    QueryByUser(u, since) =
      {p \in Readable : LineAt(p).user = u /\ LineAt(p).at >= since /\ LineAt(p).zoned}

\* The disk query, which looks at the names of the files, has as many of a user's
\* entries of these days as it was asked for, if there are that many ("Limit applied
\* AFTER filtering"), and what it leaves out is not from an earlier day than what it has.
DiskQueryFull == \A u \in AuditUsers, first, last \in Days :
  LET found == FromDisk(u, first, last, QueryLimit)
      all   == {p \in Readable : LineAt(p).user = u /\ DayOf(LineAt(p).at) \in first..last}
  IN  /\ found \subseteq all
      /\ Cardinality(found) = IF Cardinality(all) > QueryLimit THEN QueryLimit ELSE Cardinality(all)
      /\ \A p \in found, q \in all \ found : DayOf(LineAt(p).at) <= DayOf(LineAt(q).at)

\* What the disk query finds in a day's file, whoever it is of, its limit being no
\* less than the log
FoundOn(d) == UNION {FromDisk(u, d, d, Cardinality(Places(dayFiles))) : u \in AuditUsers}

\* A torn line hides one entry beside its own at most: the one that was written into
\* it.  Everything else whose write returned is read back, unless a line of the same
\* day's file was cut inside a character and written on.
TornLinesHideOne == \A d \in Days :
  legible[d] = Whole =>
    Len(kept[d]) <= Cardinality(FoundOn(d))
                      + Cardinality({i \in DOMAIN dayFiles[d] : dayFiles[d][i] = TornLine})

\* What is asked of the files is answered as their entries say, torn lines and limits
\* included.
QueriesExact == AlertsExact /\ UsersFound /\ DiskQueryFull /\ TornLinesHideOne

\* What AlertEvaluator says of its third rule, "deletion_event (any delete, HIGH)": a
\* deletion that can be read is an alert.  TLC shows that those of the batch logger,
\* which is the one the application logs with, are none.
DeletionsAlert == \A rule \in AlertRules :
  rule.kind = "deleted" /\ (\E p \in Readable : LineAt(p).kind = "deleted") => Fired(rule, 0)
=============================================================================

----------------------------- MODULE SessionLog -----------------------------
(***************************************************************************)
(* The session log: SessionManager's in-memory tree of entries, the JSONL  *)
(* files it is appended to, Log Rotation, and the Compaction Runs that     *)
(* read the tree, wait for a summary and append it.  A manager's calls are *)
(* synchronous, so each is one step; a process may die between any two of  *)
(* them, a write may fail at any byte, and a second process may have the   *)
(* session open.  A process that dies within a call leaves on disk what a  *)
(* failed call leaves and one that dies afterwards.  Another process may   *)
(* come between the test whether a log may be written and the writing.     *)
(***************************************************************************)
EXTENDS Naturals, FiniteSets, SequencesExt

CONSTANTS
    Managers,       \* SessionManagers, each in a process of its own
    MaxEntries,     \* bound of the model: entries ever appended
    MaxUpset,       \* the same, once the history is upset
    MaxLogs,        \* bound of the model: logs of the session
    MaxRuns         \* bound of the model: Compaction Runs at a time

ASSUME BoundsAssumption ==
    MaxEntries \in Nat /\ MaxUpset \in Nat
    /\ MaxLogs \in Nat \ {0} /\ MaxRuns \in Nat

VARIABLES
    disk,       \* disk[n]: the n-th log of the session
    newest,     \* the log modified last, 0 if there is none
    mem,        \* mem[m]: the manager's memory
    entry,      \* what entry i says, and its parent when it was appended
    next,       \* the number of entries made
    waits,      \* a CLI session, which writes nothing before the first reply
    runs,       \* runs[m]: the Compaction Runs waiting for a summary
    last,       \* history: the entry written last, 0 if there is none
    turn,       \* history: "running" or "ended" as the log says, or "unknown"
    steady,     \* history: none of the events that Upset names has happened
    resized     \* the managers whose log another process has rewritten since
                \* they took its size, so that it may have that size again

vars == <<disk, newest, mem, entry, next, waits, runs, last, turn, steady, resized>>

Ids == 1..MaxEntries
Logs == 1..MaxLogs
Kinds == {"user", "reply", "finished", "compaction"}

(* A line of a log.  One that does not parse has no entry; the rotation    *)
(* marker names the log that continues this one.                           *)
Lines == [id : Ids \cup {0}, parent : Ids \cup {0}, to : Logs \cup {0}]
Line(i, p) == [id |-> i, parent |-> p, to |-> 0]
Garbage == Line(0, 0)
Marker(n) == [Garbage EXCEPT !.to = n]

Log == [exists : BOOLEAN, lines : Seq(Lines), torn : BOOLEAN]
NoLog == [exists |-> FALSE, lines |-> <<>>, torn |-> FALSE]

Memory == [up : BOOLEAN, log : Logs, lines : Seq(Lines), leaf : Ids \cup {0},
           flushed : BOOLEAN, unclosed : BOOLEAN, checked : Log,
           failed : BOOLEAN, passed : BOOLEAN]

TypeOK ==
    /\ disk \in [Logs -> Log] /\ newest \in Logs \cup {0}
    /\ mem \in [Managers -> Memory]
    /\ entry \in [Ids -> [kind : Kinds, parent : Ids \cup {0},
                          kept : Ids \cup {0}, covers : SUBSET Ids]]
    /\ next \in 0..MaxEntries /\ waits \in BOOLEAN
    /\ runs \in [Managers -> SUBSET [kept : Ids, covers : SUBSET Ids]]
    /\ last \in Ids \cup {0} /\ turn \in {"running", "ended", "unknown"}
    /\ steady \in BOOLEAN /\ resized \subseteq Managers

NewSession == [up |-> TRUE, log |-> 1, lines |-> <<>>, leaf |-> 0,
               flushed |-> FALSE, unclosed |-> FALSE, checked |-> NoLog,
               failed |-> FALSE, passed |-> FALSE]
Down == [NewSession EXCEPT !.up = FALSE]

Init ==
    /\ disk = [n \in Logs |-> NoLog] /\ newest = 0
    /\ mem = [m \in Managers |-> Down]
    /\ entry = [i \in Ids |-> [kind |-> "user", parent |-> 0, kept |-> 0,
                               covers |-> {}]]
    /\ next = 0 /\ waits \in BOOLEAN
    /\ runs = [m \in Managers |-> {}]
    /\ last = 0 /\ turn = "ended" /\ steady = TRUE /\ resized = {}

-----------------------------------------------------------------------------
(* Reading. *)

Has(lines, i) == \E k \in DOMAIN lines : lines[k].id = i
Parent(lines, i) == lines[CHOOSE k \in DOMAIN lines : lines[k].id = i].parent

(* buildSessionPath: the entries from the root to the leaf, as far as each *)
(* parent is there.                                                        *)
Path(lines, leaf) ==
    LET path[i \in Ids \cup {0}] ==
            IF Has(lines, i) /\ i # 0 THEN Append(path[Parent(lines, i)], i)
            ELSE <<>>
    IN  path[leaf]

Kind(i) == entry[i].kind
IsCompaction(i) == Kind(i) = "compaction"

(* buildContextEntries, as a set: the last compaction of the path, what    *)
(* comes after it, and what comes before it from firstKeptEntryId on.      *)
Context(path) ==
    LET at == SelectLastInSeq(path, IsCompaction)
        kept == SelectInSeq(path, LAMBDA i : i = entry[path[at]].kept)
    IN  IF at = 0 THEN Range(path)
        ELSE {path[k] : k \in {k \in DOMAIN path :
                                 k >= at \/ (kept # 0 /\ k >= kept)}}

(* loadEntriesFromFile: lines that do not parse are skipped.               *)
Parsed(log) ==
    LET upTo[k \in 0..Len(log.lines)] ==
            IF k = 0 THEN <<>>
            ELSE IF log.lines[k].id = 0 THEN upTo[k - 1]
            ELSE Append(upTo[k - 1], log.lines[k])
    IN  upTo[Len(log.lines)]
LeafOf(lines) == IF lines = <<>> THEN 0 ELSE Last(lines).id

(* Mutant: only a turn without any reply is unclosed. *)
UnclosedUnanswered(path) == path # <<>> /\ Kind(Last(path)) = "user"

(* _computeUnclosedTurn. *)
Unclosed(path) ==
    LET at == SelectLastInSeq(path, LAMBDA i : Kind(i) \in {"user", "finished"})
    IN  at # 0 /\ Kind(path[at]) = "user"

(* assertSessionWritable: the last line is no rotation marker.             *)
Closed(log) == log.lines # <<>> /\ Last(log.lines).to # 0 /\ ~log.torn

(* resolveSessionFile. *)
Resolve(n) ==
    LET to[k \in Logs] ==
            IF Closed(disk[k]) THEN to[Last(disk[k].lines).to] ELSE k
    IN  to[n]

-----------------------------------------------------------------------------
(* Opening and dying. *)

(* Events after which a history may be cut: the process writes on after an *)
(* append of its own has failed; two processes have the session open; the  *)
(* leaf moves under a Compaction Run, or behind the compaction of a        *)
(* rotated log; a log is rotated under another run.  Bound of the model:   *)
(* they happen while the history may still grow afterwards.                *)
Upset(happened) ==
    /\ happened => next < MaxUpset
    /\ steady' = (steady /\ ~happened)

Others(m) == {o \in Managers \ {m} : mem[o].up}

(* Mutant: a torn last line is left as it is. *)
TerminatedLeft(log) == log

(* terminateTornLine. *)
Terminated(log) == [log EXCEPT !.torn = FALSE]

(* _setSessionFile, for the log found by its time or named by its path.    *)
Open(m) ==
    /\ ~mem[m].up
    /\ \E n \in {newest} \cup (IF Others(m) = {} THEN {} ELSE Logs) :
         /\ n # 0 /\ disk[n].exists
         /\ LET log == Resolve(n)
                lines == Parsed(disk[log])
            IN  /\ disk' = [disk EXCEPT ![log] = Terminated(@)]
                /\ newest' = IF disk[log].torn THEN log ELSE newest
                /\ mem' = [mem EXCEPT ![m] =
                     [NewSession EXCEPT
                        !.log = log, !.lines = lines, !.leaf = LeafOf(lines),
                        !.flushed = TRUE,
                        !.unclosed = Unclosed(Path(lines, LeafOf(lines)))]]
    /\ Upset(Others(m) # {})
    /\ UNCHANGED <<entry, next, waits, runs, last, turn, resized>>

Create(m) ==
    /\ newest = 0 /\ \A o \in Managers : ~mem[o].up
    /\ mem' = [mem EXCEPT ![m] = NewSession]
    /\ UNCHANGED <<disk, newest, entry, next, waits, runs, last, turn, steady,
                   resized>>

Die(m) ==
    /\ mem[m].up
    /\ mem' = [mem EXCEPT ![m] = Down]
    /\ runs' = [runs EXCEPT ![m] = {}]
    /\ resized' = resized \ {m}
    /\ UNCHANGED <<disk, newest, entry, next, waits, last, turn, steady>>

-----------------------------------------------------------------------------
(* Appending. *)

(* Mutant: a log tested once is not tested again. *)
WritableOnce(m) ==
    LET log == disk[mem[m].log]
    IN  ~log.exists \/ ~Closed(log) \/ mem[m].checked.exists

(* _assertWritable: the log is not closed, or has the size that it had     *)
(* when it was tested last.                                                *)
Writable(m) ==
    LET log == disk[mem[m].log]
    IN  \/ ~log.exists \/ ~Closed(log)
        \/ mem[m].checked = log \/ m \in resized

(* The test is passed and the write still to come: another process may     *)
(* write first.  Bound of the model: it does so before the first write of  *)
(* a call, not between its later ones.                                     *)
Check(m) ==
    /\ mem[m].up /\ ~mem[m].passed /\ Others(m) # {} /\ Writable(m)
    /\ mem' = [mem EXCEPT ![m].passed = TRUE, ![m].checked = disk[mem[m].log]]
    /\ UNCHANGED <<disk, newest, entry, next, waits, runs, last, turn, steady,
                   resized>>

MayWrite(m) == mem[m].up /\ (mem[m].passed \/ Writable(m))

(* The manager's memory with one more entry, the leaf. *)
Extended(m, i) ==
    [mem[m] EXCEPT !.lines = Append(@, Line(i, mem[m].leaf)), !.leaf = i,
                   !.checked = IF mem[m].passed THEN @ ELSE disk[mem[m].log],
                   !.passed = FALSE]

(* A line appended to one without an end does not parse. *)
Glued(log, line) ==
    IF log.torn THEN [log EXCEPT !.torn = FALSE]
    ELSE [log EXCEPT !.lines = Append(@, line)]

(* Bytes of a line without its end. *)
Tear(log) ==
    [exists |-> TRUE, torn |-> TRUE,
     lines |-> IF log.torn THEN log.lines ELSE Append(log.lines, Garbage)]

(* _persist writes at once. *)
WritesNow(m, k) ==
    \/ ~waits \/ k = "reply" \/ mem[m].flushed
    \/ \E j \in DOMAIN mem[m].lines : Kind(mem[m].lines[j].id) = "reply"

(* What _persist makes of the log; the first write takes all entries.      *)
Persisted(m, after) ==
    IF mem[m].flushed THEN Glued(disk[after.log], Last(after.lines))
    ELSE [exists |-> TRUE, lines |-> after.lines, torn |-> FALSE]

(* The first write does not open a file that exists. *)
CanPersist(m) == ~mem[m].flushed => ~disk[mem[m].log].exists

NewEntry(m, k, kept, covers) ==
    /\ next < MaxEntries /\ (steady \/ next < MaxUpset)
    /\ next' = next + 1
    /\ entry' = [entry EXCEPT ![next + 1] =
                   [kind |-> k, parent |-> mem[m].leaf, kept |-> kept,
                    covers |-> covers]]

TurnAfter(k) == IF k = "finished" THEN "ended" ELSE "running"

(* A turn begins with a user message and ends with operation_finished.     *)
Fits(m, k) ==
    k \in {"reply", "finished"} => Unclosed(Path(mem[m].lines, mem[m].leaf))

(* appendMessage and appendOperationFinished.                              *)
AppendEntry(m, k) ==
    /\ Fits(m, k) /\ MayWrite(m)
    /\ NewEntry(m, k, 0, {})
    /\ LET after == Extended(m, next + 1)
           log == Persisted(m, after)
           unclosed == after.unclosed /\ k # "finished"
       IN  \/ /\ WritesNow(m, k) /\ CanPersist(m)
              /\ disk' = [disk EXCEPT ![after.log] = log]
              /\ newest' = after.log /\ last' = next + 1
              /\ turn' = TurnAfter(k)
              /\ mem' = [mem EXCEPT ![m] =
                   [after EXCEPT !.flushed = TRUE, !.checked = log,
                                 !.unclosed = unclosed]]
              /\ Upset(mem[m].failed) /\ resized' = resized \ {m}
           \/ /\ ~WritesNow(m, k)
              /\ mem' = [mem EXCEPT ![m] = [after EXCEPT !.unclosed = unclosed]]
              /\ UNCHANGED <<disk, newest, last, turn, steady, resized>>
    /\ UNCHANGED <<waits, runs>>

(* Bound of the model: one write fails, before anything was lost.          *)
NothingLost(m) ==
    \A i \in 1..next : \/ \E n \in Logs : Has(disk[n].lines, i)
                       \/ ~mem[m].failed /\ Has(mem[m].lines, i)

(* What a failed write leaves, and how far the log then is.  It may fail   *)
(* at its start or halfway, the first one after any of its entries.        *)
Torn(m, after) ==
    \/ UNCHANGED <<disk, newest, last, turn>>
    \/ /\ CanPersist(m) /\ newest' = after.log
       /\ \/ /\ mem[m].flushed
             /\ disk' = [disk EXCEPT ![after.log] = Tear(@)]
             /\ UNCHANGED <<last, turn>>
          \/ /\ ~mem[m].flushed
             /\ \E n \in 0..(Len(after.lines) - 1) :
                  LET lines == SubSeq(after.lines, 1, n)
                  IN  /\ disk' = [disk EXCEPT ![after.log] =
                           [exists |-> TRUE, lines |-> Append(lines, Garbage),
                            torn |-> TRUE]]
                      /\ last' = LeafOf(lines)
                      /\ turn' = IF Unclosed(Path(lines, LeafOf(lines)))
                                 THEN "running" ELSE "ended"

(* The write of an entry fails; the entry stays in memory.                 *)
WriteFails(m, k, kept, covers) ==
    /\ MayWrite(m) /\ WritesNow(m, k)
    /\ steady /\ NothingLost(m)
    /\ NewEntry(m, k, kept, covers)
    /\ LET after == Extended(m, next + 1)
       IN  /\ mem' = [mem EXCEPT ![m] =
                [after EXCEPT !.failed = TRUE,
                              !.unclosed = after.unclosed /\ k # "finished"]]
           /\ Torn(m, after)
    /\ UNCHANGED <<waits, steady, resized>>

AppendFails(m, k) ==
    Fits(m, k) /\ WriteFails(m, k, 0, {}) /\ UNCHANGED runs

(* branch and resetLeaf, of navigateTree: not while an agent runs.  Bound  *)
(* of the model: only in histories that are steady, like failed writes.    *)
Branch(m) ==
    /\ mem[m].up /\ ~mem[m].passed /\ turn # "running" /\ steady
    /\ \E i \in {mem[m].lines[k].id : k \in DOMAIN mem[m].lines} \cup {0} :
         LET path == Path(mem[m].lines, mem[m].leaf)
             at == SelectLastInSeq(path, IsCompaction)
         IN  /\ i # mem[m].leaf
             /\ mem' = [mem EXCEPT ![m].leaf = i]
             /\ Upset(\/ runs[m] # {}
                      \/ /\ mem[m].log > 1
                         /\ at = 0 \/ ~Contains(Path(mem[m].lines, i), path[at]))
    /\ turn' = "unknown"
    /\ UNCHANGED <<disk, newest, entry, next, waits, runs, last, resized>>

-----------------------------------------------------------------------------
(* Compaction Runs. *)

(* prepareCompaction: the entries from the previous boundary to the cut    *)
(* are covered, as those are that the previous compaction covered.  The    *)
(* summary tells of them, but for those before a task boundary, which a    *)
(* task reset drops together with the previous summary; the cut then is    *)
(* where the new task begins, or later.                                    *)
Prepare(m) ==
    LET path == Path(mem[m].lines, mem[m].leaf)
        prev == SelectLastInSeq(path, IsCompaction)
        keptAt == SelectInSeq(path, LAMBDA i : i = entry[path[prev]].kept)
        start == IF prev = 0 THEN 1 ELSE IF keptAt # 0 THEN keptAt ELSE prev + 1
    IN  /\ mem[m].up /\ ~mem[m].passed /\ path # <<>> /\ ~IsCompaction(Last(path))
        /\ \E run \in {[kept |-> path[cut],
                        covers |-> {path[k] : k \in start..(cut - 1)} \cup
                                   (IF prev = 0 THEN {}
                                    ELSE entry[path[prev]].covers)]
                         : cut \in {c \in (start + 1)..Len(path) :
                                      Kind(path[c]) \in {"user", "reply"}}} :
              runs' = [runs EXCEPT ![m] = @ \cup {run}]
        /\ Cardinality(runs'[m]) =< MaxRuns
        /\ UNCHANGED <<disk, newest, mem, entry, next, waits, last, turn, steady,
                       resized>>

(* The summary fails, the run is aborted, or its entry is not written.     *)
RunFails(m) ==
    \E run \in runs[m] :
        /\ runs' = [runs EXCEPT ![m] = @ \ {run}]
        /\ \/ /\ ~mem[m].passed
              /\ UNCHANGED <<disk, newest, mem, entry, next, waits, last, turn,
                             steady, resized>>
           \/ WriteFails(m, "compaction", run.kept, run.covers)

(* tailStart: a user message, at or before the first entry the compaction  *)
(* keeps; how far before depends on Durable Memory and the Task Plan.      *)
TailStarts(path, kept) ==
    {k \in DOMAIN path : /\ k = 1 \/ Kind(path[k]) = "user"
                         /\ Contains(path, kept) =>
                               k =< SelectInSeq(path, LAMBDA i : i = kept)}

(* What the new log carries: the tail, and before it the last record of a  *)
(* finished operation.                                                     *)
Carried(path, start) ==
    LET finished == SelectLastInSeq(path, LAMBDA i : Kind(i) = "finished")
    IN  (IF finished < start /\ finished # 0 THEN <<path[finished]>> ELSE <<>>)
        \o SubSeq(path, start, Len(path))

(* Entries as lines, each the child of the one before.                     *)
Chained(ids) ==
    [k \in DOMAIN ids |-> Line(ids[k], IF k = 1 THEN 0 ELSE ids[k - 1])]

(* appendCompaction as far as the entry: the log is appended to, and then  *)
(* rewritten from memory if thinking signatures are pruned.                *)
Compacted(m, after, prune) ==
    IF prune THEN [exists |-> TRUE, lines |-> after.lines, torn |-> FALSE]
    ELSE Persisted(m, after)

(* _pruneHistoricalThinkingSignatures may find one: in a reply that comes   *)
(* before the first entry kept.                                            *)
HasSignature(m, kept) ==
    LET lines == mem[m].lines
    IN  \E j, k \in DOMAIN lines :
          j < k /\ lines[k].id = kept /\ Kind(lines[j].id) = "reply"

(* rotate.  It may fail before the new log is there, or while the marker   *)
(* is appended to the old one; a death may leave the old log the newer.    *)
(* Bound of the model: a log has one log that continues it.                *)
Rotate(m, after, log, kept) ==
    /\ after.log < MaxLogs /\ ~disk[after.log + 1].exists
    /\ \E start \in TailStarts(Path(mem[m].lines, mem[m].leaf), kept) :
         LET path == Path(mem[m].lines, mem[m].leaf)
             lines == Chained(Append(Carried(path, start), after.leaf))
             new == [exists |-> TRUE, lines |-> lines, torn |-> FALSE]
         IN  /\ mem' = [mem EXCEPT ![m] =
                  [after EXCEPT !.log = @ + 1, !.lines = lines,
                                !.leaf = LeafOf(lines), !.flushed = TRUE,
                                !.checked = new]]
             /\ \E old \in {log, Tear(log), Glued(log, Marker(after.log + 1))} :
                  /\ disk' = [disk EXCEPT ![after.log] = old,
                                          ![after.log + 1] = new]
                  /\ newest' \in IF old = log THEN {after.log + 1}
                                 ELSE IF Closed(old)
                                 THEN {after.log, after.log + 1}
                                 ELSE {after.log}

(* A run has its summary: appendCompaction, with what it calls.            *)
RunEnds(m) ==
    /\ MayWrite(m) /\ WritesNow(m, "compaction") /\ CanPersist(m)
    /\ \E run \in runs[m], prune \in BOOLEAN :
         /\ prune => HasSignature(m, run.kept)
         /\ NewEntry(m, "compaction", run.kept, run.covers)
         /\ runs' = [runs EXCEPT ![m] = @ \ {run}]
         /\ resized' = (resized \ {m}) \cup
                         (IF prune THEN {o \in Others(m) :
                              mem[o].log = mem[m].log /\ mem[o].checked.exists}
                          ELSE {})
         /\ LET after == Extended(m, next + 1)
                log == Compacted(m, after, prune)
            IN  \/ /\ disk' = [disk EXCEPT ![after.log] = log]
                   /\ newest' = after.log
                   /\ mem' = [mem EXCEPT ![m] =
                        [after EXCEPT !.flushed = TRUE, !.checked = log]]
                   /\ Upset(mem[m].failed)
                \/ /\ Rotate(m, after, log, run.kept)
                   /\ Upset(mem[m].failed \/ runs'[m] # {})
    /\ last' = next + 1
    /\ UNCHANGED <<waits, turn>>

-----------------------------------------------------------------------------

Next ==
    \E m \in Managers :
        \/ Open(m) \/ Create(m) \/ Die(m) \/ Branch(m) \/ Check(m)
        \/ \E k \in Kinds \ {"compaction"} : AppendEntry(m, k) \/ AppendFails(m, k)
        \/ Prepare(m) \/ RunFails(m) \/ RunEnds(m)

Spec == Init /\ [][Next]_vars

-----------------------------------------------------------------------------
(* Properties. *)

(* The entries from the root to the one written last, as they were made.   *)
Written ==
    LET path[i \in Ids \cup {0}] ==
            IF i = 0 THEN <<>> ELSE Append(path[entry[i].parent], i)
    IN  path[last]

(* The path that opening the session by its time would load.               *)
Found ==
    LET lines == Parsed(disk[Resolve(newest)]) IN Path(lines, LeafOf(lines))

(* What a restart gives the model is all that was written, but for what    *)
(* the last compaction covers: wherever appending, rewriting and rotating  *)
(* were cut short, and whatever write failed last.  It speaks of steady    *)
(* histories, so not of an entry appended after one whose write failed;    *)
(* and of what a task reset drops only that it is covered.                 *)
ContextRestored ==
    steady /\ newest # 0 =>
        LET at == SelectLastInSeq(Written, IsCompaction)
        IN  Context(Found) = Range(Written) \
              (IF at = 0 THEN {} ELSE entry[Written[at]].covers)

(* A restart reports an interrupted operation exactly when one had reached *)
(* the log and not its end, also after a rotation (issue #246).  Operations*)
(* that a custom message begins are not in the model; the code does not    *)
(* recognise them.                                                         *)
InterruptionFound ==
    steady /\ newest # 0 /\ turn # "unknown" =>
        (Unclosed(Found) <=> turn = "running")

(* A log closed by Log Rotation is never written again, also by a process  *)
(* that had it open before (rotate, assertSessionWritable).  It speaks of  *)
(* each call that tests the log: a process that passed the test before the *)
(* marker was there writes all the same, and so does one to which the      *)
(* rewritten log may show the very size it had at its last test.           *)
ClosedStaysClosed ==
    [][\A n \in Logs : Closed(disk[n]) /\ disk'[n] # disk[n] =>
         \E m \in Managers : /\ mem[m].up /\ mem[m].log = n
                             /\ mem[m].passed \/ m \in resized]_vars

==============================================================================

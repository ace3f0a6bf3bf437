-------------------------------- MODULE Jsonl --------------------------------
(***************************************************************************)
(* The session file of src/src/storage/jsonl.rs: one line per transaction, *)
(* a torn tail dropped on open, a rewrite of the file when too many of its *)
(* register writes are dead, and an OS lock that keeps a second process    *)
(* out.  A process opens the file, locks it, reads it by its path, and may *)
(* replace it, in separate steps: other processes run between them.        *)
(*                                                                         *)
(* A write is its seq, its kind and, for registers, its key; a transaction *)
(* that validates is given.  The header line never changes and is left out.*)
(***************************************************************************)
EXTENDS Naturals, FiniteSets, SequencesExt

CONSTANTS
  Procs,         \* processes that open the session
  KeyCount,      \* register keys are 1 .. KeyCount, in the order of the map
  Transactions,  \* sequences of writes without their seqs
  CompactDead,   \* COMPACT_DEAD_WRITES, 64 in the code
  MaxCommits, MaxOpens, MaxTears   \* bounds

Keys == 1 .. KeyCount
NoProc == "none"

Kinds == {"entry", "usage", "set", "delete"}
IsRegister(w) == w.kind \in {"set", "delete"}

ASSUME ProcsAssumption == NoProc \notin Procs
ASSUME KeyCountAssumption == KeyCount \in Nat
ASSUME TransactionsAssumption ==
  \A tx \in Transactions :
    /\ tx \in Seq([kind : Kinds, key : 0 .. KeyCount])
    /\ \A i \in DOMAIN tx : IsRegister(tx[i]) => tx[i].key \in Keys

VARIABLES
  path,      \* the inode the session's path names
  files,     \* inode -> its lines, and whether a partial line follows them
  lock,      \* inode -> the process that holds its lock
  proc,      \* what each process has: pc, inode, memory
  truth,     \* history: the state all acknowledged transactions make
  commits, opens, tears   \* uses of the bounds

vars == <<path, files, lock, proc, truth, commits, opens, tears>>

\* The maps of Storage: entries and usage rows in order, register versions.
Empty == [entries |-> <<>>, usage |-> <<>>, regs |-> [k \in Keys |-> 0], seq |-> 0]

Apply(mem, w) ==
  LET seen == [mem EXCEPT !.seq = IF w.seq > @ THEN w.seq ELSE @] IN
  CASE w.kind = "entry"  -> [seen EXCEPT !.entries = Append(@, w.seq)]
    [] w.kind = "usage"  -> [seen EXCEPT !.usage = Append(@, w.seq)]
    [] w.kind = "set"    -> [seen EXCEPT !.regs[w.key] = w.seq]
    [] w.kind = "delete" -> [seen EXCEPT !.regs[w.key] = 0]

Writes(lines) == FlattenSeq(lines)

Replay(lines) == FoldLeft(Apply, Empty, Writes(lines))

\* read_lines() refuses a seq that does not increase.
Readable(lines) ==
  LET ws == Writes(lines) IN \A i \in 2 .. Len(ws) : ws[i - 1].seq < ws[i].seq

\* Mutant of DeadWrites: a delete does not kill itself.
DeadWritesBySets(lines) ==
  LET step(acc, w) ==
        CASE w.kind = "set" ->
               [live |-> acc.live \cup {w.key},
                dead |-> acc.dead + IF w.key \in acc.live THEN 1 ELSE 0]
          [] w.kind = "delete" ->
               [live |-> acc.live \ {w.key},
                dead |-> acc.dead + IF w.key \in acc.live THEN 1 ELSE 0]
          [] OTHER -> acc
  IN  FoldLeft(step, [live |-> {}, dead |-> 0], Writes(lines)).dead

\* The counting of read_lines(): a set kills the live write of its key, a
\* delete kills it and itself.
Count(acc, w) ==
  CASE w.kind = "set" ->
         [live |-> acc.live \cup {w.key},
          dead |-> acc.dead + IF w.key \in acc.live THEN 1 ELSE 0]
    [] w.kind = "delete" ->
         [live |-> acc.live \ {w.key},
          dead |-> acc.dead + IF w.key \in acc.live THEN 2 ELSE 1]
    [] OTHER -> acc

DeadWrites(lines) == FoldLeft(Count, [live |-> {}, dead |-> 0], Writes(lines)).dead

Live(mem) == {k \in Keys : mem.regs[k] # 0}

Line(kind, key, seq) == <<[seq |-> seq, kind |-> kind, key |-> key]>>

\* The registers that are set, in the order of their keys.
RegisterLines(mem) ==
  FlattenSeq([k \in Keys |-> IF k \in Live(mem) THEN <<Line("set", k, mem.regs[k])>> ELSE <<>>])

\* Mutant of Compacted: the usage ledger is forgotten.
CompactedWithoutUsage(mem) ==
  [i \in DOMAIN mem.entries |-> Line("entry", 0, mem.entries[i])] \o RegisterLines(mem)

\* compact_file(): entries, usage rows, live registers, each a line of its own.
Compacted(mem) ==
  [i \in DOMAIN mem.entries |-> Line("entry", 0, mem.entries[i])]
    \o [i \in DOMAIN mem.usage |-> Line("usage", 0, mem.usage[i])]
    \o RegisterLines(mem)

Closed == [pc |-> "closed", inode |-> 0, mem |-> Empty]

Init ==
  /\ path = 1
  /\ files = <<[lines |-> <<>>, torn |-> FALSE]>>
  /\ lock = <<NoProc>>
  /\ proc = [p \in Procs |-> Closed]
  /\ truth = Empty
  /\ commits = 0 /\ opens = 0 /\ tears = 0

At(p, pc) == proc[p].pc = pc

Unlocked(p) == [i \in DOMAIN lock |-> IF lock[i] = p THEN NoProc ELSE lock[i]]

\* open(): the path is resolved to a file ...
OpenFile(p) ==
  /\ At(p, "closed")
  /\ opens < MaxOpens
  /\ opens' = opens + 1
  /\ proc' = [proc EXCEPT ![p].pc = "opened", ![p].inode = path]
  /\ UNCHANGED <<path, files, lock, truth, commits, tears>>

\* ... which is locked, or open() gives up ...
TryLock(p) ==
  /\ At(p, "opened")
  /\ IF lock[proc[p].inode] = NoProc
     THEN /\ lock' = [lock EXCEPT ![proc[p].inode] = p]
          /\ proc' = [proc EXCEPT ![p].pc = "locked"]
     ELSE /\ proc' = [proc EXCEPT ![p] = Closed]
          /\ UNCHANGED lock
  /\ UNCHANGED <<path, files, truth, commits, opens, tears>>

NeedsCompaction(lines) ==
  /\ DeadWrites(lines) >= CompactDead
  /\ DeadWrites(lines) > Cardinality(Live(Replay(lines)))

\* Mutant of ReadLines: the torn tail stays in the file.
ReadLinesKeepsTail(p) ==
  /\ At(p, "locked")
  /\ Readable(files[path].lines)
  /\ proc' = [proc EXCEPT ![p].mem = Replay(files[path].lines), ![p].pc = "open"]
  /\ UNCHANGED <<path, files, lock, truth, commits, opens, tears>>

\* ... and what the path names by now is read and replayed; a torn tail goes.
ReadLines(p) ==
  LET lines == files[path].lines IN
  /\ At(p, "locked")
  /\ IF Readable(lines)
     THEN /\ proc' = [proc EXCEPT ![p].mem = Replay(lines),
                        ![p].pc = IF NeedsCompaction(lines) THEN "compacting" ELSE "open"]
          /\ files' = [files EXCEPT ![proc[p].inode].torn = FALSE]
          /\ UNCHANGED lock
     ELSE /\ proc' = [proc EXCEPT ![p] = Closed]
          /\ lock' = Unlocked(p)
          /\ UNCHANGED files
  /\ UNCHANGED <<path, truth, commits, opens, tears>>

\* The rewritten file takes the place of the old one.
CompactRename(p) ==
  /\ At(p, "compacting")
  /\ files' = Append(files, [lines |-> Compacted(proc[p].mem), torn |-> FALSE])
  /\ lock' = Append(lock, NoProc)
  /\ path' = Len(files) + 1
  /\ proc' = [proc EXCEPT ![p].pc = "renamed"]
  /\ UNCHANGED <<truth, commits, opens, tears>>

\* The new file is opened by its path and locked, then the old one let go.
CompactLock(p) ==
  /\ At(p, "renamed")
  /\ IF lock[path] = NoProc
     THEN /\ lock' = [Unlocked(p) EXCEPT ![path] = p]
          /\ proc' = [proc EXCEPT ![p].pc = "open", ![p].inode = path]
     ELSE /\ lock' = Unlocked(p)
          /\ proc' = [proc EXCEPT ![p] = Closed]
  /\ UNCHANGED <<path, files, truth, commits, opens, tears>>

\* commit(): the line is appended to the open file, then applied.
Numbered(tx, seq) == [i \in DOMAIN tx |-> [seq |-> seq + i, kind |-> tx[i].kind, key |-> tx[i].key]]

Commit(p, tx) ==
  LET line == Numbered(tx, proc[p].mem.seq) IN
  /\ At(p, "open")
  /\ commits < MaxCommits
  /\ commits' = commits + 1
  /\ files' = [files EXCEPT ![proc[p].inode].lines = Append(@, line)]
  /\ proc' = [proc EXCEPT ![p].mem = FoldLeft(Apply, @, line)]
  /\ truth' = FoldLeft(Apply, truth, line)
  /\ UNCHANGED <<path, lock, opens, tears>>

\* The storage is dropped, or the process dies.
Close(p) ==
  /\ proc[p].pc # "closed"
  /\ proc' = [proc EXCEPT ![p] = Closed]
  /\ lock' = Unlocked(p)
  /\ UNCHANGED <<path, files, truth, commits, opens, tears>>

\* The process dies while it appends a line nobody was told of.
Tear(p) ==
  /\ At(p, "open")
  /\ tears < MaxTears
  /\ tears' = tears + 1
  /\ files' = [files EXCEPT ![proc[p].inode].torn = TRUE]
  /\ proc' = [proc EXCEPT ![p] = Closed]
  /\ lock' = Unlocked(p)
  /\ UNCHANGED <<path, truth, commits, opens>>

Next ==
  \E p \in Procs :
    \/ OpenFile(p) \/ TryLock(p) \/ ReadLines(p) \/ CompactRename(p) \/ CompactLock(p)
    \/ \E tx \in Transactions : Commit(p, tx)
    \/ Close(p) \/ Tear(p)

Spec == Init /\ [][Next]_vars

(***************************************************************************)
(* Properties.                                                             *)
(***************************************************************************)

\* The maps without the seq counter, which a rewrite may set back.
Logical(mem) == [entries |-> mem.entries, usage |-> mem.usage, regs |-> mem.regs]

\* The lines of the file hold exactly what was acknowledged, through torn
\* tails, reopenings and rewrites (commit: durable first, then visible;
\* compact_file).  Whether open() takes them is AlwaysReadable.
FileIsTruth == Logical(Replay(files[path].lines)) = Logical(truth)

\* An open session is safe to append to: no line goes behind a partial one,
\* and a transaction gets seqs beyond every seq in the file (commit, replay).
AppendSafe ==
  \A p \in Procs : At(p, "open") =>
    LET file == files[proc[p].inode] IN
    /\ ~file.torn
    /\ \A i \in DOMAIN Writes(file.lines) : Writes(file.lines)[i].seq <= proc[p].mem.seq

\* What counts as dead is exactly what a rewrite drops: a rewritten file does
\* not ask to be rewritten again (read_lines, compact_file).
DeadWritesExact ==
  LET lines == files[path].lines
      registers == {i \in DOMAIN Writes(lines) : IsRegister(Writes(lines)[i])}
  IN  DeadWrites(lines) + Cardinality(Live(Replay(lines))) = Cardinality(registers)

\* The file can always be opened again.
AlwaysReadable == Readable(files[path].lines)

\* One writer per session.
OneWriter == \A p, q \in Procs : At(p, "open") /\ At(q, "open") => p = q
=============================================================================

------------------------------- MODULE Session -------------------------------
(***************************************************************************)
(* The owner task of src/src/session.rs and the commit primitive of        *)
(* src/src/storage/mod.rs.  Clients send the owner one command at a time   *)
(* through a bounded channel and wait for its reply; the owner alone       *)
(* touches the storage.  A commit may be conditional on the versions of    *)
(* registers its client read, and is all or nothing.                       *)
(*                                                                         *)
(* A register is its version: the seq of the write that set it, or Absent. *)
(* Values never decide anything here.                                      *)
(***************************************************************************)
EXTENDS Naturals, Sequences, FiniteSets, Functions

CONSTANTS
  Clients,       \* holders of a Session handle
  Keys,          \* register keys
  Capacity,      \* of the mpsc channel, 64 in the code
  MaxCommands    \* bound: how many commands are ever sent

ASSUME SessionAssumption ==
  /\ Capacity \in Nat \ {0}
  /\ MaxCommands \in Nat
  /\ IsFiniteSet(Keys)

Absent == 0

VARIABLES
  owner,     \* "open", or "closed" once the task has dropped the storage
  seq,       \* Storage.seq
  regs,      \* Storage.registers: key -> version
  fault,     \* an append failed: no commit is tried any more
  torn,      \* the file ends in part of a line
  glued,     \* a line was appended to such a part: the file cannot be read
  queue,     \* the channel: the clients whose command is in it
  client,    \* what each client is doing
  sent,      \* commands sent so far
  touched    \* history: keys written since the client read them

vars == <<owner, seq, regs, fault, torn, glued, queue, client, sent, touched>>

\* A transaction with its expectations: registers read, set and deleted.
Transactions ==
  {tx \in [expect: SUBSET Keys, sets: SUBSET Keys, deletes: SUBSET Keys] :
     tx.sets \cap tx.deletes = {} /\ tx.sets \cup tx.deletes # {}}

NoTransaction == [expect |-> {}, sets |-> {}, deletes |-> {}]

Idle == [pc |-> "idle", token |-> [k \in Keys |-> Absent], tx |-> NoTransaction]

Init ==
  /\ owner = "open"
  /\ seq = 0
  /\ regs = [k \in Keys |-> Absent]
  /\ fault = FALSE
  /\ torn = FALSE
  /\ glued = FALSE
  /\ queue = <<>>
  /\ client = [c \in Clients |-> Idle]
  /\ sent = 0
  /\ touched = [c \in Clients |-> {}]

(***************************************************************************)
(* Clients.                                                                *)
(***************************************************************************)

\* The channel takes the command, or the client waits for room in it.
Send(c, command) ==
  /\ owner = "open"
  /\ Len(queue) < Capacity
  /\ sent < MaxCommands
  /\ queue' = Append(queue, c)
  /\ client' = [client EXCEPT ![c] = command]
  /\ sent' = sent + 1
  /\ UNCHANGED <<owner, seq, regs, fault, torn, glued, touched>>

SendRead(c) ==
  /\ client[c].pc \in {"idle", "read"}
  /\ Send(c, [client[c] EXCEPT !.pc = "reading"])

\* commit_if() with what the client read, commit() with no expectation.
SendCommit(c, tx) ==
  /\ client[c].pc = "read" \/ (client[c].pc = "idle" /\ tx.expect = {})
  /\ Send(c, [client[c] EXCEPT !.pc = "committing", !.tx = tx])

SendClose(c) ==
  /\ client[c].pc \in {"idle", "read"}
  /\ Send(c, [client[c] EXCEPT !.pc = "closing"])

(***************************************************************************)
(* The owner task.                                                         *)
(***************************************************************************)
Serving(c, pc) ==
  /\ owner = "open"
  /\ queue # <<>>
  /\ c = Head(queue)
  /\ client[c].pc = pc

Reply(c, state) ==
  /\ queue' = Tail(queue)
  /\ client' = [client EXCEPT ![c] = state]

\* Mutant of ServeRead: absent registers are missing from the answer.
ServeReadPresentOnly(c) ==
  /\ Serving(c, "reading")
  /\ Reply(c, [Idle EXCEPT !.pc = "read",
                 !.token = [k \in {j \in Keys : regs[j] # Absent} |-> regs[k]]])
  /\ touched' = [touched EXCEPT ![c] = {}]
  /\ UNCHANGED <<owner, seq, regs, fault, torn, glued, sent>>

\* A read sees one state of the storage; it is served even after a fault.
ServeRead(c) ==
  /\ Serving(c, "reading")
  /\ Reply(c, [Idle EXCEPT !.pc = "read", !.token = regs])
  /\ touched' = [touched EXCEPT ![c] = {}]
  /\ UNCHANGED <<owner, seq, regs, fault, torn, glued, sent>>

\* Every expectation names the version the register still has.
ExpectationsHold(c) ==
  \A k \in client[c].tx.expect : regs[k] = client[c].token[k]

\* Faulted, or a token moved: the client is told and nothing is written.
ServeRefusal(c) ==
  /\ Serving(c, "committing")
  /\ fault \/ ~ExpectationsHold(c)
  /\ Reply(c, Idle)
  /\ UNCHANGED <<owner, seq, regs, fault, torn, glued, sent, touched>>

\* Mutant of ServeCommit: seq is taken from the live registers.
ServeCommitReusesSeq(c) ==
  LET tx == client[c].tx
      n == Cardinality(tx.sets)
  IN  /\ Serving(c, "committing")
      /\ ~fault /\ ExpectationsHold(c)
      /\ \E at \in Injection(tx.sets, seq + 1 .. seq + n) :
           regs' = [k \in Keys |-> IF k \in tx.sets THEN at[k]
                                   ELSE IF k \in tx.deletes THEN Absent ELSE regs[k]]
      /\ seq' = CHOOSE s \in {regs'[k] : k \in Keys} : \A k \in Keys : regs'[k] <= s
      /\ glued' = (glued \/ torn)
      /\ touched' = [d \in Clients |-> touched[d] \cup tx.sets \cup tx.deletes]
      /\ Reply(c, Idle)
      /\ UNCHANGED <<owner, fault, torn, sent>>

\* Mutant of ServeCommit: one seq for the whole transaction.
ServeCommitOneSeq(c) ==
  LET tx == client[c].tx IN
  /\ Serving(c, "committing")
  /\ ~fault /\ ExpectationsHold(c)
  /\ regs' = [k \in Keys |-> IF k \in tx.sets THEN seq + 1
                             ELSE IF k \in tx.deletes THEN Absent ELSE regs[k]]
  /\ seq' = seq + 1
  /\ glued' = (glued \/ torn)
  /\ touched' = [d \in Clients |-> touched[d] \cup tx.sets \cup tx.deletes]
  /\ Reply(c, Idle)
  /\ UNCHANGED <<owner, fault, torn, sent>>

\* Storage::commit: one line is appended, then the writes become visible,
\* each under a seq of its own in the order of the transaction.
ServeCommit(c) ==
  LET tx == client[c].tx
      written == tx.sets \cup tx.deletes
      n == Cardinality(written)
  IN  /\ Serving(c, "committing")
      /\ ~fault /\ ExpectationsHold(c)
      /\ \E at \in Injection(written, seq + 1 .. seq + n) :
           regs' = [k \in Keys |-> IF k \in tx.sets THEN at[k]
                                   ELSE IF k \in tx.deletes THEN Absent ELSE regs[k]]
      /\ seq' = seq + n
      /\ glued' = (glued \/ torn)
      /\ touched' = [d \in Clients |-> touched[d] \cup written]
      /\ Reply(c, Idle)
      /\ UNCHANGED <<owner, fault, torn, sent>>

\* Mutant of ServeFailure: the session goes on after a failed append.
ServeFailureIgnored(c, partial) ==
  /\ Serving(c, "committing")
  /\ ~fault /\ ExpectationsHold(c)
  /\ torn' = (torn \/ partial)
  /\ glued' = (glued \/ torn)
  /\ Reply(c, Idle)
  /\ UNCHANGED <<owner, seq, regs, fault, sent, touched>>

\* The append fails, perhaps with part of the line in the file: the session
\* is faulted until it is opened again.
ServeFailure(c, partial) ==
  /\ Serving(c, "committing")
  /\ ~fault /\ ExpectationsHold(c)
  /\ fault' = TRUE
  /\ torn' = (torn \/ partial)
  /\ glued' = (glued \/ torn)
  /\ Reply(c, Idle)
  /\ UNCHANGED <<owner, seq, regs, sent, touched>>

\* The transaction itself is invalid (a duplicate id, a missing parent).
ServeInvalid(c) ==
  /\ Serving(c, "committing")
  /\ ~fault /\ ExpectationsHold(c)
  /\ Reply(c, Idle)
  /\ UNCHANGED <<owner, seq, regs, fault, torn, glued, sent, touched>>

\* Mutant of ServeClose: the clients behind it are not told.
ServeCloseSilently(c) ==
  /\ Serving(c, "closing")
  /\ owner' = "closed"
  /\ queue' = <<>>
  /\ client' = [client EXCEPT ![c] = Idle]
  /\ UNCHANGED <<seq, regs, fault, torn, glued, sent, touched>>

\* close(): commands behind it in the channel are dropped, and their clients
\* told that the session is closed.
ServeClose(c) ==
  /\ Serving(c, "closing")
  /\ owner' = "closed"
  /\ queue' = <<>>
  /\ client' = [d \in Clients |-> IF d \in Range(queue) THEN Idle ELSE client[d]]
  /\ UNCHANGED <<seq, regs, fault, torn, glued, sent, touched>>

\* The process dies, perhaps half-way through an append: nothing in memory
\* survives.
Crash ==
  /\ owner = "open"
  /\ owner' = "closed"
  /\ queue' = <<>>
  /\ client' = [d \in Clients |-> Idle]
  /\ \/ torn' = torn
     \/ ~fault /\ (\E c \in Clients : Serving(c, "committing")) /\ torn' = TRUE
  /\ UNCHANGED <<seq, regs, fault, glued, sent, touched>>

\* A new owner: open() drops a torn tail and replays the file.
Reopen ==
  /\ owner = "closed"
  /\ owner' = "open"
  /\ fault' = FALSE
  /\ torn' = FALSE
  /\ client' = [d \in Clients |-> Idle]
  /\ UNCHANGED <<seq, regs, glued, queue, sent, touched>>

Serve ==
  \E c \in Clients :
    \/ ServeRead(c) \/ ServeRefusal(c) \/ ServeCommit(c) \/ ServeInvalid(c) \/ ServeClose(c)
    \/ \E partial \in BOOLEAN : ServeFailure(c, partial)

Next ==
  \/ \E c \in Clients :
       SendRead(c) \/ SendClose(c) \/ \E tx \in Transactions : SendCommit(c, tx)
  \/ Serve \/ Crash \/ Reopen

Spec == Init /\ [][Next]_vars

\* The owner task keeps taking commands off its channel.
FairSpec == Spec /\ WF_vars(Serve)

(***************************************************************************)
(* Properties.                                                             *)
(***************************************************************************)
ClientState ==
  [pc: {"idle", "reading", "read", "committing", "closing"},
   token: [Keys -> Nat],
   tx: [expect: SUBSET Keys, sets: SUBSET Keys, deletes: SUBSET Keys]]

\* The owner, its storage and its clients are in states the code has.
TypeOK ==
  /\ owner \in {"open", "closed"}
  /\ seq \in Nat
  /\ regs \in [Keys -> Nat]
  /\ fault \in BOOLEAN /\ torn \in BOOLEAN /\ glued \in BOOLEAN
  /\ queue \in Seq(Clients)
  /\ client \in [Clients -> ClientState]
  /\ sent \in Nat
  /\ touched \in [Clients -> SUBSET Keys]

\* A register that still has the version a client read was not written since:
\* deleting and setting it again is noticed (Expect, commit_if).  So of two
\* clients that act on the same version at most one commit goes through.
NoLostUpdate ==
  \A c \in Clients, k \in Keys :
    client[c].token[k] # Absent /\ regs[k] = client[c].token[k] => k \notin touched[c]

\* Nothing is appended behind the remains of a failed append: the file stays
\* readable (the fault flag, and the truncation in open()).
NeverGlued == ~glued

\* No two registers have the same version, so a version names one write.
VersionsDistinct ==
  \A j, k \in Keys : regs[j] = regs[k] /\ regs[j] # Absent => j = k

\* A client that sent a command is answered (the reply channels, and the
\* commands a closed channel drops).
Answered ==
  \A c \in Clients :
    client[c].pc \in {"reading", "committing", "closing"}
      ~> client[c].pc \in {"idle", "read"}
=============================================================================

---------------------------- MODULE SessionProofs ----------------------------
(***************************************************************************)
(* The conditional commit of src/src/session.rs loses no update and leaves *)
(* the file readable, for any number of clients, keys and commands.        *)
(***************************************************************************)
EXTENDS Session, FiniteSetTheorems, TLAPS

\* Versions and tokens were assigned by a commit: none is ahead of seq.
BelowSeq ==
  /\ \A k \in Keys : regs[k] <= seq
  /\ \A c \in Clients, k \in Keys : client[c].token[k] <= seq

\* A register written since a client read it is gone or has a later version.
WritesMoveOn ==
  \A c \in Clients, k \in Keys :
    k \in touched[c] => regs[k] = Absent \/ regs[k] > client[c].token[k]

\* A torn tail is only there while no commit can be tried.
TornIsFenced == torn => fault \/ owner = "closed"

IInv == TypeOK /\ BelowSeq /\ WritesMoveOn /\ TornIsFenced /\ NeverGlued /\ VersionsDistinct

\* The tokens of an idle client say nothing.
LEMMA IdleType == Idle \in ClientState
  BY DEF Idle, ClientState, NoTransaction, Absent

\* Initially the session is empty and nobody has read anything.
LEMMA InitIInv == Init => IInv
<1> SUFFICES ASSUME Init PROVE IInv
  OBVIOUS
<1>1. TypeOK
  <2>1. client \in [Clients -> ClientState] /\ touched \in [Clients -> SUBSET Keys]
    BY IdleType DEF Init
  <2>2. regs \in [Keys -> Nat] /\ seq \in Nat /\ sent \in Nat /\ queue \in Seq(Clients)
    BY DEF Init, Absent
  <2>3. fault \in BOOLEAN /\ torn \in BOOLEAN /\ glued \in BOOLEAN /\ owner \in {"open", "closed"}
    BY DEF Init
  <2> QED
    BY <2>1, <2>2, <2>3 DEF TypeOK
<1>2. BelowSeq /\ WritesMoveOn
  BY DEF Init, BelowSeq, WritesMoveOn, Absent, Idle
<1>3. TornIsFenced /\ NeverGlued /\ VersionsDistinct
  BY DEF Init, TornIsFenced, NeverGlued, VersionsDistinct
<1> QED
  BY <1>1, <1>2, <1>3 DEF IInv

\* What a command changes of a client leaves its tokens alone.
LEMMA SendStep ==
  ASSUME IInv, NEW c \in Clients, NEW command \in ClientState, Send(c, command),
         command.token = client[c].token
  PROVE  IInv'
<1>1. TypeOK'
  BY DEF IInv, TypeOK, Send
<1>2. BelowSeq' /\ WritesMoveOn'
  BY DEF IInv, TypeOK, BelowSeq, WritesMoveOn, Send
<1>3. TornIsFenced' /\ NeverGlued' /\ VersionsDistinct'
  BY DEF IInv, TornIsFenced, NeverGlued, VersionsDistinct, Send
<1> QED
  BY <1>1, <1>2, <1>3 DEF IInv

\* A reply that forgets the tokens, from a step that leaves the storage alone.
LEMMA ReplyIdle ==
  ASSUME IInv, NEW c \in Clients, queue # <<>>, Reply(c, Idle),
         UNCHANGED <<owner, seq, regs, sent, touched>>,
         fault' \in BOOLEAN, torn' \in BOOLEAN,
         TornIsFenced', glued' = FALSE
  PROVE  IInv'
<1>1. TypeOK'
  <2>1. client' \in [Clients -> ClientState] /\ queue' \in Seq(Clients)
    BY IdleType DEF IInv, TypeOK, Reply
  <2>2. glued' \in BOOLEAN
    OBVIOUS
  <2> QED
    BY <2>1, <2>2 DEF IInv, TypeOK
<1>2. BelowSeq' /\ WritesMoveOn'
  BY DEF IInv, TypeOK, BelowSeq, WritesMoveOn, Reply, Idle, Absent
<1>3. NeverGlued' /\ VersionsDistinct'
  BY DEF IInv, NeverGlued, VersionsDistinct
<1> QED
  BY <1>1, <1>2, <1>3 DEF IInv

\* A read takes the versions of the moment.
LEMMA ReadStep ==
  ASSUME IInv, NEW c \in Clients, ServeRead(c)
  PROVE  IInv'
<1> DEFINE answer == [Idle EXCEPT !.pc = "read", !.token = regs]
<1>1. answer \in ClientState /\ answer.token = regs
  BY IdleType DEF IInv, TypeOK, ClientState, Idle
<1>2. TypeOK'
  BY <1>1 DEF IInv, TypeOK, ServeRead, Serving, Reply
<1>3. BelowSeq' /\ WritesMoveOn'
  BY <1>1 DEF IInv, TypeOK, BelowSeq, WritesMoveOn, ServeRead, Reply
<1>4. TornIsFenced' /\ NeverGlued' /\ VersionsDistinct'
  BY DEF IInv, TornIsFenced, NeverGlued, VersionsDistinct, ServeRead
<1> QED
  BY <1>2, <1>3, <1>4 DEF IInv

\* A commit gives every register it sets a version beyond all tokens.
LEMMA CommitStep ==
  ASSUME IInv, NEW c \in Clients, ServeCommit(c)
  PROVE  IInv'
<1> DEFINE tx == client[c].tx
           written == tx.sets \cup tx.deletes
           n == Cardinality(written)
<1>1. tx.sets \subseteq Keys /\ tx.deletes \subseteq Keys
  BY DEF IInv, TypeOK, ClientState
<1>2. n \in Nat
  <2>1. IsFiniteSet(written)
    BY <1>1, FS_Subset, SessionAssumption
  <2> QED
    BY <2>1, FS_CardinalityType
<1>3. seq \in Nat /\ seq' = seq + n /\ seq' \in Nat
  BY <1>2 DEF IInv, TypeOK, ServeCommit
<1>4. PICK at \in Injection(written, seq + 1 .. seq + n) :
        regs' = [k \in Keys |-> IF k \in tx.sets THEN at[k]
                                ELSE IF k \in tx.deletes THEN Absent ELSE regs[k]]
  BY DEF ServeCommit
<1> HIDE DEF n
<1>5. \A k \in written : at[k] \in Nat /\ seq < at[k] /\ at[k] <= seq'
  <2>1. at \in [written -> seq + 1 .. seq + n]
    BY <1>4 DEF Injection
  <2>2. \A k \in written : at[k] \in seq + 1 .. seq + n
    BY <2>1
  <2> QED
    BY <2>2, <1>2, <1>3
<1>6. \A j, k \in written : at[j] = at[k] => j = k
  BY DEF Injection, IsInjective
<1>7. client' = [client EXCEPT ![c] = Idle] /\ queue' = Tail(queue) /\ queue # <<>>
  BY DEF ServeCommit, Serving, Reply
<1>8. TypeOK'
  <2>1. regs' \in [Keys -> Nat]
    BY <1>4, <1>5 DEF IInv, TypeOK, Absent
  <2>2. client' \in [Clients -> ClientState] /\ queue' \in Seq(Clients)
    BY <1>7, IdleType DEF IInv, TypeOK
  <2>3. touched' \in [Clients -> SUBSET Keys]
    BY <1>1 DEF IInv, TypeOK, ServeCommit
  <2>4. glued' \in BOOLEAN
    BY DEF ServeCommit
  <2>5. owner' = owner /\ fault' = fault /\ torn' = torn /\ sent' = sent
    BY DEF ServeCommit
  <2> QED
    BY <1>3, <2>1, <2>2, <2>3, <2>4, <2>5 DEF IInv, TypeOK
<1>9. BelowSeq'
  <2>1. \A k \in Keys : regs'[k] <= seq'
    BY <1>2, <1>3, <1>4, <1>5 DEF IInv, TypeOK, BelowSeq, Absent
  <2>2. \A d \in Clients, k \in Keys : client'[d].token[k] <= seq'
    <3> SUFFICES ASSUME NEW d \in Clients, NEW k \in Keys
                 PROVE  client'[d].token[k] <= seq'
      OBVIOUS
    <3>1. CASE d = c
      BY <3>1, <1>3, <1>7 DEF IInv, TypeOK, Idle, Absent
    <3>2. CASE d # c
      <4>1. client'[d] = client[d] /\ client[d].token[k] \in Nat /\ client[d].token[k] <= seq
        BY <3>2, <1>7 DEF IInv, TypeOK, BelowSeq, ClientState
      <4> QED
        BY <4>1, <1>2, <1>3
    <3> QED
      BY <3>1, <3>2
  <2> QED
    BY <2>1, <2>2 DEF BelowSeq
<1>10. WritesMoveOn'
  <2> SUFFICES ASSUME NEW d \in Clients, NEW k \in Keys, k \in touched'[d]
               PROVE  regs'[k] = Absent \/ regs'[k] > client'[d].token[k]
    BY DEF WritesMoveOn
  <2>1. client'[d].token[k] \in Nat /\ client'[d].token[k] <= seq
    BY <1>7 DEF IInv, TypeOK, BelowSeq, ClientState, Idle, Absent
  <2>2. CASE k \in tx.sets
    BY <2>1, <2>2, <1>3, <1>4, <1>5
  <2>3. CASE k \in tx.deletes \ tx.sets
    BY <2>3, <1>4
  <2>4. CASE k \notin written
    <3>1. k \in touched[d] /\ regs'[k] = regs[k]
      BY <2>4, <1>4 DEF IInv, TypeOK, ServeCommit
    <3>2. client'[d].token[k] = client[d].token[k] \/ client'[d].token[k] = 0
      BY <1>7 DEF IInv, TypeOK, Idle, Absent
    <3>3. regs[k] \in Nat /\ client[d].token[k] \in Nat
      BY DEF IInv, TypeOK, ClientState
    <3> QED
      BY <3>1, <3>2, <3>3 DEF IInv, WritesMoveOn, Absent
  <2> QED
    BY <2>2, <2>3, <2>4
<1>11. TornIsFenced' /\ NeverGlued'
  BY DEF IInv, TypeOK, TornIsFenced, NeverGlued, ServeCommit, Serving
<1>12. VersionsDistinct'
  <2> SUFFICES ASSUME NEW j \in Keys, NEW k \in Keys, regs'[j] = regs'[k], regs'[j] # Absent
               PROVE  j = k
    BY DEF VersionsDistinct
  <2>1. \A x \in Keys : regs'[x] # Absent =>
          \/ x \in tx.sets /\ regs'[x] = at[x]
          \/ x \notin written /\ regs'[x] = regs[x]
    BY <1>4
  <2>2. \A x \in Keys : regs[x] \in Nat /\ regs[x] <= seq
    BY DEF IInv, TypeOK, BelowSeq
  <2>3. CASE j \in tx.sets /\ k \in tx.sets
    BY <2>1, <2>3, <1>6
  <2>4. CASE j \in tx.sets /\ k \notin tx.sets
    BY <2>1, <2>2, <2>4, <1>3, <1>5
  <2>5. CASE j \notin tx.sets /\ k \in tx.sets
    BY <2>1, <2>2, <2>5, <1>3, <1>5
  <2>6. CASE j \notin tx.sets /\ k \notin tx.sets
    BY <2>1, <2>6 DEF IInv, VersionsDistinct
  <2> QED
    BY <2>3, <2>4, <2>5, <2>6
<1> QED
  BY <1>8, <1>9, <1>10, <1>11, <1>12 DEF IInv

\* Losing clients, by close(), a crash or a new owner, only forgets tokens.
LEMMA ForgetStep ==
  ASSUME IInv, UNCHANGED <<seq, regs, glued, sent, touched>>,
         owner' \in {"open", "closed"}, queue' \in Seq(Clients),
         fault' \in BOOLEAN, torn' \in BOOLEAN, TornIsFenced',
         NEW D \in SUBSET Clients,
         client' = [d \in Clients |-> IF d \in D THEN Idle ELSE client[d]]
  PROVE  IInv'
<1>1. TypeOK'
  BY IdleType DEF IInv, TypeOK
<1>2. BelowSeq' /\ WritesMoveOn'
  BY DEF IInv, TypeOK, BelowSeq, WritesMoveOn, Idle, Absent
<1>3. NeverGlued' /\ VersionsDistinct'
  BY DEF IInv, NeverGlued, VersionsDistinct
<1> QED
  BY <1>1, <1>2, <1>3 DEF IInv

\* Every step of a client, of the owner or of the process keeps the invariant.
LEMMA NextIInv == IInv /\ [Next]_vars => IInv'
<1> SUFFICES ASSUME IInv, [Next]_vars PROVE IInv'
  OBVIOUS
<1>1. ASSUME NEW c \in Clients, SendRead(c) \/ SendClose(c) PROVE IInv'
  <2>1. PICK command \in {[client[c] EXCEPT !.pc = "reading"], [client[c] EXCEPT !.pc = "closing"]} :
          Send(c, command)
    BY <1>1 DEF SendRead, SendClose
  <2>2. command \in ClientState /\ command.token = client[c].token
    BY <2>1 DEF IInv, TypeOK, ClientState
  <2> QED
    BY <2>1, <2>2, SendStep
<1>2. ASSUME NEW c \in Clients, NEW tx \in Transactions, SendCommit(c, tx) PROVE IInv'
  <2> DEFINE command == [client[c] EXCEPT !.pc = "committing", !.tx = tx]
  <2>1. command \in ClientState /\ command.token = client[c].token
    BY DEF IInv, TypeOK, ClientState, Transactions
  <2>2. Send(c, command)
    BY <1>2 DEF SendCommit
  <2> HIDE DEF command
  <2> QED
    BY <2>1, <2>2, SendStep
<1>3. ASSUME NEW c \in Clients, ServeRead(c) PROVE IInv'
  BY <1>3, ReadStep
<1>4. ASSUME NEW c \in Clients, ServeCommit(c) PROVE IInv'
  BY <1>4, CommitStep
<1>5. ASSUME NEW c \in Clients, ServeRefusal(c) \/ ServeInvalid(c) PROVE IInv'
  <2>1. queue # <<>> /\ Reply(c, Idle) /\ UNCHANGED <<owner, seq, regs, sent, touched>>
        /\ UNCHANGED <<fault, torn, glued>>
    BY <1>5 DEF ServeRefusal, ServeInvalid, Serving
  <2>2. fault' \in BOOLEAN /\ torn' \in BOOLEAN /\ glued' = FALSE /\ TornIsFenced'
    BY <2>1 DEF IInv, TypeOK, NeverGlued, TornIsFenced
  <2> QED
    BY <2>1, <2>2, ReplyIdle
<1>6. ASSUME NEW c \in Clients, NEW partial \in BOOLEAN, ServeFailure(c, partial) PROVE IInv'
  <2>1. queue # <<>> /\ Reply(c, Idle) /\ UNCHANGED <<owner, seq, regs, sent, touched>>
    BY <1>6 DEF ServeFailure, Serving
  <2>2. ~torn
    BY <1>6 DEF ServeFailure, Serving, IInv, TornIsFenced
  <2>3. fault' \in BOOLEAN /\ torn' \in BOOLEAN /\ glued' = FALSE /\ TornIsFenced'
    BY <1>6, <2>2 DEF ServeFailure, IInv, TypeOK, NeverGlued, TornIsFenced
  <2> QED
    BY <2>1, <2>3, ReplyIdle
<1>7. ASSUME NEW c \in Clients, ServeClose(c) PROVE IInv'
  <2> DEFINE D == Range(queue) \cap Clients
  <2>1. UNCHANGED <<seq, regs, glued, sent, touched, fault, torn>> /\ owner' = "closed"
        /\ queue' = <<>>
    BY <1>7 DEF ServeClose
  <2>2. client' = [d \in Clients |-> IF d \in D THEN Idle ELSE client[d]]
    BY <1>7 DEF ServeClose
  <2>3. fault' \in BOOLEAN /\ torn' \in BOOLEAN /\ TornIsFenced' /\ queue' \in Seq(Clients)
    BY <2>1 DEF IInv, TypeOK, TornIsFenced
  <2> HIDE DEF D
  <2>4. D \in SUBSET Clients
    BY DEF D
  <2> QED
    BY <2>1, <2>2, <2>3, <2>4, ForgetStep
<1>8. ASSUME Crash \/ Reopen PROVE IInv'
  <2>1. UNCHANGED <<seq, regs, glued, sent, touched>> /\ owner' \in {"open", "closed"}
    BY <1>8 DEF Crash, Reopen
  <2>2. client' = [d \in Clients |-> IF d \in Clients THEN Idle ELSE client[d]]
    BY <1>8 DEF Crash, Reopen
  <2>3. queue' \in Seq(Clients)
    <3>1. queue' = <<>> \/ queue' = queue
      BY <1>8 DEF Crash, Reopen
    <3>2. queue \in Seq(Clients) /\ <<>> \in Seq(Clients)
      BY DEF IInv, TypeOK
    <3> QED
      BY <3>1, <3>2
  <2>4. fault' \in BOOLEAN /\ torn' \in BOOLEAN /\ TornIsFenced'
    BY <1>8 DEF Crash, Reopen, IInv, TypeOK, TornIsFenced
  <2> QED
    BY <2>1, <2>2, <2>3, <2>4, ForgetStep
<1>9. CASE UNCHANGED vars
  BY <1>9 DEF vars, IInv, TypeOK, BelowSeq, WritesMoveOn, TornIsFenced, NeverGlued,
              VersionsDistinct
<1> QED
  BY <1>1, <1>2, <1>3, <1>4, <1>5, <1>6, <1>7, <1>8, <1>9 DEF Next, Serve

\* The inductive invariant holds in every reachable state.
THEOREM Invariance == Spec => []IInv
<1> QED
  BY InitIInv, NextIInv, PTL DEF Spec

\* The owner task, its storage and its clients are always in states the code has.
THEOREM TypeCorrect == Spec => []TypeOK
<1>1. IInv => TypeOK
  BY DEF IInv
<1> QED
  BY <1>1, Invariance, PTL

\* commit_if() with the version a client read fails if the register was set
\* or deleted since, whatever any number of clients, faults, closes and
\* crashes did in between.
THEOREM ConditionalCommitSafe == Spec => []NoLostUpdate
<1>1. IInv => NoLostUpdate
  <2> SUFFICES ASSUME IInv, NEW c \in Clients, NEW k \in Keys,
                      client[c].token[k] # Absent, regs[k] = client[c].token[k]
               PROVE  k \notin touched[c]
    BY DEF NoLostUpdate
  <2>1. regs[k] \in Nat
    BY DEF IInv, TypeOK
  <2> QED
    BY <2>1 DEF IInv, WritesMoveOn
<1> QED
  BY <1>1, Invariance, PTL

\* No line is ever appended behind the remains of a failed append, so what
\* open() reads after any history of faults and crashes is whole lines.
THEOREM FileStaysReadable == Spec => []NeverGlued
<1>1. IInv => NeverGlued
  BY DEF IInv
<1> QED
  BY <1>1, Invariance, PTL

\* A version names one register write.
THEOREM VersionsNameWrites == Spec => []VersionsDistinct
<1>1. IInv => VersionsDistinct
  BY DEF IInv
<1> QED
  BY <1>1, Invariance, PTL
=============================================================================

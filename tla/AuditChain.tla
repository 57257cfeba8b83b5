----------------------------- MODULE AuditChain -----------------------------
(***************************************************************************)
(* The audit log of one replica: services/audit_logger.rs (queue and       *)
(* writer), services/audit_integrity.rs (hash chain and checkpoints),      *)
(* verify_integrity of routes/audit.rs, and the tasks and the shutdown of  *)
(* main.rs.  Replicas write chains of their own and do not interact.       *)
(*                                                                         *)
(* A hash is the sequence of what was hashed, so that two hashes are equal *)
(* just when everything under them is.  A statement may fail without       *)
(* effect, or take effect and be answered with an error; the process may   *)
(* crash at any point and start again.  Each is a fault, and MaxFaults     *)
(* bounds them.                                                            *)
(***************************************************************************)
EXTENDS Naturals, Sequences, FiniteSets

CONSTANTS
  Events,
  Spawned,    \* events of the tasks a login leaves behind (account_locked)
  Capacity,   \* QUEUE_CAPACITY
  Attempts,   \* WRITE_ATTEMPTS
  MaxFaults,
  None

Flush == "flush"

ASSUME AuditAssumption ==
  /\ Capacity \in Nat \ {0} /\ Attempts \in Nat \ {0} /\ MaxFaults \in Nat
  /\ Spawned \subseteq Events /\ Flush \notin Events /\ None \notin Events

VARIABLES
  rows,      \* user_activity rows of this chain
  cps,       \* audit_checkpoint rows of this chain
  proc,      \* the process: serving, draining, signing its last checkpoint, stopped
  queue,     \* the channel
  waiting,   \* events whose spawned task waits for room in the channel
  head,      \* the writer's chain head, None before it is read
  writer,    \* what the writer has in hand
  flush,     \* the shutdown's flush: unsent, sent, answered, given up
  signer,    \* the hourly task and the shutdown, issuing a checkpoint
  scan,      \* a verification between its two reads, and its answer
  recorded,  \* history: events handed to record
  dropped,   \* history: events counted by mark_dropped
  lost,      \* history: events that went away with a process
  clean,     \* history: nothing failed or overflowed since the process started
  faults

mem == <<queue, waiting, head, writer>>
vars == <<rows, cps, proc, mem, flush, signer, scan, recorded, dropped, lost, clean, faults>>

Hash(seq, prev, e) == Append(prev, <<seq, e>>)
GenesisHash == << >>
Row(seq, prev, e) == [seq |-> seq, prev |-> prev, event |-> e, hash |-> Hash(seq, prev, e)]

MaxSeq(rs) == IF rs = {} THEN 0 ELSE CHOOSE n \in {r.seq : r \in rs} : \A r \in rs : r.seq <= n
Top(rs) == CHOOSE r \in rs : r.seq = MaxSeq(rs)
Stored == {r.event : r \in rows}

Idle == [pc |-> "idle", event |-> None, attempt |-> 0]
Signers == {"hourly", "final"}
NoSigner == [s \in Signers |-> [pc |-> "idle", seq |-> 0, hash |-> GenesisHash]]
NoScan == [pc |-> "idle", rows |-> {}, answer |-> "none"]

TypeOK ==
  /\ \A r \in rows : r.seq \in Nat \ {0} /\ r.event \in Events
  /\ \A c \in cps : DOMAIN c = {"seq", "hash"}
  /\ proc \in {"serving", "draining", "signing", "stopped"}
  /\ queue \in Seq(Events \cup {Flush}) /\ Len(queue) <= Capacity
  /\ waiting \subseteq recorded /\ recorded \subseteq Events
  /\ head = None \/ head.seq \in Nat
  /\ writer.pc \in {"idle", "load", "write"} /\ writer.event \in Events \cup {None}
  /\ writer.attempt \in 0..Attempts
  /\ flush \in {"unsent", "sent", "answered", "timeout"}
  /\ \A s \in Signers : signer[s].pc \in {"idle", "last", "create", "over"}
  /\ scan.pc \in {"idle", "scanned"}
  /\ scan.answer \in {"none", "intact", "unsigned", "chain", "anchor"}
  /\ dropped \subseteq recorded /\ lost \subseteq recorded
  /\ clean \in BOOLEAN /\ faults \in 0..MaxFaults

Init ==
  /\ rows = {} /\ cps = {}
  /\ proc = "serving"
  /\ queue = << >> /\ waiting = {} /\ head = None /\ writer = Idle
  /\ flush = "unsent" /\ signer = NoSigner /\ scan = NoScan
  /\ recorded = {} /\ dropped = {} /\ lost = {}
  /\ clean = TRUE /\ faults = 0

Alive == proc # "stopped"
NoFault == UNCHANGED <<clean, faults>>
Fault == faults < MaxFaults /\ faults' = faults + 1 /\ clean' = FALSE
InMemory == ({queue[i] : i \in DOMAIN queue} \cup waiting \cup {writer.event}) \cap Events

----------------------------------------------------------------------------
(* record: into the channel, or into a task that waits for room.           *)

\* Mutant of Record: requests are still served when the queue is drained.
RecordAlways(e) ==
  /\ Alive
  /\ e \notin recorded
  /\ recorded' = recorded \cup {e}
  /\ IF Len(queue) < Capacity
     THEN queue' = Append(queue, e) /\ UNCHANGED <<waiting, clean>>
     ELSE waiting' = waiting \cup {e} /\ clean' = FALSE /\ UNCHANGED queue
  /\ UNCHANGED <<rows, cps, proc, head, writer, flush, signer, scan, dropped, lost, faults>>

\* Handlers are done when the shutdown begins; a task that a login spawned
\* to count its failure is not, and may record a lock until the process ends.
Record(e) ==
  /\ IF e \in Spawned THEN Alive ELSE proc = "serving"
  /\ e \notin recorded
  /\ recorded' = recorded \cup {e}
  /\ IF Len(queue) < Capacity
     THEN queue' = Append(queue, e) /\ clean' = (clean /\ proc = "serving") /\ UNCHANGED waiting
     ELSE waiting' = waiting \cup {e} /\ clean' = FALSE /\ UNCHANGED queue
  /\ UNCHANGED <<rows, cps, proc, head, writer, flush, signer, scan, dropped, lost, faults>>

\* The spawned send: whichever task gets the free slot, in no fixed order.
Enqueue(e) ==
  /\ e \in waiting
  /\ Len(queue) < Capacity
  /\ queue' = Append(queue, e)
  /\ waiting' = waiting \ {e}
  /\ UNCHANGED <<rows, cps, proc, head, writer, flush, signer, scan, recorded, dropped, lost,
                 clean, faults>>

----------------------------------------------------------------------------
(* The writer task.                                                        *)

\* rx.recv: a flush is acknowledged, an event is taken in hand.
Receive ==
  /\ writer.pc = "idle" /\ queue # << >>
  /\ queue' = Tail(queue)
  /\ IF Head(queue) = Flush
     THEN flush' = (IF flush = "sent" THEN "answered" ELSE flush) /\ UNCHANGED writer
     ELSE /\ writer' = [pc |-> IF head = None THEN "load" ELSE "write",
                        event |-> Head(queue), attempt |-> 1]
          /\ UNCHANGED flush
  /\ UNCHANGED <<rows, cps, proc, waiting, head, signer, scan, recorded, dropped, lost,
                 clean, faults>>

\* mark_dropped: the event is counted and the writer goes on to the next.
Drop == dropped' = dropped \cup {writer.event} /\ writer' = Idle

\* Mutant of LoadHead: an event whose chain head cannot be read is forgotten.
LoadForgets ==
  /\ writer.pc = "load"
  /\ \/ /\ head' = IF rows = {} THEN [seq |-> 0, hash |-> GenesisHash]
                   ELSE [seq |-> MaxSeq(rows), hash |-> Top(rows).hash]
        /\ writer' = [writer EXCEPT !.pc = "write"]
        /\ NoFault
     \/ writer' = Idle /\ Fault /\ UNCHANGED head
  /\ UNCHANGED <<rows, cps, proc, queue, waiting, flush, signer, scan, recorded, dropped, lost>>

\* load_chain_head: the last row of the chain, or the genesis.  When the read
\* fails the event is dropped and the next one tries again.
LoadHead ==
  /\ writer.pc = "load"
  /\ \/ /\ head' = IF rows = {} THEN [seq |-> 0, hash |-> GenesisHash]
                   ELSE [seq |-> MaxSeq(rows), hash |-> Top(rows).hash]
        /\ writer' = [writer EXCEPT !.pc = "write"]
        /\ NoFault /\ UNCHANGED dropped
     \/ Drop /\ Fault /\ UNCHANGED head
  /\ UNCHANGED <<rows, cps, proc, queue, waiting, flush, signer, scan, recorded, lost>>

\* The row that write_with_retry computes once, before its first attempt.
Link == Row(head.seq + 1, head.hash, writer.event)
Taken(seq) == \E r \in rows : r.seq = seq

\* Mutant of StoreRow: (chain_id, seq) has no unique index.
StoreTwice ==
  /\ writer.pc = "write"
  /\ \/ /\ rows' = rows \cup {Link}
        /\ head' = [seq |-> Link.seq, hash |-> Link.hash]
        /\ writer' = Idle /\ NoFault
     \/ /\ rows' = rows \cup {Link}
        /\ writer' = Idle /\ Fault /\ UNCHANGED head
  /\ UNCHANGED <<cps, proc, queue, waiting, flush, signer, scan, recorded, dropped, lost>>

\* write_event answers that the row is stored.
StoreRow ==
  /\ writer.pc = "write"
  /\ ~Taken(Link.seq)
  /\ rows' = rows \cup {Link}
  /\ head' = [seq |-> Link.seq, hash |-> Link.hash]
  /\ writer' = Idle
  /\ UNCHANGED <<cps, proc, queue, waiting, flush, signer, scan, recorded, dropped, lost,
                 clean, faults>>

\* Mutant of AfterError: every failed attempt takes another number.
RetryNextSeq ==
  IF writer.attempt < Attempts
  THEN /\ writer' = [writer EXCEPT !.attempt = @ + 1] /\ UNCHANGED dropped
       /\ head' = [head EXCEPT !.seq = @ + 1]
  ELSE Drop /\ UNCHANGED head

\* Mutant of AfterError: the attempts are not counted.
RetryForever ==
  writer' = [writer EXCEPT !.attempt = 1] /\ UNCHANGED <<dropped, head>>

\* The next attempt writes the same row.  After the last the event is
\* dropped, and the head stays where it was.
AfterError ==
  IF writer.attempt < Attempts
  THEN writer' = [writer EXCEPT !.attempt = @ + 1] /\ UNCHANGED <<dropped, head>>
  ELSE Drop /\ UNCHANGED head

\* write_event answers with an error: the number is taken, or the statement
\* failed, or it took effect and the answer was lost.
WriteFails ==
  /\ writer.pc = "write"
  /\ AfterError
  /\ \/ Taken(Link.seq) /\ NoFault /\ UNCHANGED rows
     \/ ~Taken(Link.seq) /\ Fault /\ rows' \in {rows, rows \cup {Link}}
  /\ UNCHANGED <<cps, proc, queue, waiting, flush, signer, scan, recorded, lost>>

Writer == Receive \/ LoadHead \/ StoreRow \/ WriteFails

----------------------------------------------------------------------------
(* issue_checkpoint, every hour and once more at the end.                  *)

Due(s) == IF s = "hourly" THEN Alive ELSE proc = "signing"
Over(s) == [signer EXCEPT ![s] = [pc |-> IF s = "final" THEN "over" ELSE "idle",
                                  seq |-> 0, hash |-> GenesisHash]]
signUnchanged == <<rows, proc, mem, flush, scan, recorded, dropped, lost>>

\* Mutant of SignHead: the hash below the last row is signed.
SignPrevious(s) ==
  /\ Due(s) /\ signer[s].pc = "idle" /\ rows # {}
  /\ signer' = [signer EXCEPT ![s] =
       [pc |-> "last", seq |-> MaxSeq(rows), hash |-> Top(rows).prev]]
  /\ UNCHANGED <<signUnchanged, cps, clean, faults>>

\* The last row is read; an empty chain needs no checkpoint.
SignHead(s) ==
  /\ Due(s) /\ signer[s].pc = "idle"
  /\ signer' = IF rows = {} THEN Over(s)
               ELSE [signer EXCEPT ![s] =
                      [pc |-> "last", seq |-> MaxSeq(rows), hash |-> Top(rows).hash]]
  /\ UNCHANGED <<signUnchanged, cps, clean, faults>>

\* A head that is signed already is not signed again.
SignLast(s) ==
  /\ signer[s].pc = "last"
  /\ signer' = IF signer[s].seq <= MaxSeq(cps) THEN Over(s)
               ELSE [signer EXCEPT ![s].pc = "create"]
  /\ UNCHANGED <<signUnchanged, cps, clean, faults>>

\* The insert; (chain_id, seq_to) is unique, and an error is only logged.
SignCreate(s) ==
  /\ signer[s].pc = "create"
  /\ cps' = IF \E c \in cps : c.seq = signer[s].seq THEN cps
            ELSE cps \cup {[seq |-> signer[s].seq, hash |-> signer[s].hash]}
  /\ signer' = Over(s)
  /\ UNCHANGED <<signUnchanged, clean, faults>>

SignFails(s) ==
  /\ signer[s].pc \in {"last", "create"}
  /\ signer' = Over(s) /\ Fault
  /\ UNCHANGED <<signUnchanged, cps>>

----------------------------------------------------------------------------
(* verify_integrity, on this or on another replica.                        *)

\* The loop over the rows: numbers without a gap, each row on the hash of
\* the one before, and each hash that of its row.
ChainHolds(rs) ==
  \A r \in rs :
    /\ r.seq \in 1..Cardinality(rs)
    /\ r = Row(r.seq, r.prev, r.event)
    /\ r.prev = IF r.seq = 1 THEN GenesisHash
                ELSE (CHOOSE q \in rs : q.seq = r.seq - 1).hash

\* The first query reads the rows.
ScanRows ==
  /\ scan.pc = "idle"
  /\ scan' = [pc |-> "scanned", rows |-> rows, answer |-> "none"]
  /\ UNCHANGED <<rows, cps, proc, mem, flush, signer, recorded, dropped, lost, clean, faults>>

\* The last query reads the checkpoints: every one must be anchored in the
\* rows, and one of them is needed to call the chain intact.
ScanCheckpoints ==
  /\ scan.pc = "scanned"
  /\ LET anchored(c) == \E r \in scan.rows : r.seq = c.seq /\ r.hash = c.hash IN
       scan' = [scan EXCEPT !.pc = "idle", !.answer =
         CASE ~ChainHolds(scan.rows) -> "chain"
           [] ChainHolds(scan.rows) /\ \E c \in cps : ~anchored(c) -> "anchor"
           [] ChainHolds(scan.rows) /\ cps = {} -> "unsigned"
           [] OTHER -> "intact"]
  /\ UNCHANGED <<rows, cps, proc, mem, flush, signer, recorded, dropped, lost, clean, faults>>

----------------------------------------------------------------------------
(* The process: main.rs.                                                   *)

\* SIGTERM: the server stops accepting and waits for its handlers.
Shutdown ==
  /\ proc = "serving"
  /\ proc' = "draining"
  /\ UNCHANGED <<rows, cps, mem, flush, signer, scan, recorded, dropped, lost, clean, faults>>

\* flush: waits for room as any send does.
SendFlush ==
  /\ proc = "draining" /\ flush = "unsent" /\ Len(queue) < Capacity
  /\ queue' = Append(queue, Flush)
  /\ flush' = "sent"
  /\ UNCHANGED <<rows, cps, proc, waiting, head, writer, signer, scan, recorded, dropped,
                 lost, clean, faults>>

\* FLUSH_TIMEOUT: the shutdown goes on without the answer.
FlushTimeout ==
  /\ proc = "draining" /\ flush = "sent"
  /\ flush' = "timeout" /\ Fault
  /\ UNCHANGED <<rows, cps, proc, mem, signer, scan, recorded, dropped, lost>>

Drained ==
  /\ proc = "draining" /\ flush \in {"answered", "timeout"}
  /\ proc' = "signing"
  /\ UNCHANGED <<rows, cps, mem, flush, signer, scan, recorded, dropped, lost, clean, faults>>

Die ==
  /\ proc' = "stopped"
  /\ lost' = lost \cup InMemory
  /\ queue' = << >> /\ waiting' = {} /\ head' = None /\ writer' = Idle
  /\ signer' = NoSigner
  /\ UNCHANGED <<rows, cps, flush, scan, recorded, dropped>>

Exit == proc = "signing" /\ signer["final"].pc = "over" /\ Die /\ UNCHANGED <<clean, faults>>
Crash == Alive /\ Die /\ Fault

\* start: an empty queue, and the chain head is read before the first write.
Restart ==
  /\ proc = "stopped"
  /\ proc' = "serving" /\ flush' = "unsent" /\ clean' = TRUE
  /\ UNCHANGED <<rows, cps, mem, signer, scan, recorded, dropped, lost, faults>>

Next ==
  \/ \E e \in Events : Record(e) \/ Enqueue(e)
  \/ Writer
  \/ \E s \in Signers : SignHead(s) \/ SignLast(s) \/ SignCreate(s) \/ SignFails(s)
  \/ ScanRows \/ ScanCheckpoints
  \/ Shutdown \/ SendFlush \/ FlushTimeout \/ Drained \/ Exit \/ Crash \/ Restart

Spec == Init /\ [][Next]_vars

\* tokio runs a task that can run, and a task that waits for room in the
\* channel gets it in turn: Enqueue is enabled again and again while the
\* writer takes events and others fill the place.
FairSpec ==
  /\ Spec
  /\ WF_vars(Writer)
  /\ \A e \in Events : SF_vars(Enqueue(e))

----------------------------------------------------------------------------
(* Properties.                                                             *)

\* The table read as a log: the event under each number.
EventAt(n) == IF Taken(n) THEN (CHOOSE r \in rows : r.seq = n).event ELSE None
Log == INSTANCE AuditLog WITH log <- [n \in 1..Cardinality(rows) |-> EventAt(n)]

\* The log is an append-only sequence of recorded events, none of them twice,
\* over retries, lost answers, crashes and restarts.
ImplementsLog == Log!Spec

\* What the writer leaves in the table always passes the verification of the
\* chain: no number is skipped or taken twice and every hash fits, whatever
\* fails and wherever the process restarts (write_with_retry).
ChainIntact == ChainHolds(rows)

\* An event that was recorded is in the table, or on its way, or counted as
\* dropped, or it went away with its process: nothing disappears silently.
NoSilentLoss == recorded \subseteq Stored \cup InMemory \cup dropped \cup lost

\* A shutdown in which no statement failed, nothing overflowed and no task
\* recorded late ends with every event stored and the head of the chain signed.
CleanStop ==
  proc = "signing" /\ signer["final"].pc = "over" /\ clean =>
    /\ InMemory = {}
    /\ rows # {} => \E c \in cps : c.seq = MaxSeq(rows) /\ c.hash = Top(rows).hash

\* A verification never calls the chain of an honest writer broken, except
\* for a checkpoint that was issued after its rows had been read.
AlarmOnlyAhead ==
  /\ scan.answer # "chain"
  /\ scan.answer = "anchor" => \E c \in cps : c.seq > MaxSeq(scan.rows)

\* Every recorded event is sooner or later stored, counted as dropped or gone
\* with its process: the writer never stays with one event for ever.
EventsSettle == \A e \in Events : e \in recorded ~> e \in Stored \cup dropped \cup lost

\* Not kept: a verification of a table nobody tampered with gives no alarm.
NoFalseAlarm == scan.answer \notin {"chain", "anchor"}

\* Not kept: one failure of the database costs at most one event.  A row that
\* was stored and answered with an error keeps its number, the head does not
\* move, and every later event of this process is refused by the index.
HiccupCostsOne == faults <= 1 => Cardinality(dropped) <= 1

\* Not kept: a shutdown whose flush was answered loses no event.
FlushLosesNothing ==
  proc = "signing" /\ flush = "answered" /\ signer["final"].pc = "over" => InMemory = {}
=============================================================================

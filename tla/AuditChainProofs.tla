-------------------------- MODULE AuditChainProofs --------------------------
(***************************************************************************)
(* Proofs about AuditChain, for any events, capacity, number of attempts   *)
(* and number of faults: the chain in the table never breaks, no event     *)
(* disappears uncounted, the table implements AuditLog, a verification     *)
(* raises no alarm but for a checkpoint ahead of its rows, and a clean     *)
(* shutdown leaves everything stored and signed.                           *)
(***************************************************************************)
EXTENDS AuditChain, FiniteSetTheorems, TLAPS

\* The rows are numbered from one without a gap, and each holds on to the one
\* before.
RowsOK ==
  /\ IsFiniteSet(rows)
  /\ \A r \in rows : r.seq \in 1..Cardinality(rows) /\ r = Row(r.seq, r.prev, r.event)
  /\ \A n \in 1..Cardinality(rows) : Taken(n)
  /\ \A r, q \in rows : r.seq = q.seq => r = q
  /\ \A r \in rows : r.seq = 1 => r.prev = GenesisHash
  /\ \A r, q \in rows : r.seq = q.seq + 1 => r.prev = q.hash

\* A head from which a row can be linked: it is the last row, or, after a write
\* that was stored and answered with an error, the one before.
Fits(h) ==
  /\ h.seq \in 0..Cardinality(rows)
  /\ h.seq = 0 => h.hash = GenesisHash
  /\ \A r \in rows : r.seq = h.seq => r.hash = h.hash

WriterOK ==
  /\ writer.pc \in {"idle", "load", "write"}
  /\ writer.pc = "idle" => writer.event = None
  /\ writer.pc # "idle" => writer.event \in recorded
  /\ head # None \/ writer.pc = "write" => Fits(head)

QueueOK ==
  /\ queue \in Seq(Events \cup {Flush})
  /\ \A i, j \in 1..Len(queue) : queue[i] = queue[j] /\ queue[i] # Flush => i = j

\* An event is in one place only; only the writer may hold one that is stored
\* already, and then its number is taken.
OnePlace ==
  /\ recorded \subseteq Events /\ Stored \subseteq recorded
  /\ \A i \in 1..Len(queue) : queue[i] # Flush =>
       /\ queue[i] \in recorded /\ queue[i] \notin Stored
       /\ queue[i] \notin waiting /\ queue[i] # writer.event
  /\ \A e \in waiting : e \in recorded /\ e \notin Stored /\ e # writer.event
  /\ writer.event \in Stored => writer.pc = "write" /\ Taken(head.seq + 1)

ChainInv == RowsOK /\ WriterOK /\ QueueOK /\ OnePlace

----------------------------------------------------------------------------
(* Rows and queues.                                                        *)

LEMMA RowFields ==
  ASSUME NEW s, NEW p, NEW e
  PROVE  /\ Row(s, p, e).seq = s /\ Row(s, p, e).prev = p /\ Row(s, p, e).event = e
         /\ Row(s, p, e) = Row(Row(s, p, e).seq, Row(s, p, e).prev, Row(s, p, e).event)
  BY DEF Row

LEMMA AppendSeq ==
  ASSUME NEW S, NEW q \in Seq(S), NEW x \in S
  PROVE  /\ Append(q, x) \in Seq(S) /\ Len(Append(q, x)) = Len(q) + 1
         /\ \A i \in 1..Len(q) : Append(q, x)[i] = q[i]
         /\ Append(q, x)[Len(q) + 1] = x
  OBVIOUS

LEMMA TailSeq ==
  ASSUME NEW S, NEW q \in Seq(S), q # << >>
  PROVE  /\ Tail(q) \in Seq(S) /\ Len(Tail(q)) = Len(q) - 1
         /\ \A i \in 1..(Len(q) - 1) : Tail(q)[i] = q[i + 1]
         /\ Head(q) = q[1] /\ 1 \in 1..Len(q) /\ Len(q) \in Nat
  OBVIOUS

\* A row that is linked to a head that fits, and whose number is free, goes on
\* the end of the chain.
LEMMA LinkKeeps ==
  ASSUME RowsOK, Fits(head), ~Taken(Link.seq), rows' = rows \cup {Link}
  PROVE  /\ RowsOK' /\ Link.seq = Cardinality(rows) + 1
         /\ Cardinality(rows') = Cardinality(rows) + 1
         /\ Link.event = writer.event
  <1>1. /\ Link.seq = head.seq + 1 /\ Link.prev = head.hash /\ Link.event = writer.event
        /\ Link = Row(Link.seq, Link.prev, Link.event)
    BY RowFields DEF Link
  <1>2. Cardinality(rows) \in Nat
    BY FS_CardinalityType DEF RowsOK
  <1>3. head.seq = Cardinality(rows)
    BY <1>1, <1>2 DEF RowsOK, Fits
  <1>4. Link \notin rows
    BY DEF Taken
  <1>5. IsFiniteSet(rows') /\ Cardinality(rows') = Cardinality(rows) + 1
    BY <1>4, FS_AddElement DEF RowsOK
  <1>6. \A r \in rows' : /\ r.seq \in 1..Cardinality(rows')
                         /\ r = Row(r.seq, r.prev, r.event)
    BY <1>1, <1>2, <1>3, <1>5 DEF RowsOK
  <1>7. \A n \in 1..Cardinality(rows') : \E r \in rows' : r.seq = n
    BY <1>1, <1>2, <1>3, <1>5 DEF RowsOK, Taken
  <1>8. \A r, q \in rows' : r.seq = q.seq => r = q
    BY DEF RowsOK, Taken
  <1>9. \A r \in rows' : r.seq = 1 => r.prev = GenesisHash
    BY <1>1, <1>2, <1>3 DEF RowsOK, Fits
  <1>10. \A r, q \in rows' : r.seq = q.seq + 1 => r.prev = q.hash
    <2>1. \A q \in rows : q.seq \in Nat /\ q.seq <= Cardinality(rows)
      BY <1>2 DEF RowsOK
    <2> QED
      BY <1>1, <1>2, <1>3, <2>1 DEF RowsOK, Fits
  <1> QED
    BY <1>1, <1>3, <1>5, <1>6, <1>7, <1>8, <1>9, <1>10 DEF RowsOK, Taken

\* The greatest number, where there is one.
LEMMA MaxSeqIs ==
  ASSUME NEW rs, NEW n \in Nat, \A r \in rs : r.seq \in Nat /\ r.seq <= n,
         rs = {} => n = 0, rs # {} => \E r \in rs : r.seq = n
  PROVE  MaxSeq(rs) = n
  <1>1. CASE rs = {}
    BY <1>1 DEF MaxSeq
  <1>2. CASE rs # {}
    <2>1. n \in {r.seq : r \in rs}
      BY <1>2
    <2>2. \A m \in {r.seq : r \in rs} : (\A r \in rs : r.seq <= m) => m = n
      BY <2>1
    <2> QED
      BY <1>2, <2>1, <2>2 DEF MaxSeq
  <1> QED
    BY <1>1, <1>2

\* The last row bears the number of rows.
LEMMA TopIs ==
  ASSUME RowsOK
  PROVE  /\ Cardinality(rows) \in Nat /\ MaxSeq(rows) = Cardinality(rows)
         /\ \A r \in rows : r.seq \in Nat /\ 1 <= r.seq /\ r.seq <= Cardinality(rows)
         /\ rows # {} => Top(rows) \in rows /\ Top(rows).seq = Cardinality(rows)
  <1> DEFINE n == Cardinality(rows)
  <1>1. n \in Nat
    BY FS_CardinalityType DEF RowsOK
  <1>2. \A r \in rows : r.seq \in Nat /\ 1 <= r.seq /\ r.seq <= n
    BY <1>1 DEF RowsOK
  <1>3. rows = {} => n = 0
    BY FS_EmptySet
  <1>4. rows # {} => \E r \in rows : r.seq = n
    BY <1>1, <1>2 DEF RowsOK, Taken
  <1>5. MaxSeq(rows) = n
    BY <1>1, <1>2, <1>3, <1>4, MaxSeqIs
  <1> QED
    BY <1>1, <1>2, <1>4, <1>5 DEF Top

\* load_chain_head reads a head that fits.
LEMMA LoadFits ==
  ASSUME RowsOK
  PROVE  /\ rows = {} => Fits([seq |-> 0, hash |-> GenesisHash])
         /\ rows # {} => Fits([seq |-> MaxSeq(rows), hash |-> Top(rows).hash])
  <1>1. CASE rows = {}
    BY <1>1, TopIs DEF Fits
  <1>2. CASE rows # {}
    BY <1>2, TopIs DEF Fits, RowsOK
  <1> QED
    BY <1>1, <1>2

----------------------------------------------------------------------------
(* The steps.                                                              *)

LEMMA ChainInvInit == Init => ChainInv
  <1> SUFFICES ASSUME Init PROVE ChainInv
    OBVIOUS
  <1>1. rows = {} /\ queue = << >> /\ waiting = {} /\ head = None /\ writer = Idle
          /\ recorded = {} /\ Cardinality(rows) = 0 /\ IsFiniteSet(rows)
    BY FS_EmptySet DEF Init
  <1>2. writer.pc = "idle" /\ writer.event = None /\ None \notin Events
    BY <1>1, AuditAssumption DEF Idle
  <1>3. queue \in Seq(Events \cup {Flush}) /\ Len(queue) = 0
    BY <1>1
  <1> QED
    BY <1>1, <1>2, <1>3 DEF ChainInv, RowsOK, WriterOK, QueueOK, OnePlace, Stored

\* What leaves the table, the queue and the writer alone.
LEMMA Elsewhere ==
  ASSUME ChainInv, UNCHANGED <<rows, mem, recorded>>
  PROVE  ChainInv'
  BY DEF ChainInv, RowsOK, WriterOK, QueueOK, OnePlace, Stored, Taken, Fits, mem

\* record: an event that nobody has seen goes into the queue or into a task.
LEMMA RecordKeeps ==
  ASSUME ChainInv, NEW e \in Events, Record(e)
  PROVE  ChainInv'
  <1>1. /\ e \notin recorded /\ recorded' = recorded \cup {e}
        /\ UNCHANGED <<rows, head, writer>>
        /\ e # Flush /\ e # None
    BY AuditAssumption DEF Record
  <1>2. RowsOK' /\ WriterOK' /\ Stored' = Stored
    BY <1>1 DEF ChainInv, RowsOK, WriterOK, Fits, Taken, Stored
  <1>3. e # writer.event /\ e \notin waiting /\ e \notin Stored
    BY <1>1 DEF ChainInv, WriterOK, OnePlace
  <1>4. \A i \in 1..Len(queue) : queue[i] # e
    BY <1>1 DEF ChainInv, OnePlace
  <1>5. CASE queue' = Append(queue, e) /\ waiting' = waiting
    <2>1. /\ queue' \in Seq(Events \cup {Flush}) /\ Len(queue') = Len(queue) + 1
          /\ \A i \in 1..Len(queue) : queue'[i] = queue[i]
          /\ queue'[Len(queue) + 1] = e /\ Len(queue) \in Nat
      BY <1>5, AppendSeq DEF ChainInv, QueueOK
    <2>2. \A i \in 1..Len(queue') : i \in 1..Len(queue) \/ i = Len(queue) + 1
      BY <2>1
    <2>3. QueueOK'
      BY <1>4, <2>1, <2>2 DEF ChainInv, QueueOK
    <2>4. OnePlace'
      BY <1>1, <1>2, <1>3, <1>5, <2>1, <2>2 DEF ChainInv, OnePlace, Taken
    <2> QED
      BY <1>2, <2>3, <2>4 DEF ChainInv
  <1>6. CASE waiting' = waiting \cup {e} /\ queue' = queue
    <2>1. QueueOK'
      BY <1>6 DEF ChainInv, QueueOK
    <2>2. OnePlace'
      BY <1>1, <1>2, <1>3, <1>4, <1>6 DEF ChainInv, OnePlace, Taken
    <2> QED
      BY <1>2, <2>1, <2>2 DEF ChainInv
  <1> QED
    BY <1>5, <1>6 DEF Record

\* The spawned send moves its event from the task to the queue.
LEMMA EnqueueKeeps ==
  ASSUME ChainInv, NEW e \in Events, Enqueue(e)
  PROVE  ChainInv'
  <1>1. /\ e \in waiting /\ waiting' = waiting \ {e} /\ queue' = Append(queue, e)
        /\ UNCHANGED <<rows, head, writer, recorded>>
        /\ e # Flush
    BY AuditAssumption DEF Enqueue
  <1>2. RowsOK' /\ WriterOK' /\ Stored' = Stored
    BY <1>1 DEF ChainInv, RowsOK, WriterOK, Fits, Taken, Stored
  <1>3. /\ queue' \in Seq(Events \cup {Flush}) /\ Len(queue') = Len(queue) + 1
        /\ \A i \in 1..Len(queue) : queue'[i] = queue[i]
        /\ queue'[Len(queue) + 1] = e /\ Len(queue) \in Nat
    BY <1>1, AppendSeq DEF ChainInv, QueueOK
  <1>4. \A i \in 1..Len(queue') : i \in 1..Len(queue) \/ i = Len(queue) + 1
    BY <1>3
  <1>5. \A i \in 1..Len(queue) : queue[i] # e
    BY <1>1 DEF ChainInv, OnePlace
  <1>6. QueueOK'
    BY <1>3, <1>4, <1>5 DEF ChainInv, QueueOK
  <1>7. OnePlace'
    BY <1>1, <1>2, <1>3, <1>4 DEF ChainInv, OnePlace, Taken
  <1> QED
    BY <1>2, <1>6, <1>7 DEF ChainInv

\* flush: a message that is no event.
LEMMA FlushKeeps ==
  ASSUME ChainInv, SendFlush
  PROVE  ChainInv'
  <1>1. queue' = Append(queue, Flush) /\ UNCHANGED <<rows, head, writer, waiting, recorded>>
    BY DEF SendFlush
  <1>2. RowsOK' /\ WriterOK' /\ Stored' = Stored
    BY <1>1 DEF ChainInv, RowsOK, WriterOK, Fits, Taken, Stored
  <1>3. /\ queue' \in Seq(Events \cup {Flush}) /\ Len(queue') = Len(queue) + 1
        /\ \A i \in 1..Len(queue) : queue'[i] = queue[i]
        /\ queue'[Len(queue) + 1] = Flush /\ Len(queue) \in Nat
    BY <1>1, AppendSeq DEF ChainInv, QueueOK
  <1>4. \A i \in 1..Len(queue') : i \in 1..Len(queue) \/ i = Len(queue) + 1
    BY <1>3
  <1>5. QueueOK'
    BY <1>3, <1>4 DEF ChainInv, QueueOK
  <1>6. OnePlace'
    BY <1>1, <1>2, <1>3, <1>4 DEF ChainInv, OnePlace, Taken
  <1> QED
    BY <1>2, <1>5, <1>6 DEF ChainInv

\* rx.recv: the first message leaves the queue; an event is now the writer's.
LEMMA ReceiveKeeps ==
  ASSUME ChainInv, Receive
  PROVE  ChainInv'
  <1>1. /\ queue # << >> /\ queue' = Tail(queue) /\ writer.pc = "idle"
        /\ UNCHANGED <<rows, head, waiting, recorded>>
    BY DEF Receive
  <1>2. /\ queue' \in Seq(Events \cup {Flush}) /\ Len(queue') = Len(queue) - 1
        /\ \A i \in 1..(Len(queue) - 1) : queue'[i] = queue[i + 1]
        /\ Head(queue) = queue[1] /\ 1 \in 1..Len(queue) /\ Len(queue) \in Nat
    BY <1>1, TailSeq DEF ChainInv, QueueOK
  <1>3. \A i \in 1..Len(queue') : i + 1 \in 1..Len(queue) /\ i + 1 # 1
    BY <1>2
  <1>4. RowsOK' /\ Stored' = Stored
    BY <1>1 DEF ChainInv, RowsOK, Taken, Stored
  <1>5. QueueOK'
    BY <1>2, <1>3 DEF ChainInv, QueueOK
  <1>6. CASE queue[1] = Flush
    <2>1. writer' = writer
      BY <1>2, <1>6 DEF Receive
    <2>2. WriterOK'
      BY <1>1, <2>1 DEF ChainInv, WriterOK, Fits
    <2>3. OnePlace'
      BY <1>1, <1>2, <1>3, <1>4, <2>1 DEF ChainInv, OnePlace, Taken
    <2> QED
      BY <1>4, <1>5, <2>2, <2>3 DEF ChainInv
  <1>7. CASE queue[1] # Flush
    <2>1. /\ writer'.pc = (IF head = None THEN "load" ELSE "write")
          /\ writer'.event = queue[1]
      BY <1>2, <1>7 DEF Receive
    <2>2. queue[1] \in recorded /\ queue[1] \notin Stored /\ queue[1] \notin waiting
      BY <1>2, <1>7 DEF ChainInv, OnePlace
    <2>3. WriterOK'
      BY <1>1, <2>1, <2>2 DEF ChainInv, WriterOK, Fits
    <2>4. \A i \in 1..Len(queue') : queue'[i] # queue[1] /\ queue'[i] = queue[i + 1]
      BY <1>2, <1>3, <1>7 DEF ChainInv, QueueOK
    <2>5. OnePlace'
      BY <1>1, <1>3, <1>4, <2>1, <2>2, <2>4 DEF ChainInv, OnePlace, Taken
    <2> QED
      BY <1>4, <1>5, <2>3, <2>5 DEF ChainInv
  <1> QED
    BY <1>6, <1>7

\* The writer lets go of its event, or keeps it for another attempt, while the
\* table stays as it is.
LEMMA WriterKeeps ==
  ASSUME ChainInv, UNCHANGED <<rows, queue, waiting, recorded>>,
         \/ writer' = Idle /\ UNCHANGED head
         \/ writer.pc = "load" /\ writer'.pc = "write" /\ writer'.event = writer.event
              /\ Fits(head')
         \/ writer.pc = "write" /\ writer'.pc = "write" /\ writer'.event = writer.event
              /\ UNCHANGED head
  PROVE  ChainInv'
  <1>1. RowsOK' /\ QueueOK' /\ Stored' = Stored
    BY DEF ChainInv, RowsOK, QueueOK, Taken, Stored
  <1>2. Idle.pc = "idle" /\ Idle.event = None /\ None \notin Events
    BY AuditAssumption DEF Idle
  <1>3. WriterOK'
    BY <1>2 DEF ChainInv, WriterOK, Fits
  <1>4. queue \in Seq(Events \cup {Flush}) /\ Stored \subseteq Events /\ waiting \subseteq Events
    BY DEF ChainInv, QueueOK, OnePlace
  <1>5. OnePlace'
    BY <1>1, <1>2, <1>4 DEF ChainInv, OnePlace, Taken
  <1> QED
    BY <1>1, <1>3, <1>5 DEF ChainInv

LEMMA LoadKeeps ==
  ASSUME ChainInv, LoadHead
  PROVE  ChainInv'
  <1>1. CASE /\ head' = IF rows = {} THEN [seq |-> 0, hash |-> GenesisHash]
                        ELSE [seq |-> MaxSeq(rows), hash |-> Top(rows).hash]
             /\ writer' = [writer EXCEPT !.pc = "write"]
    <2>1. Fits(head')
      BY <1>1, LoadFits DEF ChainInv
    <2>2. writer.pc = "load" /\ UNCHANGED <<rows, queue, waiting, recorded>>
      BY DEF LoadHead
    <2>3. writer'.pc = "write" /\ writer'.event = writer.event
      BY <1>1
    <2> QED
      BY <2>1, <2>2, <2>3, WriterKeeps
  <1>2. CASE writer' = Idle /\ UNCHANGED head
    BY <1>2, WriterKeeps DEF LoadHead
  <1> QED
    BY <1>1, <1>2 DEF LoadHead, Drop

\* A row that is stored is the writer's event under the next number, whether
\* the writer is told so or not.
LEMMA StoreKeeps ==
  ASSUME ChainInv, writer.pc = "write", ~Taken(Link.seq), rows' = rows \cup {Link},
         UNCHANGED <<queue, waiting, recorded>>,
         \/ writer' = Idle /\ head' \in {head, [seq |-> Link.seq, hash |-> Link.hash]}
         \/ writer'.pc = "write" /\ writer'.event = writer.event /\ UNCHANGED head
  PROVE  ChainInv'
  <1>1. Fits(head)
    BY DEF ChainInv, WriterOK
  <1>2. /\ RowsOK' /\ Link.seq = Cardinality(rows) + 1
        /\ Cardinality(rows') = Cardinality(rows) + 1
        /\ Link.event = writer.event
    BY <1>1, LinkKeeps DEF ChainInv
  <1>3. Link.seq = head.seq + 1 /\ Cardinality(rows) \in Nat /\ head.seq \in Nat
    BY <1>1, RowFields, FS_CardinalityType DEF Link, ChainInv, RowsOK, Fits
  <1>4. Stored' = Stored \cup {writer.event}
    BY <1>2 DEF Stored
  <1>5. Taken(head.seq + 1)'\/ head' # head
    BY <1>3 DEF Taken
  <1>6. Fits(head)'
    <2>1. CASE head' = head
      BY <1>1, <1>2, <1>3, <2>1 DEF Fits
    <2>2. CASE head' = [seq |-> Link.seq, hash |-> Link.hash]
      <3>1. head'.seq = Link.seq /\ head'.hash = Link.hash
        BY <2>2
      <3>2. \A r \in rows' : r.seq = Link.seq => r.hash = Link.hash
        BY DEF Taken
      <3> QED
        BY <1>2, <1>3, <3>1, <3>2 DEF Fits
    <2> QED
      BY <2>1, <2>2
  <1>7. Idle.pc = "idle" /\ Idle.event = None /\ None \notin Events
    BY AuditAssumption DEF Idle
  <1>8. WriterOK'
    BY <1>6, <1>7 DEF ChainInv, WriterOK
  <1>9. QueueOK'
    BY DEF ChainInv, QueueOK
  <1>10. queue \in Seq(Events \cup {Flush}) /\ Stored \subseteq Events /\ waiting \subseteq Events
          /\ writer.event \in recorded /\ recorded \subseteq Events
    BY DEF ChainInv, QueueOK, OnePlace, WriterOK
  <1>11. OnePlace'
    BY <1>4, <1>5, <1>7, <1>10 DEF ChainInv, OnePlace
  <1> QED
    BY <1>2, <1>8, <1>9, <1>11 DEF ChainInv

\* The process dies: nothing is in its memory any more.
LEMMA DieKeeps ==
  ASSUME ChainInv, Die, UNCHANGED recorded
  PROVE  ChainInv'
  <1>1. /\ queue' = << >> /\ waiting' = {} /\ head' = None /\ writer' = Idle
        /\ UNCHANGED rows
    BY DEF Die
  <1>2. writer'.pc = "idle" /\ writer'.event = None /\ None \notin Events
    BY <1>1, AuditAssumption DEF Idle
  <1>3. queue' \in Seq(Events \cup {Flush}) /\ Len(queue') = 0
    BY <1>1
  <1> QED
    BY <1>1, <1>2, <1>3 DEF ChainInv, RowsOK, WriterOK, QueueOK, OnePlace, Stored, Taken

LEMMA ChainInvStep == ChainInv /\ [Next]_vars => ChainInv'
  <1> SUFFICES ASSUME ChainInv, [Next]_vars PROVE ChainInv'
    OBVIOUS
  <1>1. CASE UNCHANGED vars
    BY <1>1, Elsewhere DEF vars
  <1>2. ASSUME NEW e \in Events, Record(e) \/ Enqueue(e) PROVE ChainInv'
    BY <1>2, RecordKeeps, EnqueueKeeps
  <1>3. CASE Writer
    <2>1. CASE StoreRow
      BY <2>1, StoreKeeps DEF StoreRow
    <2>2. CASE WriteFails
      <3>1. /\ writer.pc = "write" /\ UNCHANGED <<queue, waiting, recorded, head>>
            /\ \/ writer' = Idle
               \/ writer'.pc = "write" /\ writer'.event = writer.event
        <4>1. AfterError /\ writer.pc = "write" /\ UNCHANGED <<queue, waiting, recorded>>
          BY <2>2 DEF WriteFails
        <4>2. CASE writer' = [writer EXCEPT !.attempt = @ + 1] /\ UNCHANGED head
          BY <4>1, <4>2
        <4>3. CASE writer' = Idle /\ UNCHANGED head
          BY <4>1, <4>3
        <4> QED
          BY <4>1, <4>2, <4>3 DEF AfterError, Drop
      <3>2. CASE UNCHANGED rows
        BY <3>1, <3>2, WriterKeeps
      <3>3. CASE ~Taken(Link.seq) /\ rows' = rows \cup {Link}
        BY <3>1, <3>3, StoreKeeps
      <3> QED
        BY <2>2, <3>2, <3>3 DEF WriteFails
    <2> QED
      BY <1>3, <2>1, <2>2, ReceiveKeeps, LoadKeeps DEF Writer
  <1>4. ASSUME NEW s \in Signers, SignHead(s) \/ SignLast(s) \/ SignCreate(s) \/ SignFails(s)
        PROVE ChainInv'
    BY <1>4, Elsewhere DEF SignHead, SignLast, SignCreate, SignFails, signUnchanged
  <1>5. CASE ScanRows \/ ScanCheckpoints \/ Shutdown \/ FlushTimeout \/ Drained \/ Restart
    BY <1>5, Elsewhere DEF ScanRows, ScanCheckpoints, Shutdown, FlushTimeout, Drained, Restart
  <1>6. CASE SendFlush \/ Exit \/ Crash
    BY <1>6, FlushKeeps, DieKeeps DEF Exit, Crash, Die
  <1> QED
    BY <1>1, <1>2, <1>3, <1>4, <1>5, <1>6 DEF Next

LEMMA ChainInvHolds == Spec => []ChainInv
  BY ChainInvInit, ChainInvStep, PTL DEF Spec

\* The chain passes the verification.
LEMMA ChainPasses == ASSUME ChainInv PROVE ChainHolds(rows)
  <1> SUFFICES ASSUME NEW r \in rows
               PROVE  /\ r.seq \in 1..Cardinality(rows)
                      /\ r = Row(r.seq, r.prev, r.event)
                      /\ r.prev = IF r.seq = 1 THEN GenesisHash
                                  ELSE (CHOOSE q \in rows : q.seq = r.seq - 1).hash
    BY DEF ChainHolds
  <1>1. r.seq \in 1..Cardinality(rows) /\ r = Row(r.seq, r.prev, r.event)
    BY DEF ChainInv, RowsOK
  <1>2. CASE r.seq = 1
    BY <1>1, <1>2 DEF ChainInv, RowsOK
  <1>3. CASE r.seq # 1
    <2>1. Cardinality(rows) \in Nat
      BY FS_CardinalityType DEF ChainInv, RowsOK
    <2>2. r.seq - 1 \in 1..Cardinality(rows) /\ r.seq = (r.seq - 1) + 1
      BY <1>1, <1>3, <2>1
    <2>3. PICK q \in rows : q.seq = r.seq - 1
      BY <2>2 DEF ChainInv, RowsOK, Taken
    <2>4. q = CHOOSE x \in rows : x.seq = r.seq - 1
      BY <2>3 DEF ChainInv, RowsOK
    <2>5. r.prev = q.hash
      BY <2>2, <2>3 DEF ChainInv, RowsOK
    <2> QED
      BY <1>1, <1>3, <2>4, <2>5
  <1> QED
    BY <1>1, <1>2, <1>3

\* write_with_retry: whatever fails and wherever the process restarts, the chain
\* passes the verification.
THEOREM ChainIntactHolds == Spec => []ChainIntact
  <1>1. ChainInv => ChainIntact
    BY ChainPasses DEF ChainIntact
  <1> QED
    BY <1>1, ChainInvHolds, PTL

----------------------------------------------------------------------------
(* Nothing disappears.                                                     *)

\* What is in the queue, place by place.
LEMMA InMemoryIs ==
  ASSUME QueueOK, NEW e \in Events
  PROVE  e \in InMemory <=> \/ \E i \in 1..Len(queue) : queue[i] = e
                            \/ e \in waiting \/ e = writer.event
  BY DEF QueueOK, InMemory

\* Every event a step touches has a place after it.
LEMMA LossStep ==
  ASSUME ChainInv, ChainInv', NoSilentLoss, [Next]_vars
  PROVE  NoSilentLoss'
  <1>1. QueueOK /\ QueueOK' /\ recorded \subseteq Events /\ recorded' \subseteq Events
    BY DEF ChainInv, OnePlace
  <1> DEFINE Held(e) == \/ \E i \in 1..Len(queue) : queue[i] = e
                        \/ e \in waiting \/ e = writer.event
             Safe(e) == e \in Stored \/ Held(e) \/ e \in dropped \/ e \in lost
  <1>2. \A e \in recorded : Safe(e)
    BY <1>1, InMemoryIs DEF NoSilentLoss
  <1>3. SUFFICES \A e \in recorded' : Safe(e)'
    <2>1. \A e \in recorded' : e \in InMemory' <=> Held(e)'
      <3>1. \A e \in Events : e \in InMemory' <=> Held(e)'
        BY <1>1 DEF QueueOK, InMemory
      <3> QED
        BY <1>1, <3>1
    <2> QED
      BY <2>1 DEF NoSilentLoss
  <1>4. Len(queue) \in Nat /\ \A e : e \in Stored <=> \E r \in rows : r.event = e
    BY <1>1 DEF QueueOK, Stored
  <1>5. CASE UNCHANGED <<rows, mem, recorded, dropped, lost>>
    BY <1>2, <1>5 DEF Stored, mem
  <1>6. ASSUME NEW x \in Events, Record(x) PROVE \A e \in recorded' : Safe(e)'
    <2>1. recorded' = recorded \cup {x} /\ UNCHANGED <<rows, writer, dropped, lost>>
      BY <1>6 DEF Record
    <2>2. CASE queue' = Append(queue, x) /\ waiting' = waiting
      <3>1. /\ Len(queue') = Len(queue) + 1 /\ queue'[Len(queue) + 1] = x
            /\ \A i \in 1..Len(queue) : queue'[i] = queue[i] /\ i \in 1..Len(queue')
            /\ Len(queue) + 1 \in 1..Len(queue')
        BY <1>1, <1>4, <2>2, AppendSeq DEF QueueOK
      <3> QED
        BY <1>2, <2>1, <2>2, <3>1 DEF Stored
    <2>3. CASE waiting' = waiting \cup {x} /\ queue' = queue
      BY <1>2, <2>1, <2>3 DEF Stored
    <2> QED
      BY <1>6, <2>2, <2>3 DEF Record
  <1>7. ASSUME NEW x \in Events, Enqueue(x) PROVE \A e \in recorded' : Safe(e)'
    <2>1. /\ queue' = Append(queue, x) /\ waiting' = waiting \ {x}
          /\ UNCHANGED <<recorded, rows, writer, dropped, lost>>
      BY <1>7 DEF Enqueue
    <2>2. /\ Len(queue') = Len(queue) + 1 /\ queue'[Len(queue) + 1] = x
          /\ \A i \in 1..Len(queue) : queue'[i] = queue[i] /\ i \in 1..Len(queue')
          /\ Len(queue) + 1 \in 1..Len(queue')
      BY <1>1, <1>4, <2>1, AppendSeq DEF QueueOK
    <2> QED
      BY <1>2, <2>1, <2>2 DEF Stored
  <1>8. CASE SendFlush
    <2>1. /\ queue' = Append(queue, Flush)
          /\ UNCHANGED <<recorded, rows, waiting, writer, dropped, lost>>
      BY <1>8 DEF SendFlush
    <2>2. \A i \in 1..Len(queue) : queue'[i] = queue[i] /\ i \in 1..Len(queue')
      BY <1>1, <1>4, <2>1, AppendSeq DEF QueueOK
    <2> QED
      BY <1>2, <2>1, <2>2 DEF Stored
  <1>9. CASE Receive
    <2>1. /\ queue # << >> /\ queue' = Tail(queue) /\ writer.pc = "idle" /\ writer.event = None
          /\ UNCHANGED <<recorded, rows, waiting, dropped, lost>>
          /\ queue[1] # Flush => writer'.event = queue[1]
      BY <1>9, <1>1, TailSeq DEF Receive, ChainInv, WriterOK, QueueOK
    <2>2. /\ Len(queue') = Len(queue) - 1
          /\ \A i \in 1..(Len(queue) - 1) : queue'[i] = queue[i + 1]
      BY <1>1, <2>1, TailSeq DEF QueueOK
    <2>3. \A i \in 1..Len(queue) : i = 1 \/ (i - 1 \in 1..Len(queue') /\ queue'[i - 1] = queue[i])
      BY <1>4, <2>2
    <2>4. ASSUME NEW e \in recorded' PROVE Safe(e)'
      <3>1. e \in recorded /\ e \in Events /\ e # None /\ e # Flush
        BY <1>1, <2>1, AuditAssumption
      <3>2. CASE \E i \in 1..Len(queue) : queue[i] = e
        BY <2>1, <2>3, <3>1, <3>2
      <3>3. CASE ~\E i \in 1..Len(queue) : queue[i] = e
        BY <1>2, <2>1, <3>1, <3>3 DEF Stored
      <3> QED
        BY <3>2, <3>3
    <2> QED
      BY <2>4
  <1>10. CASE LoadHead \/ StoreRow \/ WriteFails
    <2>1. /\ UNCHANGED <<recorded, queue, waiting, lost>>
          /\ dropped \subseteq dropped' /\ rows \subseteq rows'
      BY <1>10 DEF LoadHead, StoreRow, WriteFails, AfterError, Drop
    <2>2. writer'.event = writer.event \/ writer.event \in dropped' \/ writer.event \in Stored'
      <3>1. CASE LoadHead
        <4>1. writer' = [writer EXCEPT !.pc = "write"] \/ Drop
          BY <3>1 DEF LoadHead
        <4>2. CASE writer' = [writer EXCEPT !.pc = "write"]
          BY <4>2, <1>1 DEF WriterOK
        <4>3. CASE Drop
          BY <4>3 DEF Drop
        <4> QED
          BY <4>1, <4>2, <4>3
      <3>2. CASE StoreRow
        <4>1. Link \in rows' /\ Link.event = writer.event
          BY <3>2, RowFields DEF StoreRow, Link
        <4> QED
          BY <4>1 DEF Stored
      <3>3. CASE WriteFails
        <4>1. writer' = [writer EXCEPT !.attempt = @ + 1] \/ Drop
          BY <3>3 DEF WriteFails, AfterError
        <4>2. CASE writer' = [writer EXCEPT !.attempt = @ + 1]
          BY <4>2, <1>1 DEF WriterOK
        <4>3. CASE Drop
          BY <4>3 DEF Drop
        <4> QED
          BY <4>1, <4>2, <4>3
      <3> QED
        BY <1>10, <3>1, <3>2, <3>3
    <2>3. Stored \subseteq Stored'
      BY <2>1 DEF Stored
    <2> QED
      BY <1>2, <2>1, <2>2, <2>3
  <1>11. CASE Exit \/ Crash
    <2>1. UNCHANGED <<recorded, rows, dropped>> /\ lost' = lost \cup InMemory
      BY <1>11 DEF Exit, Crash, Die
    <2> QED
      BY <1>1, <1>2, <2>1, InMemoryIs DEF Stored
  <1>12. \/ UNCHANGED <<rows, mem, recorded, dropped, lost>>
         \/ \E e \in Events : Record(e) \/ Enqueue(e)
         \/ Receive \/ LoadHead \/ StoreRow \/ WriteFails
         \/ SendFlush \/ Exit \/ Crash
    BY DEF Next, vars, Writer, SignHead, SignLast, SignCreate, SignFails, signUnchanged,
           ScanRows, ScanCheckpoints, Shutdown, FlushTimeout, Drained, Restart
  <1> QED
    BY <1>5, <1>6, <1>7, <1>8, <1>9, <1>10, <1>11, <1>12

\* A recorded event is in the table, on its way, counted as dropped, or gone with
\* its process.
THEOREM NoSilentLossHolds == Spec => []NoSilentLoss
  <1>1. Init => NoSilentLoss
    BY DEF Init, NoSilentLoss
  <1>2. ChainInv /\ ChainInv' /\ NoSilentLoss /\ [Next]_vars => NoSilentLoss'
    BY LossStep
  <1> QED
    BY <1>1, <1>2, ChainInvHolds, PTL DEF Spec

----------------------------------------------------------------------------
(* The refinement.                                                         *)

theLog == [n \in 1..Cardinality(rows) |-> EventAt(n)]

\* The event under a number is that of the one row that has it.
LEMMA EventOfRow ==
  ASSUME RowsOK, NEW r \in rows
  PROVE  EventAt(r.seq) = r.event
  <1>1. Taken(r.seq)
    BY DEF Taken
  <1>2. r = CHOOSE x \in rows : x.seq = r.seq
    BY DEF RowsOK
  <1> QED
    BY <1>1, <1>2 DEF EventAt

LEMMA LogEntries ==
  ASSUME ChainInv
  PROVE  Log!Entries = Stored
  <1>1. Log!Entries = {EventAt(n) : n \in 1..Cardinality(rows)}
    BY DEF Log!Entries
  <1>2. \A n \in 1..Cardinality(rows) : \E r \in rows : r.seq = n /\ EventAt(n) = r.event
    BY EventOfRow DEF ChainInv, RowsOK, Taken
  <1>3. \A r \in rows : r.seq \in 1..Cardinality(rows) /\ EventAt(r.seq) = r.event
    BY EventOfRow DEF ChainInv, RowsOK
  <1> QED
    BY <1>1, <1>2, <1>3 DEF Stored

\* A row that is stored is an entry at the end of the abstract log.
LEMMA StoreAppends ==
  ASSUME ChainInv, ChainInv', writer.pc = "write", ~Taken(Link.seq),
         rows' = rows \cup {Link}, UNCHANGED recorded
  PROVE  Log!Append1(writer.event)
  <1>1. PICK m \in Nat : /\ m = Cardinality(rows) /\ Cardinality(rows') = m + 1
                         /\ Link.seq = m + 1 /\ Link.event = writer.event
    BY LinkKeeps, FS_CardinalityType DEF ChainInv, WriterOK, RowsOK
  <1>2. writer.event \in recorded /\ writer.event \notin Stored
    <2>1. Link.seq = head.seq + 1
      BY RowFields DEF Link
    <2> QED
      BY <2>1 DEF ChainInv, WriterOK, OnePlace
  <1>3. ASSUME NEW n \in 1..m PROVE EventAt(n)' = EventAt(n)
    <2>1. PICK r \in rows : r.seq = n
      BY <1>1 DEF ChainInv, RowsOK, Taken
    <2>2. EventAt(n) = r.event
      BY <2>1, EventOfRow DEF ChainInv
    <2>3. Taken(n)'
      BY <2>1 DEF Taken
    <2>4. r = CHOOSE x \in rows' : x.seq = n
      BY <2>1 DEF ChainInv, RowsOK
    <2> QED
      BY <2>2, <2>3, <2>4 DEF EventAt
  <1>4. EventAt(m + 1)' = writer.event
    <2>1. PICK r \in rows' : r.seq = m + 1 /\ r.event = writer.event
      BY <1>1
    <2>2. Taken(m + 1)'
      BY <2>1 DEF Taken
    <2>3. r = CHOOSE x \in rows' : x.seq = m + 1
      BY <2>1 DEF ChainInv, RowsOK
    <2> QED
      BY <2>1, <2>2, <2>3 DEF EventAt
  <1>5. theLog' = Append(theLog, writer.event)
    <2>1. theLog' = [n \in 1..(m + 1) |-> EventAt(n)']
      BY <1>1 DEF theLog
    <2>2. theLog = [n \in 1..m |-> EventAt(n)]
      BY <1>1 DEF theLog
    <2>3. Append(theLog, writer.event) =
            [n \in 1..(m + 1) |-> IF n = m + 1 THEN writer.event ELSE theLog[n]]
      <3>1. Len(theLog) = m
        BY <2>2
      <3> QED
        BY <2>2, <3>1
    <2>4. \A n \in 1..(m + 1) : n = m + 1 \/ n \in 1..m
      OBVIOUS
    <2> QED
      BY <1>3, <1>4, <2>1, <2>2, <2>3, <2>4
  <1> QED
    BY <1>2, <1>5, LogEntries DEF Log!Append1, theLog

\* A step that leaves the table and the recorded events alone is a stutter.
LEMMA Stutters ==
  ASSUME UNCHANGED <<rows, recorded>>
  PROVE  UNCHANGED Log!logVars
  BY DEF Log!logVars, EventAt, Taken

LEMMA StepRefines == ChainInv /\ ChainInv' /\ [Next]_vars => [Log!Next]_(Log!logVars)
  <1> SUFFICES ASSUME ChainInv, ChainInv', [Next]_vars
               PROVE  Log!Next \/ UNCHANGED Log!logVars
    OBVIOUS
  <1>1. CASE UNCHANGED <<rows, recorded>>
    BY <1>1, Stutters
  <1>2. ASSUME NEW e \in Events, Record(e) PROVE Log!Next
    <2>1. rows' = rows /\ e \notin recorded /\ recorded' = recorded \cup {e}
      BY <1>2 DEF Record
    <2>2. theLog' = theLog
      BY <2>1 DEF theLog, EventAt, Taken
    <2> QED
      BY <2>1, <2>2 DEF Log!Next, Log!Record, theLog
  <1>3. CASE writer.pc = "write" /\ ~Taken(Link.seq) /\ rows' = rows \cup {Link}
               /\ UNCHANGED recorded
    <2>1. writer.event \in Events
      BY <1>3 DEF ChainInv, WriterOK, OnePlace
    <2> QED
      BY <1>3, <2>1, StoreAppends DEF Log!Next
  <1>4. \/ UNCHANGED <<rows, recorded>>
        \/ \E e \in Events : Record(e)
        \/ writer.pc = "write" /\ ~Taken(Link.seq) /\ rows' = rows \cup {Link}
             /\ UNCHANGED recorded
    BY DEF Next, vars, Enqueue, Writer, Receive, LoadHead, StoreRow, WriteFails, SignHead,
           SignLast, SignCreate, SignFails, signUnchanged, ScanRows, ScanCheckpoints,
           Shutdown, SendFlush, FlushTimeout, Drained, Die, Exit, Crash, Restart
  <1> QED
    BY <1>1, <1>2, <1>3, <1>4

\* The table is an append-only log of recorded events, none of them twice, over
\* retries, lost answers, crashes and restarts.
THEOREM ImplementsLogHolds == Spec => ImplementsLog
  <1>1. Init => Log!Init
    BY FS_EmptySet DEF Init, Log!Init
  <1>2. ChainInv /\ ChainInv' /\ [Next]_vars => [Log!Next]_(Log!logVars)
    BY StepRefines
  <1> QED
    BY <1>1, <1>2, ChainInvHolds, PTL DEF Spec, ImplementsLog, Log!Spec

----------------------------------------------------------------------------
(* Checkpoints and verification.                                           *)

\* A number and a hash that some row has.
Anchored(c) == \E r \in rows : r.seq = c.seq /\ r.hash = c.hash

\* Every checkpoint, issued or being issued, is anchored in a row, and one of
\* those that are issued is the last.
CheckpointsOK ==
  /\ signer = [s \in Signers |->
       [pc |-> signer[s].pc, seq |-> signer[s].seq, hash |-> signer[s].hash]]
  /\ \A c \in cps : Anchored(c)
  /\ cps # {} => \E c \in cps : \A d \in cps : d.seq <= c.seq
  /\ \A s \in Signers : signer[s].pc \in {"last", "create"} => Anchored(signer[s])

\* A verification holds the chain as it was when it read the rows.
ScanOK ==
  /\ scan = [pc |-> scan.pc, rows |-> scan.rows, answer |-> scan.answer]
  /\ ChainHolds(scan.rows)
  /\ \E n \in 0..Cardinality(rows) : scan.rows = {r \in rows : r.seq <= n}
  /\ AlarmOnlyAhead

\* Rows are added at the end, or the table stays as it is.
LEMMA RowsGrow ==
  ASSUME ChainInv, [Next]_vars
  PROVE  \/ UNCHANGED rows
         \/ /\ rows' = rows \cup {Link} /\ Link.seq = Cardinality(rows) + 1
            /\ Cardinality(rows') = Cardinality(rows) + 1
            /\ writer.pc = "write"
            /\ UNCHANGED <<cps, signer, scan, proc, flush, queue, waiting>>
  <1>1. \/ UNCHANGED rows
        \/ /\ writer.pc = "write" /\ ~Taken(Link.seq) /\ rows' = rows \cup {Link}
           /\ UNCHANGED <<cps, signer, scan, proc, flush, queue, waiting>>
    BY DEF Next, vars, mem, Record, Enqueue, Writer, Receive, LoadHead, StoreRow, WriteFails,
           SignHead, SignLast, SignCreate, SignFails, signUnchanged, ScanRows, ScanCheckpoints,
           Shutdown, SendFlush, FlushTimeout, Drained, Die, Exit, Crash, Restart
  <1> QED
    BY <1>1, LinkKeeps DEF ChainInv, WriterOK

LEMMA StaysAnchored ==
  ASSUME ChainInv, [Next]_vars, NEW c, Anchored(c)
  PROVE  \E r \in rows' : r.seq = c.seq /\ r.hash = c.hash
  BY RowsGrow DEF Anchored

LEMMA AnchoredNat ==
  ASSUME ChainInv, NEW c, Anchored(c)
  PROVE  c.seq \in Nat /\ c.seq <= Cardinality(rows) /\ Cardinality(rows) \in Nat
  BY TopIs DEF Anchored, ChainInv

\* What a step of a signer does to it: it is done with, or it has read the last
\* row, or it has found that no checkpoint is as far.
LEMMA SignerIs ==
  ASSUME CheckpointsOK, NEW s \in Signers,
         SignHead(s) \/ SignLast(s) \/ SignCreate(s) \/ SignFails(s)
  PROVE  /\ \A t \in Signers : t # s => signer'[t] = signer[t]
         /\ signer' = [t \in Signers |->
              [pc |-> signer'[t].pc, seq |-> signer'[t].seq, hash |-> signer'[t].hash]]
         /\ \/ signer'[s].pc = IF s = "final" THEN "over" ELSE "idle"
            \/ /\ SignHead(s) /\ rows # {} /\ signer'[s].pc = "last"
               /\ signer'[s].seq = MaxSeq(rows) /\ signer'[s].hash = Top(rows).hash
            \/ /\ SignLast(s) /\ signer'[s].pc = "create"
               /\ signer'[s].seq = signer[s].seq /\ signer'[s].hash = signer[s].hash
  <1>1. signer = [t \in Signers |->
          [pc |-> signer[t].pc, seq |-> signer[t].seq, hash |-> signer[t].hash]]
    BY DEF CheckpointsOK
  <1>2. CASE signer' = Over(s)
    BY <1>1, <1>2 DEF Over
  <1>3. CASE /\ SignHead(s) /\ rows # {}
             /\ signer' = [signer EXCEPT ![s] =
                  [pc |-> "last", seq |-> MaxSeq(rows), hash |-> Top(rows).hash]]
    BY <1>1, <1>3
  <1>4. CASE SignLast(s) /\ signer' = [signer EXCEPT ![s].pc = "create"]
    BY <1>1, <1>4
  <1> QED
    BY <1>2, <1>3, <1>4 DEF SignHead, SignLast, SignCreate, SignFails

\* Who touches the checkpoints and the signers.
LEMMA SignIs ==
  ASSUME [Next]_vars
  PROVE  \/ UNCHANGED <<cps, signer>>
         \/ /\ \E s \in Signers : SignHead(s) \/ SignLast(s) \/ SignCreate(s) \/ SignFails(s)
            /\ UNCHANGED <<rows, scan, proc, flush, queue, waiting, writer>>
         \/ UNCHANGED <<cps, rows, scan, flush>> /\ Die
  BY DEF Next, vars, mem, Record, Enqueue, Writer, Receive, LoadHead, StoreRow, WriteFails,
         SignHead, SignLast, SignCreate, SignFails, signUnchanged, ScanRows, ScanCheckpoints,
         Shutdown, SendFlush, FlushTimeout, Drained, Die, Exit, Crash, Restart

LEMMA CheckpointsStep ==
  ASSUME ChainInv, CheckpointsOK, [Next]_vars
  PROVE  CheckpointsOK'
  <1>1. \A c : Anchored(c) => \E r \in rows' : r.seq = c.seq /\ r.hash = c.hash
    BY StaysAnchored
  <1>2. CASE UNCHANGED <<cps, signer>>
    BY <1>1, <1>2 DEF CheckpointsOK, Anchored
  <1>3. CASE Die /\ UNCHANGED <<cps, rows>>
    BY <1>3 DEF CheckpointsOK, Anchored, Die, NoSigner
  <1>4. ASSUME NEW s \in Signers, UNCHANGED rows,
               SignHead(s) \/ SignLast(s) \/ SignCreate(s) \/ SignFails(s)
        PROVE  CheckpointsOK'
    <2>1. signer' = [t \in Signers |->
            [pc |-> signer'[t].pc, seq |-> signer'[t].seq, hash |-> signer'[t].hash]]
      BY <1>4, SignerIs
    <2>2. ASSUME NEW t \in Signers, signer'[t].pc \in {"last", "create"}
          PROVE  \E r \in rows : r.seq = signer'[t].seq /\ r.hash = signer'[t].hash
      <3>1. CASE t # s
        <4>1. signer'[t] = signer[t]
          BY <1>4, <3>1, SignerIs
        <4> QED
          BY <2>2, <4>1 DEF CheckpointsOK, Anchored
      <3>2. CASE t = s /\ rows # {} /\ signer'[s].seq = MaxSeq(rows)
                   /\ signer'[s].hash = Top(rows).hash
        BY <3>2, TopIs DEF ChainInv
      <3>3. CASE t = s /\ SignLast(s) /\ signer'[s].seq = signer[s].seq
                   /\ signer'[s].hash = signer[s].hash
        BY <3>3 DEF SignLast, CheckpointsOK, Anchored
      <3> QED
        BY <1>4, <2>2, <3>1, <3>2, <3>3, SignerIs
    <2>3. CASE UNCHANGED cps
      BY <1>4, <2>1, <2>2, <2>3 DEF CheckpointsOK, Anchored
    <2>4. ASSUME NEW n, n = [seq |-> signer[s].seq, hash |-> signer[s].hash],
                 signer[s].pc = "create", cps' = cps \cup {n}
          PROVE  CheckpointsOK'
      <3>1. Anchored(n)
        BY <2>4 DEF CheckpointsOK, Anchored
      <3>2. \A c \in cps' : Anchored(c) /\ c.seq \in Nat
        BY <2>4, <3>1, AnchoredNat DEF CheckpointsOK
      <3>3. \E c \in cps' : \A d \in cps' : d.seq <= c.seq
        <4>1. CASE cps = {}
          BY <2>4, <3>2, <4>1
        <4>2. CASE cps # {}
          <5>1. PICK c \in cps : \A d \in cps : d.seq <= c.seq
            BY <4>2 DEF CheckpointsOK
          <5>2. CASE n.seq <= c.seq
            BY <2>4, <5>1, <5>2
          <5>3. CASE ~(n.seq <= c.seq)
            <6>1. \A d \in cps' : d.seq <= n.seq
              BY <2>4, <3>2, <5>1, <5>3
            <6> QED
              BY <2>4, <6>1
          <5> QED
            BY <5>2, <5>3
        <4> QED
          BY <4>1, <4>2
      <3> QED
        BY <1>4, <2>1, <2>2, <3>2, <3>3 DEF CheckpointsOK, Anchored
    <2> QED
      BY <1>4, <2>3, <2>4 DEF SignHead, SignLast, SignCreate, SignFails
  <1> QED
    BY <1>2, <1>3, <1>4, SignIs

LEMMA ScanStep ==
  ASSUME ChainInv, CheckpointsOK, ScanOK, [Next]_vars
  PROVE  ScanOK'
  <1>1. CASE UNCHANGED scan
    <2>1. PICK n \in 0..Cardinality(rows) : scan.rows = {r \in rows : r.seq <= n}
      BY DEF ScanOK
    <2>2. Cardinality(rows) \in Nat /\ \A r \in rows : r.seq \in Nat
      BY TopIs DEF ChainInv
    <2>3. n \in 0..Cardinality(rows') /\ scan.rows = {r \in rows' : r.seq <= n}
      <3>1. CASE UNCHANGED rows
        BY <2>1, <3>1
      <3>2. CASE /\ rows' = rows \cup {Link} /\ Link.seq = Cardinality(rows) + 1
                 /\ Cardinality(rows') = Cardinality(rows) + 1
        <4>1. ~(Link.seq <= n) /\ n \in 0..Cardinality(rows')
          BY <2>2, <3>2
        <4> QED
          BY <2>1, <3>2, <4>1
      <3> QED
        BY <3>1, <3>2, RowsGrow
    <2>4. cps \subseteq cps'
      BY SignIs DEF SignHead, SignLast, SignCreate, SignFails
    <2> QED
      BY <1>1, <2>3, <2>4 DEF ScanOK, AlarmOnlyAhead, ChainHolds
  <1>2. CASE ScanRows
    <2>1. scan' = [pc |-> "scanned", rows |-> rows, answer |-> "none"] /\ UNCHANGED rows
      BY <1>2 DEF ScanRows
    <2>2. Cardinality(rows) \in 0..Cardinality(rows)
            /\ rows = {r \in rows : r.seq <= Cardinality(rows)}
      BY TopIs DEF ChainInv
    <2>3. ChainHolds(rows)
      BY ChainPasses
    <2> QED
      BY <2>1, <2>2, <2>3 DEF ScanOK, AlarmOnlyAhead, ChainHolds
  <1>3. CASE ScanCheckpoints
    <2>1. PICK n \in 0..Cardinality(rows) : scan.rows = {r \in rows : r.seq <= n}
      BY DEF ScanOK
    <2>2. /\ UNCHANGED <<rows, cps>>
          /\ scan' = [pc |-> "idle", rows |-> scan.rows, answer |-> scan'.answer]
          /\ scan'.answer # "chain"
          /\ scan'.answer = "anchor" =>
               \E c \in cps : ~\E r \in scan.rows : r.seq = c.seq /\ r.hash = c.hash
      <3> DEFINE anchored(c) == \E r \in scan.rows : r.seq = c.seq /\ r.hash = c.hash
      <3>1. PICK a : /\ a = CASE ~ChainHolds(scan.rows) -> "chain"
                           [] ChainHolds(scan.rows) /\ \E c \in cps : ~anchored(c) -> "anchor"
                           [] ChainHolds(scan.rows) /\ cps = {} -> "unsigned"
                           [] OTHER -> "intact"
                     /\ scan' = [scan EXCEPT !.pc = "idle", !.answer = a]
        BY <1>3 DEF ScanCheckpoints
      <3>2. scan' = [pc |-> "idle", rows |-> scan.rows, answer |-> a]
        BY <3>1 DEF ScanOK
      <3>3. a # "chain" /\ (a = "anchor" => \E c \in cps : ~anchored(c))
        BY <3>1 DEF ScanOK
      <3>4. UNCHANGED <<rows, cps>>
        BY <1>3 DEF ScanCheckpoints
      <3>5. scan'.answer = a
        BY <3>2
      <3> HIDE DEF anchored
      <3>6. /\ scan'.answer # "chain"
            /\ scan' = [pc |-> "idle", rows |-> scan.rows, answer |-> scan'.answer]
        BY <3>2, <3>3, <3>5
      <3> QED
        BY <3>3, <3>4, <3>5, <3>6 DEF anchored
    <2>3. MaxSeq(scan.rows) = n /\ n \in Nat
      <3>1. n \in Nat /\ \A r \in scan.rows : r.seq \in Nat /\ 1 <= r.seq /\ r.seq <= n
        BY <2>1, TopIs DEF ChainInv
      <3>2. n # 0 => \E r \in scan.rows : r.seq = n
        BY <2>1, <3>1, TopIs DEF ChainInv, RowsOK, Taken
      <3> QED
        BY <3>1, <3>2, MaxSeqIs
    <2>4. ASSUME NEW c \in cps, ~\E r \in scan.rows : r.seq = c.seq /\ r.hash = c.hash
          PROVE  c.seq > MaxSeq(scan.rows)
      <3>1. PICK r \in rows : r.seq = c.seq /\ r.hash = c.hash
        BY DEF CheckpointsOK, Anchored
      <3>2. r.seq \in Nat /\ ~(r.seq <= n)
        BY <2>1, <2>4, <3>1, TopIs DEF ChainInv
      <3> QED
        BY <2>3, <3>1, <3>2
    <2> QED
      BY <2>1, <2>2, <2>4 DEF ScanOK, AlarmOnlyAhead, ChainHolds
  <1> QED
    BY <1>1, <1>2, <1>3 DEF Next, vars, Record, Enqueue, Writer, Receive, LoadHead, StoreRow,
       WriteFails, SignHead, SignLast, SignCreate, SignFails, signUnchanged, Shutdown,
       SendFlush, FlushTimeout, Drained, Die, Exit, Crash, Restart

LEMMA VerifiedInit == Init => CheckpointsOK /\ ScanOK
  <1> SUFFICES ASSUME Init PROVE CheckpointsOK /\ ScanOK
    OBVIOUS
  <1>1. rows = {} /\ cps = {} /\ signer = NoSigner /\ scan = NoScan /\ Cardinality(rows) = 0
    BY FS_EmptySet DEF Init
  <1>2. CheckpointsOK
    BY <1>1 DEF CheckpointsOK, NoSigner
  <1>3. ScanOK
    BY <1>1 DEF ScanOK, NoScan, AlarmOnlyAhead, ChainHolds
  <1> QED
    BY <1>2, <1>3

LEMMA VerifiedHolds == Spec => [](CheckpointsOK /\ ScanOK)
  <1>1. ChainInv /\ CheckpointsOK /\ ScanOK /\ [Next]_vars => CheckpointsOK' /\ ScanOK'
    BY CheckpointsStep, ScanStep
  <1> QED
    BY <1>1, VerifiedInit, ChainInvHolds, PTL DEF Spec

\* verify_integrity: a verification never calls the chain of an honest writer
\* broken, except for a checkpoint that was issued after its rows had been read.
THEOREM AlarmOnlyAheadHolds == Spec => []AlarmOnlyAhead
  <1>1. ScanOK => AlarmOnlyAhead
    BY DEF ScanOK
  <1> QED
    BY <1>1, VerifiedHolds, PTL

----------------------------------------------------------------------------
(* Shutdown.                                                               *)

\* The last row is signed.
Signed == rows # {} => \E c \in cps : c.seq = MaxSeq(rows) /\ c.hash = Top(rows).hash

\* Where the phases of the process find the queue, the flush and the signer.
PhaseOK ==
  /\ queue \in Seq(Events \cup {Flush})
  /\ proc = "stopped" => queue = << >> /\ waiting = {} /\ writer.pc = "idle"
  /\ proc = "serving" => flush = "unsent"
  /\ proc = "signing" => flush \in {"answered", "timeout"}
  /\ flush = "unsent" => \A i \in 1..Len(queue) : queue[i] # Flush
  /\ signer["final"].pc # "idle" => proc = "signing"

\* While nothing has gone wrong: the flush is the last thing in the queue, its
\* answer means that the queue and the writer are done, and from then on the
\* table stays as it is until its head is signed.
CleanOK ==
  clean =>
    /\ waiting = {} /\ flush # "timeout"
    /\ flush = "sent" => \A i \in 1..Len(queue) : queue[i] = Flush => i = Len(queue)
    /\ flush = "answered" => queue = << >> /\ writer.pc = "idle"
    /\ signer["final"].pc \in {"last", "create"} =>
         /\ rows # {} /\ signer["final"].seq = MaxSeq(rows)
         /\ signer["final"].hash = Top(rows).hash
    /\ signer["final"].pc = "over" => Signed

ShutdownInv == PhaseOK /\ CleanOK

LEMMA ShutdownInit == Init => ShutdownInv
  <1> SUFFICES ASSUME Init PROVE ShutdownInv
    OBVIOUS
  <1>1. /\ queue = << >> /\ waiting = {} /\ writer = Idle /\ proc = "serving"
        /\ flush = "unsent" /\ signer = NoSigner
    BY DEF Init
  <1>2. writer.pc = "idle" /\ signer["final"].pc = "idle" /\ "final" \in Signers
    BY <1>1 DEF Idle, NoSigner, Signers
  <1>3. queue \in Seq(Events \cup {Flush}) /\ Len(queue) = 0
    BY <1>1
  <1> QED
    BY <1>1, <1>2, <1>3 DEF ShutdownInv, PhaseOK, CleanOK

\* Whatever leaves the queue, the flush, the checkpoints and the table alone.
LEMMA ShutdownElsewhere ==
  ASSUME ShutdownInv, UNCHANGED <<rows, cps, proc, queue, waiting, writer, flush, signer>>,
         clean' => clean
  PROVE  ShutdownInv'
  BY DEF ShutdownInv, PhaseOK, CleanOK, Signed

LEMMA RecordShutdown ==
  ASSUME ShutdownInv, NEW e \in Events, Record(e) \/ Enqueue(e)
  PROVE  ShutdownInv'
  <1>1. /\ UNCHANGED <<rows, cps, proc, writer, flush, signer>>
        /\ queue' = Append(queue, e) \/ UNCHANGED queue
    BY DEF Record, Enqueue
  <1>2. proc # "stopped" /\ (clean' => clean /\ waiting' = {} /\ flush = "unsent")
    <2>1. CASE Record(e)
      <3>1. /\ proc # "stopped"
            /\ \/ UNCHANGED waiting /\ clean' = (clean /\ proc = "serving")
               \/ clean' = FALSE
        BY <2>1 DEF Record, Alive
      <3> QED
        BY <3>1 DEF ShutdownInv, PhaseOK, CleanOK
    <2>2. CASE Enqueue(e)
      <3>1. e \in waiting /\ clean' = clean
        BY <2>2 DEF Enqueue
      <3> QED
        BY <3>1 DEF ShutdownInv, PhaseOK, CleanOK
    <2> QED
      BY <2>1, <2>2
  <1>3. /\ queue \in Seq(Events \cup {Flush}) /\ e # Flush
        /\ flush = "unsent" => \A i \in 1..Len(queue) : queue[i] # Flush
    BY AuditAssumption DEF ShutdownInv, PhaseOK
  <1>4. /\ queue' \in Seq(Events \cup {Flush})
        /\ flush = "unsent" => \A i \in 1..Len(queue') : queue'[i] # Flush
    <2>1. CASE queue' = Append(queue, e)
      <3>1. /\ queue' \in Seq(Events \cup {Flush}) /\ Len(queue') = Len(queue) + 1
            /\ \A i \in 1..Len(queue) : queue'[i] = queue[i]
            /\ queue'[Len(queue) + 1] = e /\ Len(queue) \in Nat
        BY <1>3, <2>1, AppendSeq
      <3>2. \A i \in 1..Len(queue') : i \in 1..Len(queue) \/ i = Len(queue) + 1
        BY <3>1
      <3> QED
        BY <1>3, <3>1, <3>2
    <2> QED
      BY <1>1, <1>3, <2>1
  <1>5. PhaseOK'
    BY <1>1, <1>2, <1>4 DEF ShutdownInv, PhaseOK
  <1>6. CleanOK'
    BY <1>1, <1>2 DEF ShutdownInv, CleanOK, Signed
  <1> QED
    BY <1>5, <1>6 DEF ShutdownInv

LEMMA ReceiveShutdown ==
  ASSUME ShutdownInv, Receive
  PROVE  ShutdownInv'
  <1>1. /\ queue # << >> /\ queue' = Tail(queue) /\ writer.pc = "idle"
        /\ UNCHANGED <<rows, cps, proc, waiting, signer, clean>>
        /\ IF Head(queue) = Flush
           THEN flush' = (IF flush = "sent" THEN "answered" ELSE flush) /\ UNCHANGED writer
           ELSE UNCHANGED flush
    BY DEF Receive
  <1>2. /\ queue' \in Seq(Events \cup {Flush}) /\ Len(queue') = Len(queue) - 1
        /\ \A i \in 1..(Len(queue) - 1) : queue'[i] = queue[i + 1]
        /\ Head(queue) = queue[1] /\ 1 \in 1..Len(queue) /\ Len(queue) \in Nat
        /\ queue \in Seq(Events \cup {Flush})
    BY <1>1, TailSeq DEF ShutdownInv, PhaseOK
  <1>3. \A i \in 1..Len(queue') : i + 1 \in 1..Len(queue) /\ queue'[i] = queue[i + 1]
    BY <1>2
  <1>4. flush' = "unsent" => \A i \in 1..Len(queue') : queue'[i] # Flush
    BY <1>1, <1>3 DEF ShutdownInv, PhaseOK
  <1>5. PhaseOK'
    BY <1>1, <1>2, <1>4 DEF ShutdownInv, PhaseOK
  <1>6. ASSUME clean
        PROVE  /\ flush # "answered" /\ signer["final"].pc = "idle"
               /\ flush' = "sent" => \A i \in 1..Len(queue') : queue'[i] = Flush => i = Len(queue')
               /\ flush' = "answered" => queue' = << >> /\ writer'.pc = "idle"
    <2>1. flush # "answered" /\ flush # "timeout" /\ proc # "signing"
      BY <1>1, <1>6 DEF ShutdownInv, PhaseOK, CleanOK
    <2>2. ASSUME flush' = "sent", NEW i \in 1..Len(queue'), queue'[i] = Flush
          PROVE  i = Len(queue')
      <3>1. flush = "sent"
        BY <1>1, <2>1, <2>2
      <3>2. i + 1 = Len(queue)
        BY <1>3, <1>6, <2>2, <3>1 DEF ShutdownInv, CleanOK
      <3> QED
        BY <1>2, <3>2
    <2>3. ASSUME flush' = "answered" PROVE queue' = << >> /\ writer'.pc = "idle"
      <3>1. flush = "sent" /\ queue[1] = Flush /\ UNCHANGED writer
        BY <1>1, <1>2, <2>1, <2>3
      <3>2. 1 = Len(queue)
        BY <1>2, <1>6, <3>1 DEF ShutdownInv, CleanOK
      <3>3. Len(queue') = 0
        BY <1>2, <3>2
      <3> QED
        BY <1>1, <1>2, <3>1, <3>3
    <2> QED
      BY <2>1, <2>2, <2>3 DEF ShutdownInv, PhaseOK
  <1>7. CleanOK'
    BY <1>1, <1>6 DEF ShutdownInv, CleanOK
  <1> QED
    BY <1>5, <1>7 DEF ShutdownInv

\* The writer at work: the flush is not answered yet.
LEMMA WriterShutdown ==
  ASSUME ShutdownInv, LoadHead \/ StoreRow \/ WriteFails
  PROVE  ShutdownInv'
  <1>1. /\ writer.pc # "idle" /\ UNCHANGED <<cps, proc, queue, waiting, flush, signer>>
        /\ clean' => clean
    BY DEF LoadHead, StoreRow, WriteFails, NoFault, Fault
  <1>2. proc # "stopped"
    BY <1>1 DEF ShutdownInv, PhaseOK
  <1>3. clean => flush \notin {"answered", "timeout"} /\ signer["final"].pc = "idle"
    BY <1>1 DEF ShutdownInv, PhaseOK, CleanOK
  <1>4. PhaseOK'
    BY <1>1, <1>2 DEF ShutdownInv, PhaseOK
  <1>5. CleanOK'
    BY <1>1, <1>3 DEF ShutdownInv, CleanOK
  <1> QED
    BY <1>4, <1>5 DEF ShutdownInv

\* A checkpoint as far as the last row is that of the last row.
LEMMA LastIsSigned ==
  ASSUME ChainInv, CheckpointsOK, rows # {}
  PROVE  /\ MaxSeq(rows) <= MaxSeq(cps) => Signed
         /\ \A c \in cps : c.seq = MaxSeq(rows) => c.hash = Top(rows).hash
  <1>1. /\ MaxSeq(rows) = Cardinality(rows) /\ Top(rows) \in rows
        /\ Top(rows).seq = Cardinality(rows) /\ Cardinality(rows) \in Nat
        /\ \A r \in rows : r.seq \in Nat /\ 1 <= r.seq /\ r.seq <= Cardinality(rows)
    BY TopIs DEF ChainInv
  <1>2. \A c \in cps : c.seq = MaxSeq(rows) => c.hash = Top(rows).hash
    BY <1>1 DEF CheckpointsOK, Anchored, ChainInv, RowsOK
  <1>3. ASSUME MaxSeq(rows) <= MaxSeq(cps) PROVE Signed
    <2>1. cps # {}
      BY <1>1, <1>3 DEF MaxSeq
    <2>2. PICK c \in cps : \A d \in cps : d.seq <= c.seq
      BY <2>1 DEF CheckpointsOK
    <2>3. \A d \in cps : d.seq \in Nat /\ d.seq <= Cardinality(rows)
      BY AnchoredNat DEF CheckpointsOK
    <2>4. MaxSeq(cps) = c.seq
      BY <2>1, <2>2, <2>3, MaxSeqIs
    <2> QED
      BY <1>1, <1>2, <1>3, <2>3, <2>4 DEF Signed
  <1> QED
    BY <1>2, <1>3

LEMMA SignShutdown ==
  ASSUME ChainInv, CheckpointsOK, ShutdownInv, NEW s \in Signers,
         SignHead(s) \/ SignLast(s) \/ SignCreate(s) \/ SignFails(s)
  PROVE  ShutdownInv'
  <1>1. /\ UNCHANGED <<rows, proc, queue, waiting, writer, flush>>
        /\ clean' => clean /\ ~SignFails(s)
        /\ cps \subseteq cps'
        /\ "final" \in Signers
    BY DEF SignHead, SignLast, SignCreate, SignFails, signUnchanged, mem, Fault, Signers
  <1>2. Signed => Signed'
    BY <1>1 DEF Signed
  <1>3. CASE s # "final"
    <2>1. signer'["final"] = signer["final"]
      BY <1>1, <1>3, SignerIs
    <2> QED
      BY <1>1, <1>2, <2>1 DEF ShutdownInv, PhaseOK, CleanOK
  <1>4. CASE s = "final"
    <2>1. proc = "signing"
      BY <1>4 DEF ShutdownInv, PhaseOK, SignHead, SignLast, SignCreate, SignFails, Due
    <2>2. PhaseOK'
      BY <1>1, <2>1 DEF ShutdownInv, PhaseOK
    <2>3. ASSUME clean', signer'["final"].pc = "over" PROVE Signed'
      <3>1. clean /\ ~SignFails(s)
        BY <1>1, <2>3
      <3>2. CASE rows = {}
        BY <1>1, <3>2 DEF Signed
      <3>3. CASE SignHead(s) /\ rows # {}
        BY <1>4, <2>3, <3>3, SignerIs DEF SignHead, CheckpointsOK
      <3>4. CASE SignLast(s) /\ rows # {}
        <4>1. signer["final"].seq = MaxSeq(rows)
          BY <1>4, <3>1, <3>4 DEF SignLast, ShutdownInv, CleanOK
        <4>2. signer[s].seq <= MaxSeq(cps)
          <5>1. SUFFICES ASSUME signer' = [signer EXCEPT ![s].pc = "create"] PROVE FALSE
            BY <3>4 DEF SignLast
          <5>2. signer'[s].pc = "create"
            BY <5>1 DEF CheckpointsOK
          <5> QED
            BY <1>4, <2>3, <5>2
        <4> QED
          BY <1>2, <1>4, <3>4, <4>1, <4>2, LastIsSigned
      <3>5. CASE SignCreate(s) /\ rows # {}
        <4>1. signer["final"].seq = MaxSeq(rows) /\ signer["final"].hash = Top(rows).hash
          BY <1>4, <3>1, <3>5 DEF SignCreate, ShutdownInv, CleanOK
        <4>2. CASE \E c \in cps : c.seq = signer[s].seq
          <5>1. PICK c \in cps : c.seq = MaxSeq(rows)
            BY <1>4, <4>1, <4>2
          <5>2. c.hash = Top(rows).hash
            BY <3>5, <5>1, LastIsSigned
          <5>3. Signed
            BY <5>1, <5>2 DEF Signed
          <5> QED
            BY <1>2, <5>3
        <4>3. CASE cps' = cps \cup {[seq |-> signer[s].seq, hash |-> signer[s].hash]}
          <5>1. [seq |-> signer[s].seq, hash |-> signer[s].hash] \in cps'
            BY <4>3
          <5> QED
            BY <1>1, <1>4, <4>1, <5>1 DEF Signed
        <4> QED
          BY <3>5, <4>2, <4>3 DEF SignCreate
      <3> QED
        BY <3>1, <3>2, <3>3, <3>4, <3>5
    <2>4. ASSUME clean', signer'["final"].pc \in {"last", "create"}
          PROVE  /\ rows # {} /\ signer'["final"].seq = MaxSeq(rows)
                 /\ signer'["final"].hash = Top(rows).hash
      <3>1. CASE SignLast(s) /\ signer'[s].seq = signer[s].seq /\ signer'[s].hash = signer[s].hash
        BY <1>1, <1>4, <2>4, <3>1 DEF SignLast, ShutdownInv, CleanOK
      <3> QED
        BY <1>4, <2>4, <3>1, SignerIs
    <2>5. CleanOK'
      BY <1>1, <2>3, <2>4 DEF ShutdownInv, CleanOK
    <2> QED
      BY <2>2, <2>5 DEF ShutdownInv
  <1> QED
    BY <1>3, <1>4

\* The shutdown itself, the end of the process, and the next one.
LEMMA ProcessShutdown ==
  ASSUME CheckpointsOK, ShutdownInv,
         Shutdown \/ SendFlush \/ FlushTimeout \/ Drained \/ Exit \/ Crash \/ Restart
  PROVE  ShutdownInv'
  <1>1. CASE Shutdown
    BY <1>1 DEF Shutdown, mem, ShutdownInv, PhaseOK, CleanOK, Signed
  <1>2. CASE SendFlush
    <2>1. /\ queue' = Append(queue, Flush) /\ flush = "unsent" /\ flush' = "sent"
          /\ proc = "draining" /\ signer["final"].pc = "idle"
          /\ UNCHANGED <<rows, cps, proc, waiting, writer, signer, clean>>
      BY <1>2 DEF SendFlush, ShutdownInv, PhaseOK
    <2>2. /\ queue' \in Seq(Events \cup {Flush}) /\ Len(queue') = Len(queue) + 1
          /\ \A i \in 1..Len(queue) : queue'[i] = queue[i] /\ queue[i] # Flush
          /\ Len(queue) \in Nat
      BY <2>1, AppendSeq DEF ShutdownInv, PhaseOK
    <2>3. \A i \in 1..Len(queue') : queue'[i] = Flush => i = Len(queue')
      <3>1. \A i \in 1..Len(queue') : i \in 1..Len(queue) \/ i = Len(queue')
        BY <2>2
      <3> QED
        BY <2>2, <3>1
    <2> QED
      BY <2>1, <2>2, <2>3 DEF ShutdownInv, PhaseOK, CleanOK
  <1>3. CASE FlushTimeout
    BY <1>3 DEF FlushTimeout, Fault, mem, ShutdownInv, PhaseOK, CleanOK
  <1>4. CASE Drained
    BY <1>4 DEF Drained, mem, ShutdownInv, PhaseOK, CleanOK, Signed
  <1>5. CASE Exit \/ Crash
    <2>1. /\ proc' = "stopped" /\ queue' = << >> /\ waiting' = {} /\ writer' = Idle
          /\ signer' = NoSigner /\ UNCHANGED flush
          /\ clean' => clean
      BY <1>5 DEF Exit, Crash, Die, Fault
    <2>2. writer'.pc = "idle" /\ signer'["final"].pc = "idle"
      BY <2>1 DEF Idle, NoSigner, Signers
    <2>3. queue' \in Seq(Events \cup {Flush}) /\ Len(queue') = 0
      BY <2>1
    <2> QED
      BY <2>1, <2>2, <2>3 DEF ShutdownInv, PhaseOK, CleanOK
  <1>6. CASE Restart
    <2>1. /\ proc = "stopped" /\ proc' = "serving" /\ flush' = "unsent"
          /\ UNCHANGED <<rows, cps, queue, waiting, writer, signer>>
      BY <1>6 DEF Restart, mem
    <2>2. queue = << >> /\ waiting = {} /\ writer.pc = "idle" /\ signer["final"].pc = "idle"
      BY <2>1 DEF ShutdownInv, PhaseOK
    <2>3. queue \in Seq(Events \cup {Flush}) /\ Len(queue) = 0
      BY <2>2
    <2> QED
      BY <2>1, <2>2, <2>3 DEF ShutdownInv, PhaseOK, CleanOK
  <1> QED
    BY <1>1, <1>2, <1>3, <1>4, <1>5, <1>6

LEMMA ShutdownStep ==
  ASSUME ChainInv, CheckpointsOK, ShutdownInv, [Next]_vars
  PROVE  ShutdownInv'
  <1>1. CASE UNCHANGED vars \/ ScanRows \/ ScanCheckpoints
    BY <1>1, ShutdownElsewhere DEF vars, mem, ScanRows, ScanCheckpoints
  <1>2. ASSUME NEW e \in Events, Record(e) \/ Enqueue(e) PROVE ShutdownInv'
    BY <1>2, RecordShutdown
  <1>3. CASE Writer
    BY <1>3, ReceiveShutdown, WriterShutdown DEF Writer
  <1>4. ASSUME NEW s \in Signers, SignHead(s) \/ SignLast(s) \/ SignCreate(s) \/ SignFails(s)
        PROVE ShutdownInv'
    BY <1>4, SignShutdown
  <1>5. CASE Shutdown \/ SendFlush \/ FlushTimeout \/ Drained \/ Exit \/ Crash \/ Restart
    BY <1>5, ProcessShutdown
  <1> QED
    BY <1>1, <1>2, <1>3, <1>4, <1>5 DEF Next

\* main.rs: a shutdown in which no statement failed, nothing overflowed and no
\* task recorded late ends with every event stored and the head of the chain
\* signed.
THEOREM CleanStopHolds == Spec => []CleanStop
  <1>1. ChainInv /\ ShutdownInv => CleanStop
    <2> SUFFICES ASSUME ChainInv, ShutdownInv, proc = "signing", signer["final"].pc = "over", clean
                 PROVE  InMemory = {} /\ Signed
      BY DEF CleanStop, Signed
    <2>1. queue = << >> /\ waiting = {} /\ writer.pc = "idle" /\ Signed
      BY DEF ShutdownInv, PhaseOK, CleanOK
    <2>2. writer.event = None /\ None \notin Events
      BY <2>1, AuditAssumption DEF ChainInv, WriterOK
    <2>3. DOMAIN queue = {}
      BY <2>1
    <2> QED
      BY <2>1, <2>2, <2>3 DEF InMemory
  <1>2. ChainInv /\ CheckpointsOK /\ ScanOK /\ ShutdownInv /\ [Next]_vars => ShutdownInv'
    BY ShutdownStep
  <1> QED
    BY <1>1, <1>2, ShutdownInit, ChainInvHolds, VerifiedHolds, PTL DEF Spec
=============================================================================

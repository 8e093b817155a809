------------------------- MODULE IngestQueueProofs -------------------------
(***************************************************************************)
(* Event ingest, for every number of devices, of overlapping calls and of  *)
(* acts, every batch size, clock and number of faults: no act is lost on   *)
(* the way, the counts of an answer add up, and the protocol implements    *)
(* the log of ActLog.                                                      *)
(***************************************************************************)
EXTENDS IngestQueue, FiniteSetTheorems, SequenceTheorems, WellFoundedInduction, TLAPS

-----------------------------------------------------------------------------
(* The inductive invariant                                                  *)

\* What a call carries has been recorded.
Sourced(c) == Rows(call[c].batch) \subseteq recorded

\* An event of a batch that is being inserted has been refused or stored, or an
\* event of its id is still to be written.
Accounted(c, i) ==
    \/ call[c].batch[i] \in refused
    \/ Stored(call[c].batch[i].id)
    \/ \E j \in call[c].toWrite : call[c].batch[j].id = call[c].batch[i].id

Settled(c) ==
    call[c].phase = "insert" =>
        /\ call[c].toWrite \subseteq DOMAIN call[c].batch
        /\ \A i \in DOMAIN call[c].batch : Accounted(c, i)

\* Every event of a batch is in one of the counts or still to be written.
Tallied(c) ==
    /\ call[c].phase = "received" => call[c].accepted = 0
    /\ call[c].phase = "insert" =>
        /\ IsFiniteSet(call[c].toWrite) /\ Cardinality(call[c].rejected) \in Nat
        /\ call[c].accepted + call[c].duplicates + Cardinality(call[c].rejected)
             = Len(call[c].batch) - Cardinality(call[c].toWrite)

QueueInv ==
    /\ QueueTypeOK
    /\ NothingLost
    /\ \A c \in Calls : Sourced(c) /\ Settled(c) /\ Tallied(c)

-----------------------------------------------------------------------------
(* Data                                                                     *)

Below == {p \in Nat \X Nat : p[1] < p[2]}

\* A set of natural numbers that is not empty has a least one.
LEMMA LeastPlace ==
    ASSUME NEW S, S \subseteq Nat, S # {}
    PROVE  \E n \in S : \A m \in S : n <= m
<1>1. IsWellFoundedOn(Below, Nat)
  BY NatLessThanWellFounded DEF Below, OpToRel
<1>2. PICK n \in S : \A m \in S : <<m, n>> \notin Below
  BY <1>1, WFMin
<1>3. ASSUME NEW m \in S
      PROVE  n <= m
  <2>1. <<m, n>> \in Nat \X Nat /\ <<m, n>>[1] = m /\ <<m, n>>[2] = n
    OBVIOUS
  <2>2. ~ (m < n)
    BY <1>2, <2>1 DEF Below
  <2> QED
    BY <2>2
<1> QED
  BY <1>3

\* Of every accepted event of a batch, the first of its id is written.
LEMMA FirstOfEachCovers ==
    ASSUME NEW batch \in Seq(Acts), NEW at, NEW i \in DOMAIN batch, i \notin Rejected(batch, at)
    PROVE  \E j \in FirstOfEach(batch, at) : batch[j].id = batch[i].id
<1> DEFINE accepted == {k \in DOMAIN batch : Verdict(batch[k], at) = "accepted"}
           same     == {k \in accepted : batch[k].id = batch[i].id}
<1>1. i \in same
  BY DEF Rejected
<1>2. same \subseteq Nat
  OBVIOUS
<1>3. PICK j \in same : \A k \in same : j <= k
  BY <1>1, <1>2, LeastPlace
<1>4. \A k \in accepted : batch[k].id = batch[j].id => j <= k
  BY <1>3
<1>5. j \in FirstOfEach(batch, at)
  BY <1>3, <1>4 DEF FirstOfEach
<1> QED
  BY <1>3, <1>5

\* The places of a batch that are rejected and those that are written are
\* finite sets of places.
LEMMA PlacesOfBatch ==
    ASSUME NEW batch \in Seq(Acts), NEW at
    PROVE  /\ Rejected(batch, at) \subseteq DOMAIN batch
           /\ FirstOfEach(batch, at) \subseteq DOMAIN batch
           /\ DOMAIN batch \subseteq Nat
           /\ IsFiniteSet(Rejected(batch, at)) /\ Cardinality(Rejected(batch, at)) \in Nat
           /\ IsFiniteSet(FirstOfEach(batch, at)) /\ Cardinality(FirstOfEach(batch, at)) \in Nat
<1>1. DOMAIN batch = 1 .. Len(batch) /\ Len(batch) \in Nat
  OBVIOUS
<1>2. IsFiniteSet(DOMAIN batch)
  BY <1>1, FS_Interval
<1>3. Rejected(batch, at) \subseteq DOMAIN batch /\ FirstOfEach(batch, at) \subseteq DOMAIN batch
  BY DEF Rejected, FirstOfEach
<1> QED
  BY <1>1, <1>2, <1>3, FS_Subset, FS_CardinalityType

-----------------------------------------------------------------------------
(* The steps of the devices                                                 *)

\* An act recorded at the end of a queue.
LEMMA RecordKeepsInv ==
    ASSUME QueueInv, NEW d \in Devices, NEW act \in Acts, RecordAct(d, act)
    PROVE  QueueInv'
<1>1. /\ recorded' = recorded \union {act}
      /\ queue' = [queue EXCEPT ![d] = Append(@, act)]
      /\ UNCHANGED <<waiting, call, log, refused, faults>>
  BY DEF RecordAct
<1>2. queue \in [Devices -> Seq(Acts)]
  BY DEF QueueInv, QueueTypeOK
<1>3. /\ queue' \in [Devices -> Seq(Acts)]
      /\ \A e \in Devices : /\ Len(queue'[e]) >= Len(queue[e])
                            /\ \A i \in DOMAIN queue[e] : queue'[e][i] = queue[e][i]
                            /\ Rows(queue[e]) \subseteq Rows(queue'[e])
                            /\ Rows(queue'[e]) \subseteq Rows(queue[e]) \union {act}
      /\ act \in Rows(queue'[d])
  <2>1. ASSUME NEW e \in Devices, e # d
        PROVE  queue'[e] = queue[e]
    BY <1>1, <1>2, <2>1
  <2>2. queue'[d] = Append(queue[d], act) /\ queue[d] \in Seq(Acts)
    BY <1>1, <1>2
  <2>3. /\ Len(queue[d]) \in Nat
        /\ Len(queue'[d]) = Len(queue[d]) + 1
        /\ \A i \in DOMAIN queue[d] : queue'[d][i] = queue[d][i]
        /\ queue'[d][Len(queue[d]) + 1] = act
        /\ DOMAIN queue[d] = 1 .. Len(queue[d])
        /\ DOMAIN queue'[d] = 1 .. (Len(queue[d]) + 1)
    BY <2>2
  <2>4. Rows(queue[d]) \subseteq Rows(queue'[d])
    BY <2>3 DEF Rows
  <2>5. Rows(queue'[d]) \subseteq Rows(queue[d]) \union {act}
    BY <2>3 DEF Rows
  <2>6. act \in Rows(queue'[d])
    BY <2>2, <2>3 DEF Rows
  <2>7. queue' \in [Devices -> Seq(Acts)]
    BY <1>1, <1>2
  <2>8. ASSUME NEW e \in Devices
        PROVE  /\ Len(queue'[e]) >= Len(queue[e])
               /\ \A i \in DOMAIN queue[e] : queue'[e][i] = queue[e][i]
               /\ Rows(queue[e]) \subseteq Rows(queue'[e])
               /\ Rows(queue'[e]) \subseteq Rows(queue[e]) \union {act}
    <3>1. CASE e = d
      <4>1. Len(queue'[d]) >= Len(queue[d])
        BY <2>3
      <4> QED
        BY <2>3, <2>4, <2>5, <3>1, <4>1
    <3>2. CASE e # d
      <4>1. Len(queue[e]) \in Nat
        BY <1>2
      <4> QED
        BY <2>1, <3>2, <4>1
    <3> QED
      BY <3>1, <3>2
  <2> QED
    BY <2>6, <2>7, <2>8
<1>4. QueueTypeOK'
  <2>1. /\ recorded' \subseteq Acts /\ log' \subseteq Acts /\ refused' \subseteq Acts
        /\ waiting' \in [Devices -> Calls \union {None}] /\ call' \in [Calls -> CallRecord]
        /\ \A c \in Calls : Len(call'[c].batch) <= MaxBatch
        /\ faults' \in 0 .. MaxFaults
    BY <1>1 DEF QueueInv, QueueTypeOK
  <2>2. ASSUME NEW e \in Devices
        PROVE  Rows(queue'[e]) \subseteq recorded'
    BY <1>1, <1>3 DEF QueueInv, QueueTypeOK
  <2>3. ASSUME NEW e \in Devices, waiting'[e] # None
        PROVE  call'[waiting'[e]].phase # "idle" /\ IsFront(call'[waiting'[e]].batch, queue'[e])
    <3>1. /\ call[waiting[e]].phase # "idle"
          /\ IsFront(call[waiting[e]].batch, queue[e])
          /\ waiting[e] \in Calls
      BY <1>1, <2>3 DEF QueueInv, QueueTypeOK
    <3>2. call[waiting[e]].batch \in Seq(Acts) /\ queue[e] \in Seq(Acts) /\ queue'[e] \in Seq(Acts)
      BY <1>2, <1>3, <3>1 DEF QueueInv, QueueTypeOK, CallRecord
    <3>3. IsFront(call[waiting[e]].batch, queue'[e])
      BY <1>3, <3>1, <3>2 DEF IsFront
    <3> QED
      BY <1>1, <3>1, <3>3
  <2> QED
    BY <1>3, <2>1, <2>2, <2>3 DEF QueueTypeOK
<1>5. NothingLost'
  <2>1. ASSUME NEW other \in recorded'
        PROVE  \/ \E e \in Devices : other \in Rows(queue'[e])
               \/ Stored(other.id)' \/ other \in refused'
    <3>1. CASE other = act
      BY <1>3, <3>1
    <3>2. CASE other \in recorded
      BY <1>1, <1>3, <3>2 DEF QueueInv, NothingLost, Stored
    <3> QED
      BY <1>1, <3>1, <3>2
  <2> QED
    BY <2>1 DEF NothingLost, Stored
<1>6. ASSUME NEW c \in Calls
      PROVE  (Sourced(c) /\ Settled(c) /\ Tallied(c))'
  BY <1>1 DEF QueueInv, Sourced, Settled, Accounted, Tallied, Stored
<1> QED
  BY <1>4, <1>5, <1>6 DEF QueueInv

\* A step that only lets one device stop waiting, or changes nothing but the
\* clock and the number of faults.
LEMMA UnheardKeepsInv ==
    ASSUME QueueInv, UNCHANGED <<recorded, queue, call, log, refused>>,
           faults' \in 0 .. MaxFaults,
           waiting' = waiting \/ \E d \in Devices : waiting' = [waiting EXCEPT ![d] = None]
    PROVE  QueueInv'
<1>1. /\ waiting \in [Devices -> Calls \union {None}]
      /\ waiting' \in [Devices -> Calls \union {None}]
      /\ \A d \in Devices : waiting'[d] # None => waiting'[d] = waiting[d]
  BY DEF QueueInv, QueueTypeOK
<1>2. QueueTypeOK'
  BY <1>1 DEF QueueInv, QueueTypeOK
<1>3. NothingLost'
  BY DEF QueueInv, NothingLost, Stored
<1>4. ASSUME NEW c \in Calls
      PROVE  (Sourced(c) /\ Settled(c) /\ Tallied(c))'
  BY DEF QueueInv, Sourced, Settled, Accounted, Tallied, Stored
<1> QED
  BY <1>2, <1>3, <1>4 DEF QueueInv

\* What holds of a call goes on holding while others change, and the log and the
\* refusals only grow.
LEMMA OthersUndisturbed ==
    ASSUME QueueInv, NEW c \in Calls, NEW e \in Calls, call'[e] = call[e],
           recorded' = recorded, log \subseteq log', refused \subseteq refused'
    PROVE  (Sourced(e) /\ Settled(e) /\ Tallied(e))'
<1>1. Sourced(e)'
  BY DEF QueueInv, Sourced
<1>2. Settled(e)'
  BY DEF QueueInv, Settled, Accounted, Stored
<1>3. Tallied(e)'
  BY DEF QueueInv, Tallied
<1> QED
  BY <1>1, <1>2, <1>3

\* A call that is not under way.
LEMMA IdleCall == NoCall \in CallRecord /\ NoCall.phase = "idle" /\ NoCall.batch = <<>>
<1>1. <<>> \in Seq(Acts)
  OBVIOUS
<1> QED
  BY <1>1 DEF NoCall, CallRecord

\* A call that has just been received.
LEMMA ReceivedCall ==
    ASSUME NEW batch \in Seq(Acts)
    PROVE  LET rec == [NoCall EXCEPT !.phase = "received", !.batch = batch]
           IN  /\ rec \in CallRecord /\ rec.phase = "received" /\ rec.batch = batch
               /\ rec.accepted = 0
<1>1. NoCall \in CallRecord
  BY IdleCall
<1>2. NoCall.accepted = 0
  BY DEF NoCall
<1> QED
  BY <1>1, <1>2 DEF CallRecord

\* An upload of the front of a queue.
LEMMA UploadKeepsInv ==
    ASSUME QueueInv, NEW d \in Devices, NEW c \in Calls, Upload(d, c)
    PROVE  QueueInv'
<1> DEFINE size  == IF Len(queue[d]) <= MaxBatch THEN Len(queue[d]) ELSE MaxBatch
           batch == SubSeq(queue[d], 1, size)
           rec   == [NoCall EXCEPT !.phase = "received", !.batch = batch]
<1>1. /\ call' = [call EXCEPT ![c] = rec]
      /\ waiting' = [waiting EXCEPT ![d] = c]
      /\ call[c].phase = "idle"
      /\ UNCHANGED <<now, recorded, queue, log, refused, faults>>
  BY DEF Upload
<1>2. /\ queue \in [Devices -> Seq(Acts)]
      /\ waiting \in [Devices -> Calls \union {None}]
      /\ call \in [Calls -> CallRecord]
      /\ MaxBatch \in Nat /\ None \notin Calls
  BY QueueAssumption DEF QueueInv, QueueTypeOK, QueueAssumption
<1>3. /\ size \in Nat /\ size <= Len(queue[d]) /\ size <= MaxBatch
      /\ queue[d] \in Seq(Acts) /\ Len(queue[d]) \in Nat
  BY <1>2
<1>4. /\ batch \in Seq(Acts) /\ Len(batch) = size /\ DOMAIN batch = 1 .. size
      /\ \A i \in 1 .. size : batch[i] = queue[d][i] /\ i \in DOMAIN queue[d]
  <2> HIDE DEF size
  <2> QED
    BY <1>3
<1> HIDE DEF size, batch
<1>5. rec \in CallRecord /\ rec.phase = "received" /\ rec.batch = batch /\ rec.accepted = 0
  BY <1>4, ReceivedCall
<1> HIDE DEF rec
<1>6. /\ call' \in [Calls -> CallRecord] /\ call'[c] = rec
      /\ \A e \in Calls : e # c => call'[e] = call[e]
      /\ waiting' \in [Devices -> Calls \union {None}] /\ waiting'[d] = c
      /\ \A e \in Devices : e # d => waiting'[e] = waiting[e]
  BY <1>1, <1>2, <1>5
<1>7. Rows(batch) \subseteq Rows(queue[d])
  BY <1>4 DEF Rows
<1>8. QueueTypeOK'
  <2>1. ASSUME NEW e \in Devices
        PROVE  Rows(queue'[e]) \subseteq recorded'
    BY <1>1 DEF QueueInv, QueueTypeOK
  <2>2. ASSUME NEW e \in Devices, waiting'[e] # None
        PROVE  call'[waiting'[e]].phase # "idle" /\ IsFront(call'[waiting'[e]].batch, queue'[e])
    <3>1. CASE e = d
      <4>1. IsFront(batch, queue[d])
        BY <1>3, <1>4 DEF IsFront
      <4> QED
        BY <1>1, <1>5, <1>6, <3>1, <4>1
    <3>2. CASE e # d
      <4>1. waiting'[e] = waiting[e] /\ waiting[e] \in Calls /\ call[waiting[e]].phase # "idle"
        BY <1>2, <1>6, <2>2, <3>2 DEF QueueInv, QueueTypeOK
      <4>2. waiting[e] # c
        BY <1>1, <4>1
      <4>3. IsFront(call[waiting[e]].batch, queue[e])
        BY <1>1, <1>6, <2>2, <3>2 DEF QueueInv, QueueTypeOK
      <4>4. call'[waiting'[e]] = call[waiting[e]]
        BY <1>6, <4>1, <4>2
      <4> QED
        BY <1>1, <4>1, <4>3, <4>4
    <3> QED
      BY <3>1, <3>2
  <2>3. ASSUME NEW e \in Calls
        PROVE  Len(call'[e].batch) <= MaxBatch
    BY <1>3, <1>4, <1>5, <1>6 DEF QueueInv, QueueTypeOK
  <2> QED
    BY <1>1, <1>6, <2>1, <2>2, <2>3 DEF QueueInv, QueueTypeOK
<1>9. NothingLost'
  BY <1>1 DEF QueueInv, NothingLost, Stored
<1>10. ASSUME NEW e \in Calls
       PROVE  (Sourced(e) /\ Settled(e) /\ Tallied(e))'
  <2>1. CASE e = c
    <3>1. Rows(batch) \subseteq recorded
      BY <1>7 DEF QueueInv, QueueTypeOK
    <3> QED
      BY <1>1, <1>5, <1>6, <2>1, <3>1 DEF Sourced, Settled, Tallied
  <2>2. CASE e # c
    BY <1>1, <1>6, <2>2, OthersUndisturbed
  <2> QED
    BY <2>1, <2>2
<1> QED
  BY <1>8, <1>9, <1>10 DEF QueueInv

-----------------------------------------------------------------------------
(* The steps of a call                                                      *)

\* A step of a call under way that leaves the devices alone, keeps its batch,
\* and only adds to the log and the refusals.
LEMMA CallKeepsInv ==
    ASSUME QueueInv, NEW c \in Calls, NEW rec \in CallRecord,
           call' = [call EXCEPT ![c] = rec], rec.phase # "idle", rec.batch = call[c].batch,
           UNCHANGED <<recorded, queue, waiting>>, faults' \in 0 .. MaxFaults,
           log \subseteq log', log' \subseteq Acts, refused \subseteq refused',
           refused' \subseteq Acts, Settled(c)', Tallied(c)'
    PROVE  QueueInv'
<1>1. /\ waiting \in [Devices -> Calls \union {None}]
      /\ call \in [Calls -> CallRecord]
  BY DEF QueueInv, QueueTypeOK
<1>2. /\ call' \in [Calls -> CallRecord] /\ call'[c] = rec
      /\ \A e \in Calls : e # c => call'[e] = call[e]
  BY <1>1
<1>3. QueueTypeOK'
  <2>1. ASSUME NEW e \in Devices, waiting'[e] # None
        PROVE  call'[waiting'[e]].phase # "idle" /\ IsFront(call'[waiting'[e]].batch, queue'[e])
    <3>1. /\ waiting'[e] = waiting[e] /\ waiting[e] \in Calls
          /\ call[waiting[e]].phase # "idle" /\ IsFront(call[waiting[e]].batch, queue[e])
      BY <1>1, <2>1 DEF QueueInv, QueueTypeOK
    <3>2. CASE waiting[e] = c
      BY <1>2, <3>1, <3>2
    <3>3. CASE waiting[e] # c
      BY <1>2, <3>1, <3>3
    <3> QED
      BY <3>2, <3>3
  <2>2. ASSUME NEW e \in Calls
        PROVE  Len(call'[e].batch) <= MaxBatch
    BY <1>2 DEF QueueInv, QueueTypeOK
  <2> QED
    BY <1>2, <2>1, <2>2 DEF QueueInv, QueueTypeOK
<1>4. NothingLost'
  BY DEF QueueInv, NothingLost, Stored
<1>5. ASSUME NEW e \in Calls
      PROVE  (Sourced(e) /\ Settled(e) /\ Tallied(e))'
  <2>1. CASE e = c
    <3>1. Sourced(c)'
      BY <1>2 DEF QueueInv, Sourced
    <3> QED
      BY <2>1, <3>1
  <2>2. CASE e # c
    BY <1>2, <2>2, OthersUndisturbed
  <2> QED
    BY <2>1, <2>2
<1> QED
  BY <1>3, <1>4, <1>5 DEF QueueInv

\* A validation: each event is refused, or the first of its id is to be written.
LEMMA ValidateKeepsInv ==
    ASSUME QueueInv, NEW c \in Calls, Validate(c)
    PROVE  QueueInv'
<1> DEFINE batch    == call[c].batch
           rejected == Rejected(batch, now)
           toWrite  == FirstOfEach(batch, now)
           repeats  == Len(batch) - Cardinality(rejected) - Cardinality(toWrite)
           rec      == [call[c] EXCEPT !.phase = "insert", !.toWrite = toWrite,
                                       !.rejected = rejected, !.duplicates = repeats]
<1>1. /\ call' = [call EXCEPT ![c].phase = "insert", ![c].toWrite = toWrite,
                              ![c].rejected = rejected, ![c].duplicates = repeats]
      /\ refused' = refused \union {batch[i] : i \in rejected}
      /\ call[c].phase = "received"
      /\ UNCHANGED <<now, recorded, queue, waiting, log, faults>>
  BY DEF Validate
<1>2. call \in [Calls -> CallRecord] /\ call[c] \in CallRecord
  BY DEF QueueInv, QueueTypeOK
<1>3. batch \in Seq(Acts) /\ Len(batch) \in Nat
  BY <1>2 DEF CallRecord
<1>4. /\ rejected \subseteq DOMAIN batch /\ toWrite \subseteq DOMAIN batch
      /\ DOMAIN batch \subseteq Nat /\ IsFiniteSet(toWrite)
      /\ Cardinality(rejected) \in Nat /\ Cardinality(toWrite) \in Nat
  BY <1>3, PlacesOfBatch
<1>5. \A i \in DOMAIN batch : i \notin rejected =>
        \E j \in toWrite : batch[j].id = batch[i].id
  BY <1>3, FirstOfEachCovers
<1> HIDE DEF rejected, toWrite
<1>6. repeats \in Int
  BY <1>3, <1>4
<1>7. call[c].accepted = 0
  BY <1>1 DEF QueueInv, Tallied
<1>8. call' = [call EXCEPT ![c] = rec]
  <2> HIDE DEF repeats
  <2> QED
    BY <1>1, <1>2
<1>9. /\ rec \in CallRecord /\ rec.phase = "insert" /\ rec.batch = batch
      /\ rec.toWrite = toWrite /\ rec.rejected = rejected /\ rec.duplicates = repeats
      /\ rec.accepted = 0
  <2> HIDE DEF repeats
  <2> QED
    BY <1>2, <1>4, <1>6, <1>7 DEF CallRecord
<1>10. call'[c] = rec
  BY <1>2, <1>8
<1> HIDE DEF rec
<1>11. refused' \subseteq Acts
  BY <1>1, <1>3, <1>4 DEF QueueInv, QueueTypeOK
<1>12. Settled(c)'
  <2>1. ASSUME NEW i \in DOMAIN batch
        PROVE  Accounted(c, i)'
    <3>1. call'[c].batch = batch /\ call'[c].toWrite = toWrite
      BY <1>9, <1>10
    <3>2. CASE i \in rejected
      <4>1. batch[i] \in refused'
        BY <1>1, <3>2
      <4> QED
        BY <3>1, <4>1 DEF Accounted
    <3>3. CASE i \notin rejected
      <4>1. \E j \in toWrite : batch[j].id = batch[i].id
        BY <1>5, <3>3
      <4> HIDE DEF batch
      <4> QED
        BY <3>1, <4>1 DEF Accounted
    <3> QED
      BY <3>2, <3>3
  <2> QED
    BY <1>4, <1>9, <1>10, <2>1 DEF Settled
<1>13. Tallied(c)'
  <2>1. rec.accepted + rec.duplicates + Cardinality(rec.rejected)
          = Len(rec.batch) - Cardinality(rec.toWrite)
    BY <1>3, <1>4, <1>9
  <2> QED
    BY <1>4, <1>9, <1>10, <2>1 DEF Tallied
<1> QED
  <2>1. /\ log \subseteq log' /\ log' \subseteq Acts
        /\ refused \subseteq refused' /\ faults' \in 0 .. MaxFaults
    BY <1>1 DEF QueueInv, QueueTypeOK
  <2> QED
    BY <1>1, <1>8, <1>9, <1>11, <1>12, <1>13, <2>1, CallKeepsInv

\* A call that dies: what it carries is still in the queue it came from.
LEMMA DieKeepsInv ==
    ASSUME QueueInv, NEW c \in Calls, Die(c)
    PROVE  QueueInv'
<1> DEFINE rec == [call[c] EXCEPT !.phase = "failed"]
<1>1. /\ call' = [call EXCEPT ![c].phase = "failed"]
      /\ UNCHANGED <<now, recorded, queue, waiting, log, refused>>
  BY DEF Die
<1>2. faults' \in 0 .. MaxFaults
  BY QueueAssumption DEF Die, QueueInv, QueueTypeOK, QueueAssumption
<1>3. call \in [Calls -> CallRecord] /\ call[c] \in CallRecord
  BY DEF QueueInv, QueueTypeOK
<1>4. rec \in CallRecord /\ rec.phase = "failed" /\ rec.batch = call[c].batch
  BY <1>3 DEF CallRecord
<1>5. call' = [call EXCEPT ![c] = rec] /\ call'[c] = rec
  BY <1>1, <1>3
<1>6. Settled(c)' /\ Tallied(c)'
  BY <1>4, <1>5 DEF Settled, Tallied
<1>7. log' \subseteq Acts /\ refused' \subseteq Acts
  BY <1>1 DEF QueueInv, QueueTypeOK
<1> QED
  BY <1>1, <1>2, <1>4, <1>5, <1>6, <1>7, CallKeepsInv

\* An insert of the first event left: stored, or found stored already.
LEMMA InsertKeepsInv ==
    ASSUME QueueInv, NEW c \in Calls, Insert(c)
    PROVE  QueueInv'
<1>1. PICK i \in call[c].toWrite : InsertEvent(c, i)
  BY DEF Insert
<1> DEFINE batch  == call[c].batch
           event  == batch[i]
           left   == call[c].toWrite \ {i}
           new    == [call[c] EXCEPT !.toWrite = left, !.accepted = @ + 1]
           double == [call[c] EXCEPT !.toWrite = left, !.duplicates = @ + 1]
<1>2. /\ call[c].phase = "insert"
      /\ UNCHANGED <<now, recorded, queue, waiting, refused, faults>>
  BY DEF Insert
<1>3. call \in [Calls -> CallRecord] /\ call[c] \in CallRecord
  BY DEF QueueInv, QueueTypeOK
<1>4. /\ batch \in Seq(Acts) /\ Len(batch) \in Nat
      /\ call[c].accepted \in Int /\ call[c].duplicates \in Int
      /\ call[c].toWrite \subseteq Nat
  BY <1>3 DEF CallRecord
<1>5. /\ call[c].toWrite \subseteq DOMAIN batch
      /\ IsFiniteSet(call[c].toWrite) /\ Cardinality(call[c].rejected) \in Nat
      /\ call[c].accepted + call[c].duplicates + Cardinality(call[c].rejected)
           = Len(batch) - Cardinality(call[c].toWrite)
  BY <1>2 DEF QueueInv, Settled, Tallied
<1>6. event \in Acts
  BY <1>4, <1>5
<1>7. /\ IsFiniteSet(left) /\ Cardinality(left) = Cardinality(call[c].toWrite) - 1
      /\ Cardinality(call[c].toWrite) \in Nat
  BY <1>5, FS_RemoveElement, FS_CardinalityType
<1>8. /\ new \in CallRecord /\ new.phase = "insert" /\ new.batch = batch
      /\ new.toWrite = left /\ new.rejected = call[c].rejected
      /\ new.accepted = call[c].accepted + 1 /\ new.duplicates = call[c].duplicates
  <2>1. left \in SUBSET Nat /\ call[c].accepted + 1 \in Int
    BY <1>4
  <2> HIDE DEF left
  <2> QED
    BY <1>2, <1>3, <2>1 DEF CallRecord
<1>9. /\ double \in CallRecord /\ double.phase = "insert" /\ double.batch = batch
      /\ double.toWrite = left /\ double.rejected = call[c].rejected
      /\ double.accepted = call[c].accepted /\ double.duplicates = call[c].duplicates + 1
  <2>1. left \in SUBSET Nat /\ call[c].duplicates + 1 \in Int
    BY <1>4
  <2> HIDE DEF left
  <2> QED
    BY <1>2, <1>3, <2>1 DEF CallRecord
<1>10. \/ call' = [call EXCEPT ![c] = new] /\ log' = log \union {event}
       \/ call' = [call EXCEPT ![c] = double] /\ log' = log /\ Stored(event.id)
  BY <1>1, <1>3 DEF InsertEvent
<1> HIDE DEF new, double, left
<1>11. ASSUME NEW rec \in {new, double}, call' = [call EXCEPT ![c] = rec],
              log \subseteq log', log' \subseteq Acts, \E e \in log' : e.id = event.id
       PROVE  QueueInv'
  <2>1. /\ rec \in CallRecord /\ rec.phase = "insert" /\ rec.batch = batch
        /\ rec.toWrite = left /\ rec.rejected = call[c].rejected
        /\ rec.accepted + rec.duplicates + Cardinality(rec.rejected)
             = Len(batch) - Cardinality(left)
    <3> DEFINE a == call[c].accepted
               b == call[c].duplicates
               n == Cardinality(call[c].rejected)
               m == Len(batch)
               t == Cardinality(call[c].toWrite)
    <3>0. a \in Int /\ b \in Int /\ n \in Nat /\ m \in Nat /\ t \in Nat /\ a + b + n = m - t
      BY <1>4, <1>5, <1>7
    <3> HIDE DEF a, b, n, m, t
    <3>3. (a + 1) + b + n = m - (t - 1) /\ a + (b + 1) + n = m - (t - 1)
      BY <3>0
    <3> USE DEF a, b, n, m, t
    <3>1. CASE rec = new
      <4>1. (call[c].accepted + 1) + call[c].duplicates + Cardinality(call[c].rejected)
              = Len(batch) - (Cardinality(call[c].toWrite) - 1)
        BY <3>3
      <4>2. rec.accepted + rec.duplicates + Cardinality(rec.rejected)
              = Len(batch) - Cardinality(left)
        BY <1>7, <1>8, <3>1, <4>1, Zenon
      <4> QED
        BY <1>8, <3>1, <4>2, Zenon
    <3>2. CASE rec = double
      <4>1. call[c].accepted + (call[c].duplicates + 1) + Cardinality(call[c].rejected)
              = Len(batch) - (Cardinality(call[c].toWrite) - 1)
        BY <3>3
      <4>2. rec.accepted + rec.duplicates + Cardinality(rec.rejected)
              = Len(batch) - Cardinality(left)
        BY <1>7, <1>9, <3>2, <4>1, Zenon
      <4> QED
        BY <1>9, <3>2, <4>2, Zenon
    <3> QED
      BY <1>11, <3>1, <3>2
  <2>2. call'[c] = rec
    BY <1>3, <1>11
  <2>3. ASSUME NEW k \in DOMAIN batch
        PROVE  Accounted(c, k)'
    <3>1. call'[c].batch = batch /\ call'[c].toWrite = left
      BY <2>1, <2>2
    <3>2. CASE batch[k] \in refused
      BY <1>2, <3>1, <3>2 DEF Accounted
    <3>3. CASE Stored(batch[k].id)
      <4>1. \E e \in log' : e.id = batch[k].id
        BY <1>11, <3>3 DEF Stored
      <4> QED
        BY <3>1, <4>1 DEF Accounted, Stored
    <3>4. CASE \E j \in call[c].toWrite : batch[j].id = batch[k].id
      <4>1. PICK j \in call[c].toWrite : batch[j].id = batch[k].id
        BY <3>4
      <4>2. CASE j = i
        BY <1>11, <3>1, <4>1, <4>2 DEF Accounted, Stored
      <4>3. CASE j # i
        <5>1. j \in left
          BY <4>1, <4>3 DEF left
        <5> QED
          BY <3>1, <4>1, <5>1 DEF Accounted
      <4> QED
        BY <4>2, <4>3
    <3>5. Accounted(c, k)
      BY <1>2 DEF QueueInv, Settled
    <3> QED
      BY <3>2, <3>3, <3>4, <3>5 DEF Accounted
  <2>4. Settled(c)'
    <3>1. left \subseteq DOMAIN batch
      BY <1>5 DEF left
    <3> QED
      BY <2>1, <2>2, <2>3, <3>1 DEF Settled
  <2>5. Tallied(c)'
    BY <1>5, <1>7, <2>1, <2>2 DEF Tallied
  <2>6. faults' \in 0 .. MaxFaults /\ refused' \subseteq Acts /\ refused \subseteq refused'
    BY <1>2 DEF QueueInv, QueueTypeOK
  <2> QED
    BY <1>2, <1>11, <2>1, <2>4, <2>5, <2>6, CallKeepsInv
<1>12. log \subseteq log' /\ log' \subseteq Acts /\ \E e \in log' : e.id = event.id
  BY <1>6, <1>10 DEF QueueInv, QueueTypeOK, Stored
<1> QED
  BY <1>10, <1>11, <1>12

\* What is left of a queue without its first rows.
LEMMA WithoutFront ==
    ASSUME NEW rows \in Seq(Acts), NEW n \in Nat, n <= Len(rows)
    PROVE  LET rest == SubSeq(rows, n + 1, Len(rows))
           IN  /\ rest \in Seq(Acts) /\ Rows(rest) \subseteq Rows(rows)
               /\ \A k \in DOMAIN rows : k <= n \/ rows[k] \in Rows(rest)
<1> DEFINE rest == SubSeq(rows, n + 1, Len(rows))
<1>1. /\ Len(rows) \in Nat /\ DOMAIN rows = 1 .. Len(rows)
      /\ n + 1 \in 1 .. (Len(rows) + 1) /\ Len(rows) \in n .. Len(rows)
  OBVIOUS
<1>2. /\ rest \in Seq(Acts) /\ Len(rest) = Len(rows) - n
      /\ \A k \in 1 .. (Len(rows) - n) : rest[k] = rows[n + k]
  <2>1. n + 1 \in Int /\ Len(rows) \in Int /\ \A k \in (n + 1) .. Len(rows) : rows[k] \in Acts
    BY <1>1
  <2>2. /\ rest \in Seq(Acts)
        /\ Len(rest) = IF n + 1 <= Len(rows) THEN Len(rows) - (n + 1) + 1 ELSE 0
        /\ \A k \in 1 .. Len(rows) - (n + 1) + 1 : rest[k] = rows[(n + 1) + k - 1]
    BY <2>1, SubSeqProperties
  <2> HIDE DEF rest
  <2>3. Len(rows) - (n + 1) + 1 = Len(rows) - n
    BY <1>1
  <2>4. ASSUME NEW k \in 1 .. (Len(rows) - n)
        PROVE  rest[k] = rows[n + k]
    <3>1. (n + 1) + k - 1 = n + k
      OBVIOUS
    <3> QED
      BY <2>2, <2>3, <3>1, Zenon
  <2>5. Len(rest) = Len(rows) - n
    <3>1. CASE n + 1 <= Len(rows)
      BY <2>2, <2>3, <3>1, Zenon
    <3>2. CASE ~ (n + 1 <= Len(rows))
      <4>1. Len(rows) - n = 0
        <5>1. \A m \in Nat : n <= m /\ ~ (n + 1 <= m) => m - n = 0
          OBVIOUS
        <5> QED
          BY <1>1, <3>2, <5>1, Zenon
      <4> QED
        BY <2>2, <3>2, <4>1, Zenon
    <3> QED
      BY <3>1, <3>2
  <2> QED
    BY <2>2, <2>4, <2>5
<1>3. DOMAIN rest = 1 .. (Len(rows) - n)
  BY <1>2
<1> HIDE DEF rest
<1>4. ASSUME NEW k \in DOMAIN rest
      PROVE  rest[k] \in Rows(rows)
  <2>1. n + k \in DOMAIN rows /\ rest[k] = rows[n + k]
    BY <1>1, <1>2, <1>3
  <2> QED
    BY <2>1 DEF Rows
<1>5. ASSUME NEW k \in DOMAIN rows, ~ (k <= n)
      PROVE  rows[k] \in Rows(rest)
  <2>1. k - n \in DOMAIN rest /\ rest[k - n] = rows[k]
    BY <1>1, <1>2, <1>3, <1>5
  <2> QED
    BY <2>1 DEF Rows
<1>6. Rows(rest) \subseteq Rows(rows)
  BY <1>4 DEF Rows
<1> QED
  BY <1>2, <1>5, <1>6 DEF rest

\* An answer: a 200 drops the batch from the queue that awaits it, every event
\* of it being stored or refused by then.
LEMMA ReplyKeepsInv ==
    ASSUME QueueInv, NEW c \in Calls, Reply(c)
    PROVE  QueueInv'
<1> DEFINE batch   == call[c].batch
           rest(d) == SubSeq(queue[d], Len(batch) + 1, Len(queue[d]))
<1>1. /\ UNCHANGED <<recorded, log, refused, faults>>
      /\ call' = [call EXCEPT ![c] = NoCall]
      /\ waiting' = [d \in Devices |-> IF waiting[d] = c THEN None ELSE waiting[d]]
      /\ queue' = [d \in Devices |->
            IF waiting[d] = c /\ call[c].phase = "insert" THEN rest(d) ELSE queue[d]]
      /\ call[c].phase = "insert" => call[c].toWrite = {}
  BY DEF Reply, Answered
<1>2. /\ queue \in [Devices -> Seq(Acts)]
      /\ waiting \in [Devices -> Calls \union {None}]
      /\ call \in [Calls -> CallRecord] /\ batch \in Seq(Acts)
  BY DEF QueueInv, QueueTypeOK, CallRecord
<1>3. ASSUME NEW d \in Devices
      PROVE  /\ queue'[d] \in Seq(Acts) /\ Rows(queue'[d]) \subseteq Rows(queue[d])
             /\ waiting[d] # c => queue'[d] = queue[d]
             /\ \A act \in Rows(queue[d]) :
                    act \in Rows(queue'[d]) \/ Stored(act.id) \/ act \in refused
  <2>1. CASE waiting[d] = c /\ call[c].phase = "insert"
    <3>1. queue'[d] = rest(d) /\ queue[d] \in Seq(Acts) /\ Len(batch) \in Nat
      BY <1>1, <1>2, <2>1
    <3>2. waiting[d] # None
      BY <2>1, QueueAssumption
    <3>3. Len(batch) <= Len(queue[d]) /\ \A k \in DOMAIN batch : batch[k] = queue[d][k]
      BY <2>1, <3>2 DEF QueueInv, QueueTypeOK, IsFront
    <3>4. /\ rest(d) \in Seq(Acts) /\ Rows(rest(d)) \subseteq Rows(queue[d])
          /\ \A k \in DOMAIN queue[d] : k <= Len(batch) \/ queue[d][k] \in Rows(rest(d))
      BY <3>1, <3>3, WithoutFront
    <3>5. ASSUME NEW act \in Rows(queue[d])
          PROVE  act \in Rows(queue'[d]) \/ Stored(act.id) \/ act \in refused
      <4>1. PICK k \in DOMAIN queue[d] : act = queue[d][k]
        BY DEF Rows
      <4>2. CASE k <= Len(batch)
        <5>1. k \in DOMAIN batch
          BY <1>2, <3>1, <4>2
        <5>2. Accounted(c, k) /\ call[c].toWrite = {}
          BY <1>1, <2>1, <5>1 DEF QueueInv, Settled
        <5>3. batch[k] = act
          BY <3>3, <4>1, <5>1
        <5> QED
          BY <5>2, <5>3 DEF Accounted
      <4>3. CASE ~ (k <= Len(batch))
        BY <3>1, <3>4, <4>1, <4>3
      <4> QED
        BY <4>2, <4>3
    <3> QED
      BY <2>1, <3>1, <3>4, <3>5
  <2>2. CASE ~ (waiting[d] = c /\ call[c].phase = "insert")
    <3>1. queue'[d] = queue[d]
      BY <1>1, <2>2
    <3> QED
      BY <1>2, <3>1
  <2> QED
    BY <2>1, <2>2
<1>4. /\ call' \in [Calls -> CallRecord] /\ call'[c] = NoCall /\ NoCall.batch = <<>>
      /\ \A e \in Calls : e # c => call'[e] = call[e]
  BY <1>1, <1>2, IdleCall
<1>5. QueueTypeOK'
  <2>1. queue' \in [Devices -> Seq(Acts)] /\ waiting' \in [Devices -> Calls \union {None}]
    BY <1>1, <1>2, <1>3
  <2>2. ASSUME NEW d \in Devices
        PROVE  Rows(queue'[d]) \subseteq recorded'
    BY <1>1, <1>3 DEF QueueInv, QueueTypeOK
  <2>3. ASSUME NEW d \in Devices, waiting'[d] # None
        PROVE  call'[waiting'[d]].phase # "idle" /\ IsFront(call'[waiting'[d]].batch, queue'[d])
    <3>1. waiting[d] # c /\ waiting'[d] = waiting[d] /\ waiting[d] \in Calls
      BY <1>1, <1>2, <2>3
    <3>2. call'[waiting'[d]] = call[waiting[d]] /\ queue'[d] = queue[d]
      BY <1>3, <1>4, <3>1
    <3>3. call[waiting[d]].phase # "idle" /\ IsFront(call[waiting[d]].batch, queue[d])
      BY <2>3, <3>1 DEF QueueInv, QueueTypeOK
    <3> QED
      BY <3>2, <3>3
  <2>4. ASSUME NEW e \in Calls
        PROVE  Len(call'[e].batch) <= MaxBatch
    <3>1. CASE e = c
      <4>1. Len(<<>>) <= MaxBatch
        BY QueueAssumption
      <4> QED
        BY <1>4, <3>1, <4>1
    <3>2. CASE e # c
      BY <1>4, <3>2 DEF QueueInv, QueueTypeOK
    <3> QED
      BY <3>1, <3>2
  <2> QED
    BY <1>1, <1>4, <2>1, <2>2, <2>3, <2>4 DEF QueueInv, QueueTypeOK
<1>6. NothingLost'
  <2>1. ASSUME NEW act \in recorded
        PROVE  \/ \E d \in Devices : act \in Rows(queue'[d])
               \/ Stored(act.id) \/ act \in refused
    BY <1>3 DEF QueueInv, NothingLost
  <2> QED
    BY <1>1, <2>1 DEF NothingLost, Stored
<1>7. ASSUME NEW e \in Calls
      PROVE  (Sourced(e) /\ Settled(e) /\ Tallied(e))'
  <2>1. CASE e = c
    <3>1. NoCall.phase = "idle" /\ Rows(NoCall.batch) = {}
      BY IdleCall DEF Rows
    <3> QED
      BY <1>4, <2>1, <3>1 DEF Sourced, Settled, Tallied
  <2>2. CASE e # c
    BY <1>1, <1>4, <2>2, OthersUndisturbed
  <2> QED
    BY <2>1, <2>2
<1> QED
  BY <1>5, <1>6, <1>7 DEF QueueInv

-----------------------------------------------------------------------------
(* The theorems                                                             *)

\* The invariant holds at the start.
LEMMA InitHasInv == QueueInit => QueueInv
<1> SUFFICES ASSUME QueueInit PROVE QueueInv
  OBVIOUS
<1>1. \A d \in Devices : queue[d] = <<>> /\ Rows(queue[d]) = {} /\ waiting[d] = None
  BY DEF QueueInit, Rows
<1>2. \A c \in Calls : call[c] = NoCall
  BY DEF QueueInit
<1>3. queue \in [Devices -> Seq(Acts)]
  <2>1. <<>> \in Seq(Acts)
    OBVIOUS
  <2> QED
    BY <2>1 DEF QueueInit
<1>4. \A c \in Calls : Len(call[c].batch) <= MaxBatch
  <2>1. Len(<<>>) <= MaxBatch
    BY QueueAssumption
  <2> QED
    BY <1>2, <2>1, IdleCall
<1>5. faults \in 0 .. MaxFaults
  BY QueueAssumption DEF QueueInit
<1>6. QueueTypeOK
  BY <1>1, <1>2, <1>3, <1>4, <1>5, IdleCall DEF QueueInit, QueueTypeOK
<1>7. NothingLost
  BY DEF QueueInit, NothingLost
<1>8. ASSUME NEW c \in Calls
      PROVE  Sourced(c) /\ Settled(c) /\ Tallied(c)
  BY <1>2, IdleCall DEF Sourced, Settled, Tallied, Rows
<1> QED
  BY <1>6, <1>7, <1>8 DEF QueueInv

\* Every step keeps it.
LEMMA StepKeepsInv == QueueInv /\ [QueueNext]_queueVars => QueueInv'
<1> SUFFICES ASSUME QueueInv, [QueueNext]_queueVars PROVE QueueInv'
  OBVIOUS
<1>1. faults \in 0 .. MaxFaults /\ faults \in Nat
  BY QueueAssumption DEF QueueInv, QueueTypeOK
<1>2. CASE QueueTick
  BY <1>1, <1>2, UnheardKeepsInv DEF QueueTick
<1>3. ASSUME NEW d \in Devices, NEW act \in Acts, RecordAct(d, act)
      PROVE  QueueInv'
  BY <1>3, RecordKeepsInv
<1>4. ASSUME NEW d \in Devices, NEW c \in Calls, Upload(d, c)
      PROVE  QueueInv'
  BY <1>4, UploadKeepsInv
<1>5. ASSUME NEW d \in Devices, GiveUp(d)
      PROVE  QueueInv'
  <2>1. faults' \in 0 .. MaxFaults
    BY <1>1, <1>5, QueueAssumption DEF GiveUp
  <2> QED
    BY <1>5, <2>1, UnheardKeepsInv DEF GiveUp
<1>6. ASSUME NEW c \in Calls, CallStep(c) \/ Die(c)
      PROVE  QueueInv'
  BY <1>6, ValidateKeepsInv, InsertKeepsInv, ReplyKeepsInv, DieKeepsInv DEF CallStep
<1>7. CASE UNCHANGED queueVars
  BY <1>1, <1>7, UnheardKeepsInv DEF queueVars
<1> QED
  BY <1>2, <1>3, <1>4, <1>5, <1>6, <1>7 DEF QueueNext

\* The invariant holds in every reachable state.
THEOREM QueueInvariance == QueueSpec => []QueueInv
<1> QED
  BY InitHasInv, StepKeepsInv, PTL DEF QueueSpec

\* The types are right, and the batch a device awaits an answer for is still the
\* front of its queue (contract: the batch is deleted on a 200 and on nothing else).
THEOREM QueueTypeCorrect == QueueSpec => []QueueTypeOK
<1>1. QueueInv => QueueTypeOK
  BY DEF QueueInv
<1> QED
  BY <1>1, QueueInvariance, PTL

\* No recorded act is lost on the way: it is in a queue, or an event of its id is
\* in the log, or the server refused it.
THEOREM NothingIsLost == QueueSpec => []NothingLost
<1>1. QueueInv => NothingLost
  BY DEF QueueInv
<1> QED
  BY <1>1, QueueInvariance, PTL

\* A 200 of POST /events accounts for each event sent, exactly once.
THEOREM CountsAlwaysAddUp == QueueSpec => []CountsAddUp
<1>1. ASSUME QueueInv
      PROVE  CountsAddUp
  <2>1. SUFFICES ASSUME NEW c \in Calls, call[c].phase = "insert", call[c].toWrite = {}
                 PROVE  call[c].accepted + call[c].duplicates + Cardinality(call[c].rejected)
                          = Len(call[c].batch)
    BY DEF CountsAddUp, Answered
  <2>2. Cardinality(call[c].toWrite) = 0
    BY <2>1, FS_EmptySet
  <2>3. Len(call[c].batch) \in Nat
    BY <1>1 DEF QueueInv, QueueTypeOK, CallRecord
  <2>4. Tallied(c)
    BY <1>1 DEF QueueInv
  <2>5. Len(call[c].batch) - 0 = Len(call[c].batch)
    BY <2>3
  <2> QED
    BY <2>1, <2>2, <2>4, <2>5, Zenon DEF Tallied
<1> QED
  BY <1>1, QueueInvariance, PTL

\* The protocol implements the log it promises: whatever is lost, repeated or cut
\* short, the log takes each recorded act at most once, by id, and changes nothing.
THEOREM QueueKeepsPromise == QueueSpec => KeepsPromise
<1>1. QueueInit => Promise!ActLogInit
  BY DEF QueueInit, Promise!ActLogInit
<1>2. ASSUME QueueInv, [QueueNext]_queueVars
      PROVE  [Promise!ActLogNext]_Promise!actLogVars
  <2>1. CASE UNCHANGED <<recorded, log>>
    BY <2>1 DEF Promise!actLogVars
  <2>2. ASSUME NEW d \in Devices, NEW act \in Acts, RecordAct(d, act)
        PROVE  Promise!ActLogNext
    BY <2>2 DEF RecordAct, Promise!ActLogNext, Promise!Record
  <2>3. ASSUME NEW c \in Calls, Insert(c)
        PROVE  UNCHANGED <<recorded, log>> \/ Promise!ActLogNext
    <3>1. PICK i \in call[c].toWrite : InsertEvent(c, i)
      BY <2>3 DEF Insert
    <3> DEFINE event == call[c].batch[i]
    <3>2. recorded' = recorded /\ call[c].phase = "insert"
      BY <2>3 DEF Insert
    <3>3. event \in recorded /\ recorded \subseteq Acts
      BY <1>2, <3>2 DEF QueueInv, QueueTypeOK, Settled, Sourced, Rows
    <3>4. CASE ~ Stored(event.id)
      <4>1. log' = log \union {event} /\ \A stored \in log : stored.id # event.id
        BY <3>1, <3>4 DEF InsertEvent, Stored
      <4>2. Promise!Store(event)
        BY <3>2, <3>3, <4>1 DEF Promise!Store
      <4> QED
        BY <3>3, <4>2 DEF Promise!ActLogNext
    <3>5. CASE Stored(event.id)
      BY <3>1, <3>2, <3>5 DEF InsertEvent
    <3> QED
      BY <3>4, <3>5
  <2> QED
    BY <1>2, <2>1, <2>2, <2>3 DEF QueueNext, queueVars, QueueTick, Upload, GiveUp,
       CallStep, Validate, Reply, Die
<1> QED
  BY <1>1, <1>2, QueueInvariance, PTL DEF QueueSpec, KeepsPromise, Promise!ActLogSpec

=============================================================================

---------------------------- MODULE IngestQueue ----------------------------
(***************************************************************************)
(* POST /events of activity.service.ts, and the offline queues that call   *)
(* it, for one user: devices upload batches over a network that loses      *)
(* answers, give up on calls that are still running, and send a batch      *)
(* again; the handler validates a whole batch against one instant, then    *)
(* inserts its events one by one outside any transaction, and may die      *)
(* between two of them.                                                    *)
(*                                                                         *)
(* call[c] is one POST: `at' the instant its batch is judged at, `toWrite' *)
(* the places of its events not inserted yet.  waiting[d] is the call a device  *)
(* awaits.  The devices follow the queue rules of the contract.            *)
(***************************************************************************)
EXTENDS IngestRules

CONSTANTS
    Devices,
    Calls,          \* POSTs that can be under way at once
    Acts,           \* the raw events devices may record
    MaxBatch,       \* MAX_BATCH_SIZE
    LastTick,       \* bound: the instant the clock stops
    MaxFaults       \* bound: answers lost, calls abandoned, handlers killed

None == "none"

ASSUME QueueAssumption ==
    /\ None \notin Calls
    /\ MaxBatch \in Nat \ {0}
    /\ LastTick \in Nat
    /\ MaxFaults \in Nat

VARIABLES now, recorded, queue, waiting, call, log, refused, faults

queueVars == <<now, recorded, queue, waiting, call, log, refused, faults>>

NoCall == [phase |-> "idle", batch |-> <<>>, toWrite |-> {},
           accepted |-> 0, duplicates |-> 0, rejected |-> {}]

QueueInit ==
    /\ now = TicksPerDay
    /\ recorded = {}
    /\ queue = [d \in Devices |-> <<>>]
    /\ waiting = [d \in Devices |-> None]
    /\ call = [c \in Calls |-> NoCall]
    /\ log = {}
    /\ refused = {}
    /\ faults = 0

QueueTick ==
    /\ now < LastTick
    /\ now' = now + 1
    /\ UNCHANGED <<recorded, queue, waiting, call, log, refused, faults>>

-----------------------------------------------------------------------------
(* The devices                                                              *)

RecordAct(d, act) ==
    /\ act \notin recorded
    /\ recorded' = recorded \union {act}
    /\ queue' = [queue EXCEPT ![d] = Append(@, act)]
    /\ UNCHANGED <<now, waiting, call, log, refused, faults>>

\* Batches go out one at a time, from the front of the queue.
Upload(d, c) ==
    /\ waiting[d] = None /\ queue[d] # <<>>
    /\ call[c].phase = "idle"
    /\ call' = [call EXCEPT ![c] =
        [NoCall EXCEPT !.phase = "received",
            !.batch = SubSeq(queue[d], 1,
                IF Len(queue[d]) <= MaxBatch THEN Len(queue[d]) ELSE MaxBatch)]]
    /\ waiting' = [waiting EXCEPT ![d] = c]
    /\ UNCHANGED <<now, recorded, queue, log, refused, faults>>

\* The device hears nothing and keeps the batch.  The call may be running still.
GiveUp(d) ==
    /\ waiting[d] # None
    /\ faults < MaxFaults
    /\ faults' = faults + 1
    /\ waiting' = [waiting EXCEPT ![d] = None]
    /\ UNCHANGED <<now, recorded, queue, call, log, refused>>

-----------------------------------------------------------------------------
(* ActivityService.ingest                                                   *)

\* The places of a batch whose events are written: accepted, and the first
\* accepted one of its id.
FirstOfEach(batch, at) ==
    LET accepted == {i \in DOMAIN batch : Verdict(batch[i], at) = "accepted"}
    IN  {i \in accepted : \A j \in accepted : batch[j].id = batch[i].id => i <= j}

Rejected(batch, at) == {i \in DOMAIN batch : Verdict(batch[i], at) # "accepted"}

\* Faulty variant: one invalid event fails the batch.
Validate_AllOrNothing(c) ==
    /\ call[c].phase = "received"
    /\ LET batch    == call[c].batch
           rejected == Rejected(batch, now)
           toWrite  == IF rejected = {} THEN FirstOfEach(batch, now) ELSE {}
       IN  /\ call' = [call EXCEPT ![c].phase = IF rejected = {} THEN "insert" ELSE "failed",
                                   ![c].toWrite = toWrite, ![c].rejected = rejected,
                                   ![c].duplicates = Len(batch) - Cardinality(toWrite)]
           /\ refused' = refused \union {batch[i] : i \in rejected}
    /\ UNCHANGED <<now, recorded, queue, waiting, log, faults>>

\* Faulty variant: a repeated id in a batch is not counted.
Validate_SilentRepeats(c) ==
    /\ call[c].phase = "received"
    /\ LET batch    == call[c].batch
           rejected == Rejected(batch, now)
       IN  /\ call' = [call EXCEPT ![c].phase = "insert",
                                   ![c].toWrite = FirstOfEach(batch, now),
                                   ![c].rejected = rejected]
           /\ refused' = refused \union {batch[i] : i \in rejected}
    /\ UNCHANGED <<now, recorded, queue, waiting, log, faults>>

\* One instant judges the batch; a repeated id is a duplicate at once.
\* `refused' remembers the rejected events.
Validate(c) ==
    /\ call[c].phase = "received"
    /\ LET batch    == call[c].batch
           rejected == Rejected(batch, now)
           toWrite  == FirstOfEach(batch, now)
       IN  /\ call' = [call EXCEPT
                ![c].phase = "insert", ![c].toWrite = toWrite, ![c].rejected = rejected,
                ![c].duplicates = Len(batch) - Cardinality(rejected) - Cardinality(toWrite)]
           /\ refused' = refused \union {batch[i] : i \in rejected}
    /\ UNCHANGED <<now, recorded, queue, waiting, log, faults>>

Stored(id) == \E event \in log : event.id = id

\* Faulty variant: a replayed id overwrites the stored event.
InsertEvent_Overwrites(c, i) ==
    LET event == call[c].batch[i]
    IN  /\ log' = {other \in log : other.id # event.id} \union {event}
        /\ call' = [call EXCEPT ![c].toWrite = @ \ {i},
                ![c].accepted = IF Stored(event.id) THEN @ ELSE @ + 1,
                ![c].duplicates = IF Stored(event.id) THEN @ + 1 ELSE @]

\* create; a P2002 on (userId, clientEventId) is a duplicate.
InsertEvent(c, i) ==
    LET event == call[c].batch[i]
    IN  \/ /\ ~ Stored(event.id)
           /\ log' = log \union {event}
           /\ call' = [call EXCEPT ![c].toWrite = @ \ {i}, ![c].accepted = @ + 1]
        \/ /\ Stored(event.id)
           /\ log' = log
           /\ call' = [call EXCEPT ![c].toWrite = @ \ {i}, ![c].duplicates = @ + 1]

Insert(c) ==
    /\ call[c].phase = "insert"
    /\ \E i \in call[c].toWrite :
        /\ \A j \in call[c].toWrite : i <= j
        /\ InsertEvent(c, i)
    /\ UNCHANGED <<now, recorded, queue, waiting, refused, faults>>

\* Another database error escapes, or the function is killed: what was
\* inserted stays.
Die(c) ==
    /\ call[c].phase \in {"received", "insert"}
    /\ faults < MaxFaults
    /\ faults' = faults + 1
    /\ call' = [call EXCEPT ![c].phase = "failed"]
    /\ UNCHANGED <<now, recorded, queue, waiting, log, refused>>

Answered(c) == call[c].phase = "failed" \/ (call[c].phase = "insert" /\ call[c].toWrite = {})

\* Faulty variant: the device drops the batch whatever the answer.
Reply_DropsOnFailure(c) ==
    /\ Answered(c)
    /\ queue' = [d \in Devices |->
        IF waiting[d] = c
        THEN SubSeq(queue[d], Len(call[c].batch) + 1, Len(queue[d])) ELSE queue[d]]
    /\ waiting' = [d \in Devices |-> IF waiting[d] = c THEN None ELSE waiting[d]]
    /\ call' = [call EXCEPT ![c] = NoCall]
    /\ UNCHANGED <<now, recorded, log, refused, faults>>

\* The answer reaches the device that still awaits it, if there is one: a 200
\* deletes the batch from the queue, a 500 keeps it.
Reply(c) ==
    /\ Answered(c)
    /\ queue' = [d \in Devices |->
        IF waiting[d] = c /\ call[c].phase = "insert"
        THEN SubSeq(queue[d], Len(call[c].batch) + 1, Len(queue[d])) ELSE queue[d]]
    /\ waiting' = [d \in Devices |-> IF waiting[d] = c THEN None ELSE waiting[d]]
    /\ call' = [call EXCEPT ![c] = NoCall]
    /\ UNCHANGED <<now, recorded, log, refused, faults>>

CallStep(c) == Validate(c) \/ Insert(c) \/ Reply(c)

QueueNext ==
    \/ QueueTick
    \/ \E d \in Devices :
        \/ \E act \in Acts : RecordAct(d, act)
        \/ \E c \in Calls : Upload(d, c)
        \/ GiveUp(d)
    \/ \E c \in Calls : CallStep(c) \/ Die(c)

QueueSpec == QueueInit /\ [][QueueNext]_queueVars

\* Handlers run on, and a device with a queue keeps sending it.
QueueFairness ==
    /\ \A c \in Calls : WF_queueVars(CallStep(c))
    /\ \A d \in Devices : WF_queueVars(\E c \in Calls : Upload(d, c))

FairQueueSpec == QueueSpec /\ QueueFairness

-----------------------------------------------------------------------------
Rows(s) == {s[i] : i \in DOMAIN s}

CallRecord ==
    [phase : {"idle", "received", "insert", "failed"}, batch : Seq(Acts), toWrite : SUBSET Nat,
     accepted : Int, duplicates : Int, rejected : SUBSET Nat]

\* A batch is the front of a queue.
IsFront(batch, rows) ==
    Len(batch) <= Len(rows) /\ \A i \in DOMAIN batch : batch[i] = rows[i]

\* Types, and that what a device awaits is a call that carries the front of its
\* queue.
QueueTypeOK ==
    /\ recorded \subseteq Acts /\ log \subseteq Acts /\ refused \subseteq Acts
    /\ queue \in [Devices -> Seq(Acts)]
    /\ waiting \in [Devices -> Calls \union {None}]
    /\ call \in [Calls -> CallRecord]
    /\ \A d \in Devices :
        /\ Rows(queue[d]) \subseteq recorded
        /\ waiting[d] # None =>
            /\ call[waiting[d]].phase # "idle"
            /\ IsFront(call[waiting[d]].batch, queue[d])
    /\ \A c \in Calls : Len(call[c].batch) <= MaxBatch
    /\ faults \in 0 .. MaxFaults

\* No recorded act is ever lost on the way, through whatever lost answers,
\* retries and half-written batches: it is still in its queue, or an event of
\* its id is stored, or the server refused it.
NothingLost ==
    \A act \in recorded :
        \/ \E d \in Devices : act \in Rows(queue[d])
        \/ Stored(act.id)
        \/ act \in refused

\* accepted + duplicates + rejected.length is the number of events sent.
CountsAddUp ==
    \A c \in Calls :
        Answered(c) /\ call[c].phase = "insert" =>
            call[c].accepted + call[c].duplicates + Cardinality(call[c].rejected)
                = Len(call[c].batch)

\* The log of this protocol behaves as the log that was promised: each act at
\* most once, by id, the first write wins, nothing is changed or removed.
Promise == INSTANCE ActLog WITH recorded <- recorded, log <- log
KeepsPromise == Promise!ActLogSpec

\* An invalid event is no poison pill: every queue empties, and in the end
\* each act is stored or has been refused.
QueuesDrain ==
    <>[](/\ \A d \in Devices : queue[d] = <<>>
         /\ \A act \in recorded : Stored(act.id) \/ act \in refused)

=============================================================================

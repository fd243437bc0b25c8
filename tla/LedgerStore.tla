---------------------------- MODULE LedgerStore ----------------------------
(***************************************************************************)
(* The write path of the RocksDB storage: the write queue and its worker   *)
(* thread (write_queue.rs), the managed ledgers it appends to (ledger.rs,  *)
(* factory.rs), the ledger-id allocator, and the entry-log files           *)
(* (entrylog.rs), with the threads that open ledgers and read meanwhile.   *)
(* The database writes a batch atomically and keeps what it wrote when the *)
(* process stops; a file keeps the bytes that were written to it.          *)
(***************************************************************************)
EXTENDS RangeSet, Sequences, FiniteSetsExt

CONSTANTS
    Topics,
    MaxEntriesPerLedger,  \* max_entries_per_ledger
    LogSizeLimit,         \* log_size_limit, in cells
    RecordCells,          \* cells of an entry's record: header and contents
    MaxBatch,             \* MAX_BATCH
    LogFaults,            \* a failed write may leave bytes in its file, or fail
                          \* while it switches files
    AllocatorRaces,       \* the allocator's read and write are not protected
    MaxRequests,          \* bound: publishes
    MaxFailures,          \* bound: failing storage calls
    MaxCrashes            \* bound: stops of the broker

ASSUME SizesAssumption ==
    {MaxEntriesPerLedger, LogSizeLimit, RecordCells, MaxBatch} \subseteq Nat \ {0}
ASSUME ModeAssumption == LogFaults \in BOOLEAN /\ AllocatorRaces \in BOOLEAN

VARIABLES
    (* what survives a stop *)
    nextId,    \* the stored ledger-id allocator
    infos,     \* stored ledger list of each topic, <<>> if there is none
    index,     \* stored location of each entry
    files,     \* contents of each entry-log file, by file id
    (* the entry-log writer *)
    log,       \* active_file_id, active_offset, and the id of the file it has open
    (* publishes *)
    reqs,      \* reqs[r]: topic of publish r, in order of submission
    answer,    \* what the publisher was told
    queue,     \* the channel to the worker
    (* ledgers in memory *)
    handles,   \* the cached ledger of each topic: its published info and LAC
    opening,   \* the open_with_config under way, behind the cache mutex
    (* the worker: the publishes of the current group that are not answered, those of
       the batch's other groups, and add_entries: the list it extends, the positions
       and locations it gives *)
    worker,
    (* a reader *)
    reader,
    failures, crashes

durable == <<nextId, infos, index, files>>
vars == <<durable, log, reqs, answer, queue, handles, opening, worker, reader,
          failures, crashes>>

NoPosition == <<>>
Closed == [info |-> <<>>, lac |-> NoPosition]
NotOpening == [pc |-> "none", topic |-> "none", got |-> 0]
IdleWorker == [pc |-> "recv", topic |-> "none", group |-> {}, rest |-> {},
               info |-> <<>>, placed |-> <<>>, located |-> <<>>, got |-> 0]
IdleReader == [topic |-> "none", lac |-> NoPosition]
Waiting == [is |-> "waiting", at |-> NoPosition]

----------------------------------------------------------------------------
(* Ledger lists and records. *)

NewLedger(id) == [id |-> id, entries |-> 0]

Entries(ls) ==
    UNION {{<<ls[i].id, e>> : e \in 0..(ls[i].entries - 1)} : i \in DOMAIN ls}

\* One more entry makes the ledger full.
Fills(ls) == ls[Len(ls)].entries + 1 >= MaxEntriesPerLedger

IsFull(ls) == ls[Len(ls)].entries >= MaxEntriesPerLedger

\* lac_from_info_and_db: the last entry, if its location is there.
LacOf(ls) ==
    LET last == {p \in Entries(ls) \cap DOMAIN index : \A q \in Entries(ls) : Leq(q, p)}
    IN  IF last = {} THEN NoPosition ELSE CHOOSE p \in last : TRUE

\* The k-th of the cells that publish r takes in a file as the entry at p.
Cell(r, p, k) == <<r, p, k>>

\* In the files fs the location leads to a whole record of publish r that carries
\* the position p.
HoldsRecord(fs, at, r, p) ==
    /\ at.file \in DOMAIN fs /\ at.offset + RecordCells <= Len(fs[at.file])
    /\ \A k \in 1..RecordCells : fs[at.file][at.offset + k] = Cell(r, p, k)

\* EntryLogStore::read finds publish r at p.
ReadsAs(p, r) == p \in DOMAIN index /\ HoldsRecord(files, index[p], r, p)

\* The function f, with the values of g where f has none.
Over(f, g) == [x \in DOMAIN f \cup DOMAIN g |-> IF x \in DOMAIN f THEN f[x] ELSE g[x]]

\* Mutant: a batch is worked off from its last publish to its first.
Lasts(batch) == {r \in batch : \A q \in batch : q <= r}

\* Publishes are numbered in the order of the channel, so that a batch or a group is
\* a set; its first publish.
Firsts(batch) == {r \in batch : \A q \in batch : r <= q}

\* The worker's next group of what is left of a batch: publishes of one topic go
\* together, topics in the order they appear in.
TurnsTo(batch) ==
    \/ batch = {} /\ worker' = IdleWorker
    \/ \E first \in Firsts(batch) :
          LET t == reqs[first]
          IN  worker' = [IdleWorker EXCEPT !.pc = "group", !.topic = t,
                            !.group = {r \in batch : reqs[r] = t},
                            !.rest = {r \in batch : reqs[r] # t}]

Topic == worker.topic

Init ==
    /\ nextId = 0 /\ infos = [t \in Topics |-> <<>>] /\ index = <<>>
    /\ files = [i \in {0} |-> <<>>] /\ log = [id |-> 0, offset |-> 0, open |-> 0]
    /\ reqs = <<>> /\ answer = <<>> /\ queue = <<>>
    /\ handles = [t \in Topics |-> Closed] /\ opening = NotOpening
    /\ worker = IdleWorker /\ reader = IdleReader
    /\ failures = 0 /\ crashes = 0

Fail == failures < MaxFailures /\ failures' = failures + 1

----------------------------------------------------------------------------
(* Opening a ledger: by the first thread that needs it, worker or reader. *)

AllocatorFree == opening.pc # "allocate" /\ worker.pc # "allocate"

\* The stored list is read and, if it has no ledger to append to, the allocator.
open_ledger(t) ==
    /\ handles[t] = Closed /\ opening = NotOpening
    /\ AllocatorRaces \/ AllocatorFree
    /\ opening' = [pc |-> IF infos[t] = <<>> \/ IsFull(infos[t]) THEN "allocate" ELSE "store",
                   topic |-> t, got |-> nextId]
    /\ UNCHANGED <<durable, log, reqs, answer, queue, handles, worker, reader,
                   failures, crashes>>

OpenAllocates ==
    /\ opening.pc = "allocate"
    /\ nextId' = opening.got + 1
    /\ opening' = [opening EXCEPT !.pc = "append"]
    /\ UNCHANGED <<infos, index, files, log, reqs, answer, queue, handles, worker,
                   reader, failures, crashes>>

\* The list is stored and the ledger enters the cache.
OpenStores ==
    LET t  == opening.topic
        ls == IF opening.pc = "append" THEN Append(infos[t], NewLedger(opening.got))
              ELSE infos[t]
    IN  /\ opening.pc \in {"append", "store"}
        /\ infos' = [infos EXCEPT ![t] = ls]
        /\ handles' = [handles EXCEPT ![t] = [info |-> ls, lac |-> LacOf(ls)]]
        /\ opening' = NotOpening
        /\ UNCHANGED <<nextId, index, files, log, reqs, answer, queue, worker, reader,
                       failures, crashes>>

\* Whoever was opening gets the error; if it was the worker, its group is refused.
OpenFails ==
    /\ opening # NotOpening /\ Fail
    /\ opening' = NotOpening
    /\ \/ UNCHANGED worker
       \/ /\ worker.pc = "group" /\ Topic = opening.topic
          /\ worker' = [worker EXCEPT !.pc = "refuse"]
    /\ UNCHANGED <<durable, log, reqs, answer, queue, handles, reader, crashes>>

----------------------------------------------------------------------------
(* The worker. *)

\* enqueue_for_connection
Submit(t) ==
    /\ Len(reqs) < MaxRequests
    /\ reqs' = Append(reqs, t) /\ answer' = Append(answer, Waiting)
    /\ queue' = Append(queue, Len(reqs'))
    /\ UNCHANGED <<durable, log, handles, opening, worker, reader, failures, crashes>>

\* What is queued when the batch window closes, up to the largest batch.
TakeBatch ==
    LET n == IF Len(queue) < MaxBatch THEN Len(queue) ELSE MaxBatch
    IN  /\ worker.pc = "recv" /\ queue # <<>>
        /\ TurnsTo({queue[i] : i \in 1..n})
        /\ queue' = SubSeq(queue, n + 1, Len(queue))
        /\ UNCHANGED <<durable, log, reqs, answer, handles, opening, reader, failures, crashes>>

\* add_entries starts from the published list.
StartGroup ==
    /\ worker.pc = "group" /\ handles[Topic] # Closed
    /\ worker' = [worker EXCEPT !.pc = "assign", !.info = handles[Topic].info]
    /\ UNCHANGED <<durable, log, reqs, answer, queue, handles, opening, reader, failures,
                   crashes>>

Unplaced == {r \in worker.group : \A i \in DOMAIN worker.placed : worker.placed[i].req # r}

AllPlaced == worker.pc = "assign" /\ Unplaced = {}

\* The next entry gets the next position; the ledger it fills is rolled over at
\* once, so the ledger found here is never full.
AssignEntry ==
    LET ls == worker.info
        n  == Len(ls)
    IN  \E r \in Firsts(Unplaced) :
        /\ worker.pc = "assign"
        /\ AllocatorRaces \/ AllocatorFree \/ ~Fills(ls)
        /\ worker' = [worker EXCEPT
               !.placed = Append(@, [req |-> r, at |-> <<ls[n].id, ls[n].entries>>]),
               !.info[n].entries = @ + 1,
               !.got = IF Fills(ls) THEN nextId ELSE 0,
               !.pc = IF Fills(ls) THEN "allocate" ELSE "assign"]
        /\ UNCHANGED <<durable, log, reqs, answer, queue, handles, opening, reader, failures,
                       crashes>>

\* roll_over_current_ledger, after the put of allocate_ledger_id.
RollOver ==
    /\ worker.pc = "allocate"
    /\ nextId' = worker.got + 1
    /\ worker' = [worker EXCEPT !.pc = "assign", !.got = 0,
                                !.info = Append(@, NewLedger(worker.got))]
    /\ UNCHANGED <<infos, index, files, log, reqs, answer, queue, handles, opening, reader,
                   failures, crashes>>

----------------------------------------------------------------------------
(* WriteState::write_batch. *)

\* The records of the batch, one after the other.
Buffer == [x \in 1..(Len(worker.placed) * RecordCells) |->
              LET e == worker.placed[((x - 1) \div RecordCells) + 1]
              IN  Cell(e.req, e.at, ((x - 1) % RecordCells) + 1)]

MustRotate == log.offset > 0 /\ log.offset + Len(Buffer) > LogSizeLimit

\* The writer after it has switched to a new file, if it must.
Rotated == IF MustRotate THEN [id |-> log.id + 1, offset |-> 0, open |-> log.id + 1] ELSE log

\* The files with the first n cells of the batch at the end of the open one.
Written(n) ==
    LET old == IF Rotated.open \in DOMAIN files THEN files[Rotated.open] ELSE <<>>
    IN  Over([i \in {Rotated.open} |-> old \o SubSeq(Buffer, 1, n)], files)

\* Mutant: the locations name the file that was active before the switch.
LocatedBefore == [i \in DOMAIN worker.placed |->
                     [file |-> log.id, offset |-> Rotated.offset + (i - 1) * RecordCells]]

Located == [i \in DOMAIN worker.placed |->
               [file |-> Rotated.id, offset |-> Rotated.offset + (i - 1) * RecordCells]]

AppendLog ==
    /\ AllPlaced
    /\ files' = Written(Len(Buffer))
    /\ log' = [Rotated EXCEPT !.offset = @ + Len(Buffer)]
    /\ worker' = [worker EXCEPT !.pc = "commit", !.located = Located]
    /\ UNCHANGED <<nextId, infos, index, reqs, answer, queue, handles, opening, reader,
                   failures, crashes>>

\* A failing write does not move the offset, whatever it left in the file; a failing
\* switch has counted the file id up and keeps the old file open.
FailedWrites ==
    {[files |-> Written(n), log |-> Rotated] :
        n \in IF LogFaults THEN 0..(Len(Buffer) - 1) ELSE {0}}
    \cup IF LogFaults /\ MustRotate
         THEN {[files |-> files, log |-> [log EXCEPT !.id = @ + 1, !.offset = 0]]} ELSE {}

AppendFails ==
    /\ AllPlaced /\ Fail
    /\ \E w \in FailedWrites : files' = w.files /\ log' = w.log
    /\ worker' = [worker EXCEPT !.pc = "refuse"]
    /\ UNCHANGED <<nextId, infos, index, reqs, answer, queue, handles, opening, reader,
                   crashes>>

----------------------------------------------------------------------------
(* Commit, publish, answer. *)

\* One database batch: the locations and the new list.
Commit ==
    /\ worker.pc = "commit"
    /\ index' = Over([p \in {worker.placed[i].at : i \in DOMAIN worker.placed} |->
                       worker.located[CHOOSE i \in DOMAIN worker.placed : worker.placed[i].at = p]],
                     index)
    /\ infos' = [infos EXCEPT ![Topic] = worker.info]
    /\ worker' = [worker EXCEPT !.pc = "publish"]
    /\ UNCHANGED <<nextId, files, log, reqs, answer, queue, handles, opening, reader,
                   failures, crashes>>

\* A database call of add_entries fails.
DbFails ==
    /\ worker.pc \in {"allocate", "commit"} /\ Fail
    /\ worker' = [worker EXCEPT !.pc = "refuse"]
    /\ UNCHANGED <<durable, log, reqs, answer, queue, handles, opening, reader, crashes>>

\* Mutant: the LAC is published before the list.
PublishInfoLate ==
    /\ worker.pc = "publish"
    /\ handles' = [handles EXCEPT ![Topic].lac = worker.placed[Len(worker.placed)].at]
    /\ worker' = [worker EXCEPT !.pc = "confirm"]
    /\ UNCHANGED <<durable, log, reqs, answer, queue, opening, reader, failures, crashes>>

PublishInfo ==
    /\ worker.pc = "publish"
    /\ handles' = [handles EXCEPT ![Topic].info = worker.info]
    /\ worker' = [worker EXCEPT !.pc = "confirm"]
    /\ UNCHANGED <<durable, log, reqs, answer, queue, opening, reader, failures, crashes>>

PublishLac ==
    /\ worker.pc = "confirm"
    /\ handles' = [handles EXCEPT ![Topic].lac = worker.placed[Len(worker.placed)].at]
    /\ worker' = [worker EXCEPT !.pc = "reply"]
    /\ UNCHANGED <<durable, log, reqs, answer, queue, opening, reader, failures, crashes>>

\* Mutant: after one group the worker leaves the batch.
AnswersOnce(r, what) ==
    /\ r \in Firsts(worker.group)
    /\ answer' = [answer EXCEPT ![r] = what]
    /\ worker' = IF worker.group = {r} THEN IdleWorker ELSE [worker EXCEPT !.group = @ \ {r}]
    /\ UNCHANGED <<durable, log, reqs, queue, handles, opening, reader, failures, crashes>>

\* WriteReply::complete for the next publish of the group; after the last one the
\* worker turns to the next group.
Answers(r, what) ==
    /\ r \in Firsts(worker.group)
    /\ answer' = [answer EXCEPT ![r] = what]
    /\ IF worker.group = {r} THEN TurnsTo(worker.rest)
       ELSE worker' = [worker EXCEPT !.group = @ \ {r}]
    /\ UNCHANGED <<durable, log, reqs, queue, handles, opening, reader, failures, crashes>>

Reply == /\ worker.pc = "reply"
         /\ \E i \in DOMAIN worker.placed :
               Answers(worker.placed[i].req, [is |-> "ok", at |-> worker.placed[i].at])

Refuse == /\ worker.pc = "refuse"
          /\ \E r \in worker.group : Answers(r, [is |-> "refused", at |-> NoPosition])

----------------------------------------------------------------------------
(* A reader loads the LAC of a ledger, then its list, and reads up to that LAC. *)

LoadLac(t) ==
    /\ reader = IdleReader /\ handles[t].lac # NoPosition
    /\ reader' = [topic |-> t, lac |-> handles[t].lac]
    /\ UNCHANGED <<durable, log, reqs, answer, queue, handles, opening, worker, failures,
                   crashes>>

LoadInfo ==
    /\ reader # IdleReader
    /\ reader' = IdleReader
    /\ UNCHANGED <<durable, log, reqs, answer, queue, handles, opening, worker, failures,
                   crashes>>

----------------------------------------------------------------------------
(* The broker stops, in the middle of a write at worst, and starts again: the      *)
(* entry log goes on in a new file.                                             *)

Restart ==
    /\ crashes < MaxCrashes /\ crashes' = crashes + 1
    /\ \E n \in IF AllPlaced THEN 0..Len(Buffer) ELSE {0} :
          LET left == IF AllPlaced THEN Written(n) ELSE files
              id   == Max(DOMAIN left) + 1
          IN  /\ files' = Over([i \in {id} |-> <<>>], left)
              /\ log' = [id |-> id, offset |-> 0, open |-> id]
    /\ answer' = [r \in DOMAIN answer |->
                     IF answer[r] = Waiting THEN [Waiting EXCEPT !.is = "lost"] ELSE answer[r]]
    /\ queue' = <<>> /\ handles' = [t \in Topics |-> Closed] /\ opening' = NotOpening
    /\ worker' = IdleWorker /\ reader' = IdleReader
    /\ UNCHANGED <<nextId, infos, index, reqs, failures>>

Work == \/ TakeBatch \/ StartGroup \/ AssignEntry \/ RollOver
        \/ AppendLog \/ Commit \/ PublishInfo \/ PublishLac \/ Reply \/ Refuse

Opens == (\E t \in Topics : open_ledger(t)) \/ OpenAllocates \/ OpenStores

Next == \/ Work \/ Opens \/ OpenFails \/ AppendFails \/ DbFails \/ Restart
        \/ LoadInfo \/ \E t \in Topics : Submit(t) \/ LoadLac(t)

Spec == Init /\ [][Next]_vars

----------------------------------------------------------------------------
(* Properties. *)

Ids(ls) == {ls[i].id : i \in DOMAIN ls}

\* A confirmed publish can be read, with its own contents, at the position its
\* publisher was told, through rollovers, new log files, failures and restarts.
ConfirmedReadable ==
    \A r \in DOMAIN reqs : answer[r].is = "ok" =>
        answer[r].at \in Entries(infos[reqs[r]]) /\ ReadsAs(answer[r].at, r)

\* A reader that has loaded the LAC and then the list finds the LAC in the list and
\* every entry up to it readable: no publication order lets it see half a batch.
ReadersSeeWhole ==
    [][LoadInfo =>
          LET seen == Entries(handles[reader.topic].info)
          IN  /\ reader.lac \in seen
              /\ \A p \in seen : Leq(p, reader.lac) =>
                    \E r \in DOMAIN reqs : reqs[r] = reader.topic /\ ReadsAs(p, r)]_vars

\* What reading the stored list of t finds.
Stored(t) ==
    UNION {{<<p, r>> : r \in {q \in DOMAIN reqs : ReadsAs(p, q)}} :
              p \in Entries(infos[t]) \cap DOMAIN index}

\* The stored lists, locations and files implement a log per topic that grows in
\* the order of submission and never loses an entry; answers agree with it.
DL == INSTANCE DurableLog WITH log <- [t \in Topics |-> Stored(t)],
                               status <- [r \in DOMAIN answer |-> answer[r].is]

DurableLogSpec == DL!Spec

\* The worker thread runs, opens the ledgers it needs, and an open under way ends.
FairSpec ==
    /\ Spec
    /\ WF_vars(Work \/ (worker.pc = "group" /\ open_ledger(Topic)))
    /\ WF_vars(OpenAllocates \/ OpenStores)

\* Every publish is answered, or lost with the broker: of the publishes of a run
\* none waits for ever, whatever fails and however several topics are batched.
Answered == []<>(\A r \in DOMAIN answer : answer[r] # Waiting)

=============================================================================

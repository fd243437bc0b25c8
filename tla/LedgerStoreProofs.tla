------------------------- MODULE LedgerStoreProofs -------------------------
(***************************************************************************)
(* What the write path of the RocksDB storage keeps: proofs about          *)
(* LedgerStore for a log whose failing writes leave nothing behind and an  *)
(* allocator that is read and written in one piece.                        *)
(***************************************************************************)
EXTENDS LedgerStore, TLAPS

----------------------------------------------------------------------------
(* The inductive invariant. *)

Ledger == [id : Nat, entries : Nat]
Position == Nat \X Nat
Location == [file : Nat, offset : Nat]
Placing == [req : Nat, at : Position]
Cells == Nat \X Position \X Nat
Lists == Seq(Ledger)

\* Ledger ids grow along a list.
Sorted(ls) == \A i, j \in DOMAIN ls : i < j => ls[i].id < ls[j].id

Below(ls, id) == \A i \in DOMAIN ls : ls[i].id < id

Apart(ls, ms) == Ids(ls) \cap Ids(ms) = {}

Told == {x \in [is : {"waiting", "ok", "refused", "lost"}, at : Position \cup {NoPosition}] :
            x.is = "waiting" => x = Waiting}
Handle == [info : Lists, lac : Position \cup {NoPosition}]
Opening == [pc : {"none", "allocate", "append", "store"}, topic : Topics \cup {"none"}, got : Nat]
Workers == [pc : {"recv", "group", "assign", "allocate", "commit", "publish", "confirm", "reply",
                  "refuse"},
            topic : Topics \cup {"none"}, group : SUBSET Nat, rest : SUBSET Nat, info : Lists,
            placed : Seq(Placing), located : Seq(Location), got : Nat]
Readers == [topic : Topics \cup {"none"}, lac : Position \cup {NoPosition}]

Typed ==
    /\ nextId \in Nat /\ infos \in [Topics -> Lists]
    /\ DOMAIN index \subseteq Position /\ \A p \in DOMAIN index : index[p] \in Location
    /\ log.id \in Nat /\ log.offset \in Nat
    /\ reqs \in Seq(Topics) /\ queue \in Seq(Nat)
    /\ answer \in Seq(Told) /\ Len(answer) = Len(reqs)
    /\ handles \in [Topics -> Handle] /\ opening \in Opening
    /\ worker \in Workers /\ reader \in Readers

\* The files fs, by the ids D.
Files(fs, D) == DOMAIN fs = D /\ \A i \in D : fs[i] \in Seq(Cells)

\* The writer's file is the newest one, and the next record goes to its end.
LogInv ==
    /\ log = [id |-> log.id, offset |-> log.offset, open |-> log.id]
    /\ Files(files, 0..log.id) /\ Len(files[log.id]) = log.offset

\* A ledger is in the list of one topic, and its id has been allocated.
ListsInv ==
    /\ \A t \in Topics : Sorted(infos[t]) /\ Below(infos[t], nextId)
    /\ \A t, u \in Topics : t # u => Apart(infos[t], infos[u])

Adding == worker.pc \in {"assign", "allocate", "commit"}
Committed == worker.pc \in {"publish", "confirm", "reply"}
Uncommitted == worker.pc \in {"group", "assign", "allocate", "commit", "refuse"}

\* An open ledger publishes the stored list, which the worker may have extended.
HandleOk(t) ==
    /\ handles[t].info # <<>> /\ (opening = NotOpening \/ opening.topic # t)
    /\ \/ handles[t].info = infos[t]
       \/ /\ worker.pc = "publish" /\ worker.topic = t
          /\ Entries(handles[t].info) \subseteq Entries(infos[t])
    /\ handles[t].lac = NoPosition \/ handles[t].lac \in Entries(handles[t].info)

HandlesInv == \A t \in Topics : handles[t] = Closed \/ HandleOk(t)

\* The id an open is to add to its list is nobody else's.
OpeningInv ==
    \/ opening = NotOpening
    \/ /\ opening.pc # "none" /\ opening.topic \in Topics
       /\ opening.pc = "allocate" => opening.got = nextId /\ worker.pc # "allocate"
       /\ opening.pc = "append" =>
             /\ opening.got < nextId /\ Below(infos[opening.topic], opening.got)
             /\ \A u \in Topics : opening.got \notin Ids(infos[u])
             /\ Adding => opening.got \notin Ids(worker.info)
       /\ opening.pc = "store" => infos[opening.topic] # <<>>

\* The publishes that are not queued any more.
Received == Len(reqs) - Len(queue)

BatchInv ==
    /\ Received \in Nat
    /\ \A i \in 1..Len(queue) : queue[i] = Received + i /\ answer[Received + i] = Waiting
    /\ \A r \in worker.group : r \in 1..Received /\ answer[r] = Waiting /\ reqs[r] = worker.topic
    /\ \A r \in worker.rest : r \in 1..Received /\ answer[r] = Waiting /\ reqs[r] # worker.topic
    /\ worker.pc = "recv" => worker.group = {} /\ worker.rest = {}
    /\ worker.pc # "recv" => worker.group # {} /\ worker.topic \in Topics
    /\ worker.pc \in {"recv", "group"} => worker.placed = <<>>

Given == {worker.placed[i].at : i \in DOMAIN worker.placed}

\* The list under construction: the stored one and the positions given since.
AddingInv ==
    Adding =>
        /\ handles[worker.topic] # Closed
        /\ worker.info # <<>> /\ Sorted(worker.info) /\ Below(worker.info, nextId)
        /\ \A u \in Topics : u # worker.topic => Apart(worker.info, infos[u])
        /\ Entries(worker.info) = Entries(infos[worker.topic]) \cup Given
        /\ \A i \in DOMAIN worker.placed : \A q \in Entries(infos[worker.topic]) :
              Lt(q, worker.placed[i].at)
        /\ worker.pc = "allocate" => worker.got = nextId

\* Positions are given to the publishes of the group in order.
PlacedInv ==
    /\ \A i, j \in DOMAIN worker.placed : i < j =>
          /\ worker.placed[i].req < worker.placed[j].req
          /\ Lt(worker.placed[i].at, worker.placed[j].at)
    /\ Adding => /\ \A i \in DOMAIN worker.placed : worker.placed[i].req \in worker.group
                 /\ \A r \in Unplaced : \A i \in DOMAIN worker.placed : worker.placed[i].req < r
    /\ Committed \/ worker.pc = "commit" => worker.placed # <<>> /\ Unplaced = {}

LocatedInv ==
    worker.pc = "commit" =>
        /\ DOMAIN worker.located = DOMAIN worker.placed
        /\ \A i \in DOMAIN worker.placed :
              HoldsRecord(files, worker.located[i], worker.placed[i].req, worker.placed[i].at)

\* After the database write the group is part of the log.
CommittedInv ==
    Committed =>
        /\ handles[worker.topic] # Closed /\ worker.info = infos[worker.topic]
        /\ \A i \in DOMAIN worker.placed :
              /\ worker.placed[i].at \in Entries(infos[worker.topic])
              /\ ReadsAs(worker.placed[i].at, worker.placed[i].req)

\* Every entry of a list is the record of a publish to its topic.
Readable ==
    \A t \in Topics : \A p \in Entries(infos[t]) :
        \E r \in DOMAIN reqs : reqs[r] = t /\ ReadsAs(p, r)

\* What is in the log was submitted before what is still to be written.
BehindInv ==
    \A t \in Topics : \A p \in Entries(infos[t]), r \in DOMAIN reqs : ReadsAs(p, r) =>
        /\ r <= Received
        /\ \A s \in worker.rest : reqs[s] = t => r < s
        /\ Uncommitted /\ worker.topic = t => \A s \in worker.group : r < s

ReaderInv ==
    reader # IdleReader =>
        /\ reader.topic \in Topics
        /\ reader.lac \in Entries(handles[reader.topic].info)

StoreInv ==
    /\ Typed /\ LogInv /\ ListsInv /\ HandlesInv /\ OpeningInv /\ BatchInv /\ AddingInv
    /\ PlacedInv /\ LocatedInv /\ CommittedInv /\ Readable /\ BehindInv /\ ReaderInv
    /\ ConfirmedReadable

----------------------------------------------------------------------------
(* Ledger lists. *)

\* The positions of a list.
LEMMA EntryOf ==
    ASSUME NEW ls \in Lists, NEW p
    PROVE  p \in Entries(ls) <=>
              \E i \in 1..Len(ls) : \E e \in Nat : e < ls[i].entries /\ p = <<ls[i].id, e>>
<1>1. DOMAIN ls = 1..Len(ls) /\ \A i \in 1..Len(ls) : ls[i] \in Ledger
  BY DEF Lists
<1>2. \A i \in 1..Len(ls) : ls[i].entries \in Nat
  BY <1>1 DEF Ledger
<1>3. \A n \in Nat : \A e : e \in 0..(n - 1) <=> e \in Nat /\ e < n
  OBVIOUS
<1>4. p \in Entries(ls) <=> \E i \in 1..Len(ls) : p \in {<<ls[i].id, e>> : e \in 0..(ls[i].entries - 1)}
  BY <1>1, Zenon DEF Entries
<1>5. ASSUME NEW i \in 1..Len(ls)
      PROVE  p \in {<<ls[i].id, e>> : e \in 0..(ls[i].entries - 1)}
                <=> \E e \in Nat : e < ls[i].entries /\ p = <<ls[i].id, e>>
  BY <1>2, <1>3, Zenon
<1>. QED
  BY <1>4, <1>5, Zenon

\* NewLedger adds a ledger and no entry.
LEMMA NewLedgerAt ==
    ASSUME NEW ls \in Lists, Sorted(ls), NEW id \in Nat, Below(ls, id)
    PROVE  /\ Append(ls, NewLedger(id)) \in Lists /\ Append(ls, NewLedger(id)) # <<>>
           /\ Sorted(Append(ls, NewLedger(id)))
           /\ \A n \in Nat : id < n => Below(Append(ls, NewLedger(id)), n)
           /\ Entries(Append(ls, NewLedger(id))) = Entries(ls)
           /\ Ids(Append(ls, NewLedger(id))) = Ids(ls) \cup {id}
<1>. DEFINE ms == Append(ls, NewLedger(id))
<1>1. ms \in Lists /\ Len(ms) = Len(ls) + 1 /\ ms # <<>>
  <2>1. NewLedger(id) \in Ledger
    BY DEF Ledger, NewLedger
  <2>. QED
    BY <2>1 DEF Lists
<1>2. \A i \in 1..Len(ls) : ms[i] = ls[i]
  BY DEF Lists
<1>3. ms[Len(ls) + 1] = [id |-> id, entries |-> 0]
  BY DEF Lists, NewLedger
<1>4. DOMAIN ls = 1..Len(ls) /\ DOMAIN ms = 1..(Len(ls) + 1) /\ Len(ls) \in Nat
  BY <1>1 DEF Lists
<1>5. \A i \in 1..Len(ls) : ls[i].id \in Nat
  <2>1. \A i \in 1..Len(ls) : ls[i] \in Ledger
    BY DEF Lists
  <2>. QED
    BY <2>1 DEF Ledger
<1>. HIDE DEF ms
<1>6. Sorted(ms)
  BY <1>2, <1>3, <1>4, <1>5 DEF Sorted, Below
<1>7. ASSUME NEW n \in Nat, id < n PROVE Below(ms, n)
  BY <1>2, <1>3, <1>4, <1>5, <1>7 DEF Below
<1>8. Ids(ms) = Ids(ls) \cup {id}
  <2>1. \A x \in Ids(ms) : x \in Ids(ls) \cup {id}
    BY <1>2, <1>3, <1>4 DEF Ids
  <2>2. \A x \in Ids(ls) \cup {id} : x \in Ids(ms)
    BY <1>2, <1>3, <1>4 DEF Ids
  <2>. QED
    BY <2>1, <2>2
<1>9. \A p : p \in Entries(ms) <=> p \in Entries(ls)
  <2>. SUFFICES ASSUME NEW p PROVE p \in Entries(ms) <=> p \in Entries(ls)
    OBVIOUS
  <2>1. p \in Entries(ms) <=>
           \E i \in 1..Len(ms) : \E e \in Nat : e < ms[i].entries /\ p = <<ms[i].id, e>>
    <3>1. ms \in Lists
      BY <1>1
    <3>. QED
      BY <3>1, EntryOf
  <2>2. p \in Entries(ls) <=>
           \E i \in 1..Len(ls) : \E e \in Nat : e < ls[i].entries /\ p = <<ls[i].id, e>>
    BY EntryOf
  <2>3. \A e \in Nat : ~(e < ms[Len(ls) + 1].entries)
    BY <1>3
  <2>4. \A i \in 1..Len(ms) : i \in 1..Len(ls) \/ i = Len(ls) + 1
    BY <1>1, <1>4
  <2>5. 1..Len(ls) \subseteq 1..Len(ms)
    BY <1>1, <1>4
  <2>. QED
    BY <1>2, <2>1, <2>2, <2>3, <2>4, <2>5, Zenon
<1>. QED
  BY <1>1, <1>6, <1>7, <1>8, <1>9, Zenon DEF ms

\* One more entry of the last ledger is past every entry of the list.
LEMMA NextEntryAt ==
    ASSUME NEW ls \in Lists, Sorted(ls), ls # <<>>
    PROVE  LET p  == <<ls[Len(ls)].id, ls[Len(ls)].entries>>
               ms == [ls EXCEPT ![Len(ls)].entries = @ + 1]
           IN  /\ p \in Position /\ ms \in Lists /\ ms # <<>> /\ Sorted(ms)
               /\ \A n \in Nat : Below(ls, n) => Below(ms, n)
               /\ Entries(ms) = Entries(ls) \cup {p} /\ Ids(ms) = Ids(ls)
               /\ \A q \in Entries(ls) : Lt(q, p)
<1>. DEFINE n == Len(ls)
            p == <<ls[n].id, ls[n].entries>>
            ms == [ls EXCEPT ![n].entries = @ + 1]
<1>1. n \in Nat /\ n >= 1 /\ DOMAIN ls = 1..n /\ \A i \in 1..n : ls[i] \in Ledger
  BY DEF Lists
<1>2. p \in Position
  BY <1>1 DEF Position, Ledger
<1>3. ms \in Lists /\ Len(ms) = n /\ ms # <<>>
  BY <1>1 DEF Lists, Ledger
<1>4. DOMAIN ms = 1..n /\ \A i \in 1..n : ms[i].id = ls[i].id
  BY <1>1 DEF Ledger
<1>5. ms[n].entries = ls[n].entries + 1 /\ \A i \in 1..n : i # n => ms[i].entries = ls[i].entries
  BY <1>1 DEF Ledger
<1>6. \A i \in 1..n : ls[i].id \in Nat /\ ls[i].entries \in Nat
  BY <1>1 DEF Ledger
<1>. HIDE DEF ms
<1>7. \A q : q \in Entries(ms) <=>
              \E i \in 1..n : \E e \in Nat : e < ms[i].entries /\ q = <<ms[i].id, e>>
  <2>1. ms \in Lists
    BY <1>3
  <2>2. \A q : q \in Entries(ms) <=>
            \E i \in 1..Len(ms) : \E e \in Nat : e < ms[i].entries /\ q = <<ms[i].id, e>>
    BY <2>1, EntryOf
  <2>. QED
    BY <2>2, <1>3
<1>8. \A q : q \in Entries(ls) <=>
              \E i \in 1..n : \E e \in Nat : e < ls[i].entries /\ q = <<ls[i].id, e>>
  BY EntryOf
<1>. HIDE DEF n
<1>9. Sorted(ms) /\ \A k \in Nat : Below(ls, k) => Below(ms, k)
  BY <1>1, <1>4 DEF Sorted, Below
<1>10. Ids(ms) = Ids(ls)
  BY <1>1, <1>4 DEF Ids
<1>11. \A q : q \in Entries(ms) <=> q \in Entries(ls) \/ q = p
  <2>1. ASSUME NEW q, q \in Entries(ms) PROVE q \in Entries(ls) \/ q = p
    <3>1. PICK i \in 1..n : \E e \in Nat : e < ms[i].entries /\ q = <<ms[i].id, e>>
      BY <2>1, <1>7
    <3>2. PICK e \in Nat : e < ms[i].entries /\ q = <<ls[i].id, e>>
      BY <3>1, <1>4
    <3>3. e < ls[i].entries \/ (i = n /\ e = ls[n].entries)
      BY <3>2, <1>5, <1>6, <1>1
    <3>. QED
      BY <3>2, <3>3, <1>8
  <2>2. ASSUME NEW q, q \in Entries(ls) PROVE q \in Entries(ms)
    <3>1. PICK i \in 1..n : \E e \in Nat : e < ls[i].entries /\ q = <<ls[i].id, e>>
      BY <2>2, <1>8
    <3>2. PICK e \in Nat : e < ls[i].entries /\ q = <<ls[i].id, e>>
      BY <3>1
    <3>3. e < ms[i].entries
      BY <3>2, <1>5, <1>6, <1>1
    <3>4. ms[i].id = ls[i].id
      BY <1>4
    <3>. QED
      BY <3>2, <3>3, <3>4, <1>7
  <2>3. p \in Entries(ms)
    <3>1. n \in 1..n /\ ls[n].entries \in Nat /\ ls[n].entries < ms[n].entries /\ ms[n].id = ls[n].id
      BY <1>1, <1>4, <1>5, <1>6
    <3>. QED
      BY <3>1, <1>7
  <2>. QED
    BY <2>1, <2>2, <2>3
<1>12. ASSUME NEW q \in Entries(ls) PROVE Lt(q, p)
  <2>1. PICK i \in 1..n : \E e \in Nat : e < ls[i].entries /\ q = <<ls[i].id, e>>
    BY <1>8
  <2>2. PICK e \in Nat : e < ls[i].entries /\ q = <<ls[i].id, e>>
    BY <2>1
  <2>3. i = n \/ ls[i].id < ls[n].id
    BY <1>1 DEF Sorted
  <2>. QED
    BY <2>2, <2>3, <1>1, <1>6 DEF Lt
<1>. QED
  BY <1>2, <1>3, <1>9, <1>10, <1>11, <1>12, Zenon DEF ms, n

----------------------------------------------------------------------------
(* Log files. *)

\* A file only gets new cells at its end.
Longer(old, new) ==
    /\ Len(old) \in Nat /\ Len(new) \in Nat /\ Len(old) <= Len(new)
    /\ \A x \in 1..Len(old) : new[x] = old[x]

\* Files only get longer, and others beside them.
Grows(fs, gs) == DOMAIN fs \subseteq DOMAIN gs /\ \A i \in DOMAIN fs : Longer(fs[i], gs[i])

\* A record stays where it is while files grow.
LEMMA RecordStays ==
    ASSUME NEW fs, NEW gs, Grows(fs, gs), NEW at \in Location, NEW r, NEW p,
           HoldsRecord(fs, at, r, p)
    PROVE  HoldsRecord(gs, at, r, p)
<1>1. at.offset \in Nat /\ RecordCells \in Nat
  BY SizesAssumption DEF Location
<1>2. at.file \in DOMAIN gs /\ at.offset + RecordCells <= Len(gs[at.file])
  BY <1>1 DEF Grows, Longer, HoldsRecord
<1>3. \A k \in 1..RecordCells : at.offset + k \in 1..Len(fs[at.file])
  BY <1>1 DEF Grows, Longer, HoldsRecord
<1>. QED
  BY <1>2, <1>3 DEF Grows, Longer, HoldsRecord

\* A location holds the record of one publish.
LEMMA OneRecord ==
    ASSUME NEW fs, NEW at, NEW r, NEW s, NEW p, NEW q,
           HoldsRecord(fs, at, r, p), HoldsRecord(fs, at, s, q)
    PROVE  r = s /\ p = q
<1>1. 1 \in 1..RecordCells
  BY SizesAssumption
<1>2. Cell(r, p, 1) = Cell(s, q, 1)
  BY <1>1 DEF HoldsRecord
<1>. QED
  BY <1>2 DEF Cell

\* Where the k-th cell of record i is in a buffer of records of R cells.
LEMMA CellAt ==
    ASSUME NEW R \in Nat \ {0}, NEW i \in Nat, NEW n \in Nat, i < n, NEW k \in 1..R
    PROVE  /\ i * R + k \in 1..(n * R)
           /\ (i * R + k - 1) \div R = i /\ (i * R + k - 1) % R = k - 1
<1>1. i * R + R <= n * R /\ i * R \in Nat /\ n * R \in Nat
  <2>1. PICK d \in Nat : n = i + 1 + d
    <3>1. n - (i + 1) \in Nat /\ n = i + 1 + (n - (i + 1))
      OBVIOUS
    <3>. QED
      BY <3>1
  <2>2. n * R = i * R + R + d * R
    BY <2>1
  <2>3. d * R \in Nat /\ i * R \in Nat
    OBVIOUS
  <2>. QED
    BY <2>2, <2>3
<1>2. i * R + k \in 1..(n * R)
  BY <1>1
<1>3. i * R + k - 1 = i * R + (k - 1) /\ k - 1 \in 0..(R - 1)
  BY <1>1
<1>4. \A b \in 0..(R - 1) : (i * R + b) \div R = i /\ (i * R + b) % R = b
  OBVIOUS
<1>. QED
  BY <1>2, <1>3, <1>4

\* Which record of the buffer a cell belongs to.
LEMMA RecordOf ==
    ASSUME NEW R \in Nat \ {0}, NEW n \in Nat, NEW y \in Nat, y < n * R
    PROVE  y \div R \in Nat /\ y \div R < n /\ y % R \in Nat
<1>1. y \div R \in Nat /\ y % R \in 0..(R - 1) /\ y = R * (y \div R) + (y % R)
  OBVIOUS
<1>2. ASSUME NEW d \in Nat, y \div R = n + d PROVE FALSE
  <2>1. R * (n + d) = n * R + d * R /\ d * R \in Nat /\ n * R \in Nat
    OBVIOUS
  <2>. QED
    BY <1>1, <1>2, <2>1
<1>3. y \div R >= n => y \div R - n \in Nat /\ y \div R = n + (y \div R - n)
  BY <1>1
<1>. QED
  BY <1>1, <1>2, <1>3

\* A function on 1..m is a sequence.
LEMMA SeqOf ==
    ASSUME NEW m \in Nat, NEW S, NEW f, f = [x \in 1..m |-> f[x]], \A x \in 1..m : f[x] \in S
    PROVE  f \in Seq(S) /\ Len(f) = m
OBVIOUS

\* Mapping a buffer to the records it is made of.
LEMMA BufferHolds ==
    ASSUME Typed
    PROVE  /\ Buffer \in Seq(Cells) /\ Len(Buffer) = Len(worker.placed) * RecordCells
           /\ \A i \in DOMAIN worker.placed : \A k \in 1..RecordCells :
                 /\ (i - 1) * RecordCells + k \in 1..Len(Buffer)
                 /\ Buffer[(i - 1) * RecordCells + k]
                       = Cell(worker.placed[i].req, worker.placed[i].at, k)
<1>. DEFINE R == RecordCells
            n == Len(worker.placed)
<1>1. R \in Nat \ {0} /\ n \in Nat /\ DOMAIN worker.placed = 1..n /\ n * R \in Nat
  <2>1. worker.placed \in Seq(Placing)
    BY DEF Typed, Workers
  <2>2. n \in Nat /\ DOMAIN worker.placed = 1..n
    BY <2>1
  <2>3. R \in Nat \ {0}
    BY SizesAssumption
  <2>. QED
    BY <2>2, <2>3
<1>2. \A i \in 1..n : worker.placed[i].req \in Nat /\ worker.placed[i].at \in Position
  <2>1. \A i \in 1..n : worker.placed[i] \in Placing
    BY <1>1 DEF Typed, Workers
  <2>. QED
    BY <2>1 DEF Placing
<1>3. ASSUME NEW x \in 1..(n * R)
      PROVE  /\ ((x - 1) \div R) + 1 \in 1..n
             /\ ((x - 1) % R) + 1 \in Nat
  <2>1. x - 1 \in Nat /\ x - 1 < n * R
    BY <1>1
  <2>2. (x - 1) \div R \in Nat /\ (x - 1) \div R < n /\ (x - 1) % R \in Nat
    BY <1>1, <2>1, RecordOf, Zenon
  <2>. QED
    BY <2>2, <1>1
<1>4. ASSUME NEW x \in 1..(n * R) PROVE Buffer[x] \in Cells
  <2>. DEFINE i == ((x - 1) \div R) + 1
              k == ((x - 1) % R) + 1
  <2>1. i \in 1..n /\ k \in Nat
    BY <1>3
  <2>2. Buffer[x] = <<worker.placed[i].req, worker.placed[i].at, k>>
    BY DEF Buffer, Cell
  <2>. HIDE DEF i, k
  <2>. QED
    BY <1>2, <2>1, <2>2 DEF Cells
<1>5. Buffer \in Seq(Cells) /\ Len(Buffer) = n * R
  <2>1. Buffer = [x \in 1..(n * R) |-> Buffer[x]]
    BY DEF Buffer
  <2>. QED
    BY <1>1, <1>4, <2>1, SeqOf, Zenon
<1>6. ASSUME NEW i \in 1..n, NEW k \in 1..R
      PROVE  /\ (i - 1) * R + k \in 1..(n * R)
             /\ Buffer[(i - 1) * R + k] = Cell(worker.placed[i].req, worker.placed[i].at, k)
  <2>1. i - 1 \in Nat /\ i - 1 < n /\ (i - 1) + 1 = i /\ (k - 1) + 1 = k
    BY <1>1
  <2>. DEFINE x == (i - 1) * R + k
  <2>2. x \in 1..(n * R) /\ (x - 1) \div R = i - 1 /\ (x - 1) % R = k - 1
    BY <2>1, <1>1, CellAt
  <2>. HIDE DEF x
  <2>3. Buffer[x] = Cell(worker.placed[((x - 1) \div R) + 1].req,
                         worker.placed[((x - 1) \div R) + 1].at, ((x - 1) % R) + 1)
    BY <2>2 DEF Buffer
  <2>. QED
    BY <2>1, <2>2, <2>3 DEF x
<1>. QED
  BY <1>1, <1>5, <1>6, Zenon

\* One sequence after another.
LEMMA Joined ==
    ASSUME NEW S, NEW a \in Seq(S), NEW b \in Seq(S)
    PROVE  /\ a \o b \in Seq(S) /\ Len(a \o b) = Len(a) + Len(b)
           /\ \A x \in 1..Len(a) : (a \o b)[x] = a[x]
           /\ \A x \in 1..Len(b) : (a \o b)[Len(a) + x] = b[x]
           /\ <<>> \o b = b
<1>1. a \o b \in Seq(S)
  OBVIOUS
<1>2. Len(a \o b) = Len(a) + Len(b)
  OBVIOUS
<1>3. \A x \in 1..Len(a) : (a \o b)[x] = a[x]
  OBVIOUS
<1>4. \A x \in 1..Len(b) : (a \o b)[Len(a) + x] = b[x]
  OBVIOUS
<1>5. <<>> \o b = b
  OBVIOUS
<1>. QED
  BY <1>1, <1>2, <1>3, <1>4, <1>5

\* The length of a sequence.
LEMMA LenNat ==
    ASSUME NEW S, NEW a \in Seq(S)
    PROVE  Len(a) \in Nat /\ DOMAIN a = 1..Len(a) /\ \A i \in 1..Len(a) : a[i] \in S
OBVIOUS

\* A file that gets cells at its end, or stays.
LEMMA FileGrows ==
    ASSUME NEW old \in Seq(Cells), NEW b \in Seq(Cells)
    PROVE  /\ old \o b \in Seq(Cells) /\ Longer(old, old \o b) /\ Longer(old, old)
           /\ Len(old \o b) = Len(old) + Len(b)
           /\ \A x \in 1..Len(b) : (old \o b)[Len(old) + x] = b[x]
<1>1. /\ old \o b \in Seq(Cells) /\ Len(old \o b) = Len(old) + Len(b)
      /\ \A x \in 1..Len(old) : (old \o b)[x] = old[x]
      /\ \A x \in 1..Len(b) : (old \o b)[Len(old) + x] = b[x]
  BY Joined
<1>2. Len(old) \in Nat /\ Len(b) \in Nat
  BY LenNat
<1>3. Len(old \o b) \in Nat /\ Len(old) <= Len(old \o b) /\ Len(old) <= Len(old)
  BY <1>1, <1>2
<1>. QED
  BY <1>1, <1>2, <1>3, Zenon DEF Longer

\* gs is fs with the file v at k.
Puts(fs, gs, D, k, v) == DOMAIN gs = D \cup {k} /\ gs[k] = v /\ \A i \in D : i # k => gs[i] = fs[i]

\* What Over does to one file.
LEMMA OverPuts ==
    ASSUME NEW fs, NEW D, Files(fs, D), NEW k, NEW v
    PROVE  Puts(fs, Over([i \in {k} |-> v], fs), D, k, v)
BY Zenon DEF Over, Files, Puts

\* The file k ends in b.
EndsIn(fs, gs, k, b) ==
    /\ Len(gs[k]) = Len(fs[k]) + Len(b)
    /\ \A x \in 1..Len(b) : gs[k][Len(fs[k]) + x] = b[x]

\* Cells added at the end of a file.
LEMMA EndWritten ==
    ASSUME NEW fs, NEW gs, NEW D, NEW k, NEW v, Puts(fs, gs, D, k, v), Files(fs, D), k \in D,
           NEW b \in Seq(Cells), v = fs[k] \o b
    PROVE  Files(gs, D) /\ Grows(fs, gs) /\ EndsIn(fs, gs, k, b)
<1>1. DOMAIN gs = D /\ gs[k] = fs[k] \o b /\ \A i \in D : i # k => gs[i] = fs[i]
  BY Zenon DEF Puts
<1>2. \A i \in D : fs[i] \in Seq(Cells)
  BY Zenon DEF Files
<1>3. \A i \in D : fs[i] \o b \in Seq(Cells) /\ Longer(fs[i], fs[i] \o b) /\ Longer(fs[i], fs[i])
  BY <1>2, FileGrows, Zenon
<1>4. Files(gs, D)
  BY <1>1, <1>2, <1>3, Zenon DEF Files
<1>5. Grows(fs, gs)
  BY <1>1, <1>3, Zenon DEF Grows, Files
<1>6. /\ Len(gs[k]) = Len(fs[k]) + Len(b)
      /\ \A x \in 1..Len(b) : gs[k][Len(fs[k]) + x] = b[x]
  <2>1. fs[k] \in Seq(Cells)
    BY <1>2, Zenon
  <2>2. /\ Len(fs[k] \o b) = Len(fs[k]) + Len(b)
        /\ \A x \in 1..Len(b) : (fs[k] \o b)[Len(fs[k]) + x] = b[x]
    BY <2>1, FileGrows, Zenon
  <2>. QED
    BY <1>1, <2>2, Zenon
<1>. QED
  BY <1>4, <1>5, <1>6, Zenon DEF EndsIn

\* A file beside the others.
LEMMA FileAdded ==
    ASSUME NEW fs, NEW gs, NEW D, NEW k, NEW b, Puts(fs, gs, D, k, b), Files(fs, D),
           b \in Seq(Cells), k \notin D
    PROVE  Files(gs, D \cup {k}) /\ Grows(fs, gs) /\ gs[k] = b
<1>1. DOMAIN gs = D \cup {k} /\ gs[k] = b /\ \A i \in D : gs[i] = fs[i]
  BY Zenon DEF Puts
<1>2. \A i \in D : fs[i] \in Seq(Cells)
  BY Zenon DEF Files
<1>3. \A i \in D : Longer(fs[i], fs[i])
  BY <1>2, FileGrows, Zenon
<1>4. Files(gs, D \cup {k})
  BY <1>1, <1>2, Zenon DEF Files
<1>5. Grows(fs, gs)
  BY <1>1, <1>3, Zenon DEF Grows, Files
<1>. QED
  BY <1>1, <1>4, <1>5, Zenon

\* What write_batch leaves in the files after n cells.
LEMMA WrittenHolds ==
    ASSUME Typed, LogInv, NEW n \in 0..Len(Buffer)
    PROVE  /\ Files(Written(n), 0..Rotated.id)
           /\ Grows(files, Written(n))
           /\ Rotated = [id |-> Rotated.id, offset |-> Rotated.offset, open |-> Rotated.id]
           /\ Rotated.id \in Nat /\ Rotated.offset \in Nat
           /\ Len(Written(n)[Rotated.id]) = Rotated.offset + n
           /\ \A x \in 1..n : Written(n)[Rotated.id][Rotated.offset + x] = Buffer[x]
<1>. DEFINE b == SubSeq(Buffer, 1, n)
            gs == Written(n)
<1>1. Buffer \in Seq(Cells) /\ Len(Buffer) \in Nat
  BY BufferHolds
<1>2. b \in Seq(Cells) /\ Len(b) = n /\ \A x \in 1..n : b[x] = Buffer[x]
  BY <1>1
<1>3. log.id \in Nat /\ log.offset \in Nat /\ log.open = log.id
  BY DEF Typed, LogInv
<1>4. Files(files, 0..log.id) /\ Len(files[log.id]) = log.offset /\ DOMAIN files = 0..log.id
  BY Zenon DEF LogInv, Files
<1>5. log.id \in 0..log.id /\ log.id + 1 \notin 0..log.id
      /\ (0..log.id) \cup {log.id + 1} = 0..(log.id + 1)
  BY <1>3
<1>. HIDE DEF b, gs
<1>6. CASE ~MustRotate
  <2>1. Rotated = log
    BY <1>6 DEF Rotated
  <2>2. Puts(files, gs, 0..log.id, log.id, files[log.id] \o b)
    <3>1. gs = Over([i \in {log.id} |-> files[log.id] \o b], files)
      BY <2>1, <1>3, <1>4, <1>5, Zenon DEF Written, gs, b
    <3>. QED
      BY <1>4, <3>1, OverPuts, Zenon
  <2>3. Files(gs, 0..log.id) /\ Grows(files, gs) /\ EndsIn(files, gs, log.id, b)
    <3>1. b \in Seq(Cells) /\ log.id \in 0..log.id /\ Files(files, 0..log.id)
      BY <1>2, <1>4, <1>5, Zenon
    <3>. QED
      BY <2>2, <3>1, EndWritten, Zenon
  <2>4. log = [id |-> log.id, offset |-> log.offset, open |-> log.id]
    BY Zenon DEF LogInv
  <2>. QED
    BY <1>2, <1>3, <1>4, <2>1, <2>3, <2>4, Zenon DEF gs, EndsIn
<1>7. CASE MustRotate
  <2>1. Rotated = [id |-> log.id + 1, offset |-> 0, open |-> log.id + 1]
    BY <1>7 DEF Rotated
  <2>2. Rotated.id = log.id + 1 /\ Rotated.offset = 0 /\ Rotated.open = log.id + 1
    BY <2>1
  <2>3. <<>> \o b = b
    BY <1>2, Joined, Zenon
  <2>4. Puts(files, gs, 0..log.id, log.id + 1, b)
    <3>1. gs = Over([i \in {log.id + 1} |-> <<>> \o b], files)
      BY <2>2, <1>4, <1>5, Zenon DEF Written, gs, b
    <3>. QED
      BY <1>4, <2>3, <3>1, OverPuts, Zenon
  <2>5. Files(gs, 0..(log.id + 1)) /\ Grows(files, gs) /\ gs[log.id + 1] = b
    <3>1. b \in Seq(Cells) /\ log.id + 1 \notin 0..log.id /\ Files(files, 0..log.id)
      BY <1>2, <1>4, <1>5, Zenon
    <3>2. Files(gs, (0..log.id) \cup {log.id + 1}) /\ Grows(files, gs) /\ gs[log.id + 1] = b
      BY <2>4, <3>1, FileAdded, Zenon
    <3>. QED
      BY <1>5, <3>2, Zenon
  <2>6. 0 \in Nat /\ log.id + 1 \in Nat /\ n = 0 + n /\ \A x \in 1..n : x = 0 + x
    BY <1>1, <1>3
  <2>. QED
    BY <1>2, <2>1, <2>2, <2>5, <2>6, Zenon DEF gs
<1>. QED
  BY <1>6, <1>7

----------------------------------------------------------------------------
(* What reading finds while files grow. *)

\* reqs only grows.
ReqsKept == DOMAIN reqs \subseteq DOMAIN reqs' /\ \A r \in DOMAIN reqs : reqs'[r] = reqs[r]

\* Nothing of the stored logs changes.
LogKept ==
    /\ index' = index /\ Grows(files, files') /\ ReqsKept
    /\ \A t \in Topics : Entries(infos'[t]) = Entries(infos[t])

\* A publish that can be read at p stays readable there.
LEMMA ReadsKept ==
    ASSUME Typed, index' = index, Grows(files, files'), NEW p, NEW r, ReadsAs(p, r)
    PROVE  ReadsAs(p, r)'
<1>1. p \in DOMAIN index /\ HoldsRecord(files, index[p], r, p) /\ index[p] \in Location
  BY Zenon DEF ReadsAs, Typed
<1>2. HoldsRecord(files', index[p], r, p)
  BY <1>1, RecordStays, Zenon
<1>. QED
  BY <1>1, <1>2, Zenon DEF ReadsAs

\* And no other appears at an entry of a list.
LEMMA ReadsSame ==
    ASSUME Typed, Readable, index' = index, Grows(files, files'), NEW t \in Topics,
           NEW p \in Entries(infos[t]), NEW r, ReadsAs(p, r)'
    PROVE  ReadsAs(p, r) /\ r \in DOMAIN reqs /\ reqs[r] = t
<1>1. PICK s \in DOMAIN reqs : reqs[s] = t /\ ReadsAs(p, s)
  BY Zenon DEF Readable
<1>2. ReadsAs(p, s)'
  BY <1>1, ReadsKept, Zenon
<1>3. HoldsRecord(files', index'[p], s, p) /\ HoldsRecord(files', index'[p], r, p)
  BY <1>2, Zenon DEF ReadsAs
<1>4. r = s
  BY <1>3, OneRecord, Zenon
<1>. QED
  BY <1>1, <1>4, Zenon

\* The entries of the lists stay readable.
LEMMA ReadableStays ==
    ASSUME Typed, Readable, LogKept
    PROVE  Readable'
<1>. SUFFICES ASSUME NEW t \in Topics, NEW p \in Entries(infos[t])
              PROVE  \E r \in DOMAIN reqs' : reqs'[r] = t /\ ReadsAs(p, r)'
  BY Zenon DEF Readable, LogKept
<1>1. PICK r \in DOMAIN reqs : reqs[r] = t /\ ReadsAs(p, r)
  BY Zenon DEF Readable
<1>2. ReadsAs(p, r)'
  BY <1>1, ReadsKept, Zenon DEF LogKept
<1>. QED
  BY <1>1, <1>2, Zenon DEF LogKept, ReqsKept

\* Confirmed publishes stay readable.
LEMMA ConfirmedStays ==
    ASSUME Typed, ConfirmedReadable, LogKept, DOMAIN reqs = DOMAIN answer,
           \A r \in DOMAIN reqs' : answer'[r].is = "ok" =>
              /\ r \in DOMAIN reqs
              /\ \/ answer'[r] = answer[r]
                 \/ answer'[r].at \in Entries(infos[reqs[r]]) /\ ReadsAs(answer'[r].at, r)
    PROVE  ConfirmedReadable'
<1>. SUFFICES ASSUME NEW r \in DOMAIN reqs', answer'[r].is = "ok"
              PROVE  answer'[r].at \in Entries(infos'[reqs'[r]]) /\ ReadsAs(answer[r].at, r)'
  BY Zenon DEF ConfirmedReadable
<1>1. r \in DOMAIN reqs /\ answer'[r].at \in Entries(infos[reqs[r]]) /\ ReadsAs(answer'[r].at, r)
  BY Zenon DEF ConfirmedReadable
<1>2. reqs[r] \in Topics /\ reqs'[r] = reqs[r]
  BY <1>1 DEF Typed, LogKept, ReqsKept
<1>3. answer'[r].at \in Entries(infos'[reqs'[r]])
  BY <1>1, <1>2, Zenon DEF LogKept
<1>4. ASSUME NEW p, ReadsAs(p, r) PROVE p \in DOMAIN index' /\ HoldsRecord(files', index'[p], r, p)
  BY <1>4, ReadsKept, Zenon DEF LogKept, ReadsAs
<1>. QED
  BY <1>1, <1>3, <1>4, Zenon DEF ReadsAs

\* The log stays behind what is still to be written.
LEMMA BehindStays ==
    ASSUME Typed, Readable, BehindInv, BatchInv, LogKept, Received' \in Nat, Received <= Received',
           \A s \in worker'.rest : s \in DOMAIN reqs /\ (s \in worker.rest \/ s > Received),
           Uncommitted' => \A s \in worker'.group :
              \/ s \in DOMAIN reqs /\ s > Received
              \/ s \in worker.rest /\ reqs[s] = worker'.topic
              \/ Uncommitted /\ s \in worker.group /\ worker'.topic = worker.topic
    PROVE  BehindInv'
<1>. SUFFICES ASSUME NEW t \in Topics, NEW p \in Entries(infos[t]), NEW r \in DOMAIN reqs',
                     ReadsAs(p, r)'
              PROVE  /\ r <= Received'
                     /\ \A s \in worker'.rest : reqs'[s] = t => r < s
                     /\ Uncommitted' /\ worker'.topic = t => \A s \in worker'.group : r < s
  BY Zenon DEF BehindInv, LogKept
<1>1. r \in DOMAIN reqs /\ ReadsAs(p, r)
  BY ReadsSame, Zenon DEF LogKept
<1>2. /\ r <= Received
      /\ \A s \in worker.rest : reqs[s] = t => r < s
      /\ Uncommitted /\ worker.topic = t => \A s \in worker.group : r < s
  BY <1>1, Zenon DEF BehindInv
<1>3. r \in Nat /\ Received \in Nat /\ worker'.rest \subseteq DOMAIN reqs
  BY <1>1 DEF BatchInv, Typed
<1>4. r <= Received'
  BY <1>2, <1>3
<1>5. \A s \in DOMAIN reqs : s > Received => r < s
  BY <1>2, <1>3 DEF Typed
<1>6. ASSUME NEW s \in worker'.rest, reqs'[s] = t PROVE r < s
  <2>1. s \in DOMAIN reqs /\ reqs[s] = t /\ (s \in worker.rest \/ s > Received)
    BY <1>6, Zenon DEF LogKept, ReqsKept
  <2>. QED
    BY <2>1, <1>2, <1>5, Zenon
<1>7. ASSUME Uncommitted', worker'.topic = t, NEW s \in worker'.group PROVE r < s
  <2>1. \/ s \in DOMAIN reqs /\ s > Received
        \/ s \in worker.rest /\ reqs[s] = t
        \/ Uncommitted /\ s \in worker.group /\ t = worker.topic
    BY <1>7, Zenon
  <2>. QED
    BY <2>1, <1>2, <1>5, Zenon
<1>. QED
  BY <1>4, <1>6, <1>7, Zenon

----------------------------------------------------------------------------
(* Parts of the invariant that a step leaves alone. *)

\* The files as they are.
LEMMA FilesStay ==
    ASSUME LogInv, UNCHANGED <<log, files>>
    PROVE  LogInv' /\ Grows(files, files')
<1>1. DOMAIN files = DOMAIN files' /\ \A i \in DOMAIN files : files[i] \in Seq(Cells)
  BY Zenon DEF LogInv, Files
<1>2. \A i \in DOMAIN files : Longer(files[i], files[i])
  BY <1>1, FileGrows, Zenon
<1>. QED
  BY <1>1, <1>2, Zenon DEF LogInv, Grows

\* The ledger lists as they are.
LEMMA ListsStay ==
    ASSUME ListsInv, UNCHANGED <<infos, nextId>>
    PROVE  ListsInv'
BY Zenon DEF ListsInv

\* An open that ends or goes on leaves the cached ledgers valid.
LEMMA HandlesStay ==
    ASSUME HandlesInv, UNCHANGED <<handles, infos>>, opening' = opening \/ opening' = NotOpening,
           worker.pc = "publish" => worker'.pc = "publish" /\ worker'.topic = worker.topic
    PROVE  HandlesInv'
<1>. SUFFICES ASSUME NEW t \in Topics, handles[t] # Closed
              PROVE  HandleOk(t)'
  BY Zenon DEF HandlesInv
<1>1. HandleOk(t)
  BY Zenon DEF HandlesInv
<1>. QED
  BY <1>1, Zenon DEF HandleOk

\* The worker takes no id that an open is about to use.
LEMMA OpeningStays ==
    ASSUME OpeningInv, UNCHANGED <<infos, nextId>>, opening' = opening \/ opening' = NotOpening,
           worker'.pc = "allocate" => worker.pc = "allocate" \/ opening.pc # "allocate",
           Adding' => \/ Adding /\ Ids(worker'.info) = Ids(worker.info)
                      \/ \E t \in Topics : worker'.info = infos[t]
    PROVE  OpeningInv'
<1>. SUFFICES ASSUME opening' = opening, opening # NotOpening
              PROVE  OpeningInv'
  BY Zenon DEF OpeningInv
<1>1. opening.pc # "none" /\ opening.topic \in Topics
  BY Zenon DEF OpeningInv
<1>2. opening.pc = "allocate" => opening.got = nextId /\ worker'.pc # "allocate"
  BY Zenon DEF OpeningInv
<1>3. ASSUME opening.pc = "append"
      PROVE  /\ opening.got < nextId /\ Below(infos[opening.topic], opening.got)
             /\ \A u \in Topics : opening.got \notin Ids(infos[u])
             /\ Adding => opening.got \notin Ids(worker.info)
  BY <1>3, Zenon DEF OpeningInv
<1>4. opening.pc = "append" /\ Adding' => opening.got \notin Ids(worker'.info)
  BY <1>3, Zenon
<1>5. opening.pc = "store" => infos[opening.topic] # <<>>
  BY Zenon DEF OpeningInv
<1>. QED
  BY <1>1, <1>2, <1>3, <1>4, <1>5, Zenon DEF OpeningInv

\* A reader's list only grows.
LEMMA ReaderStays ==
    ASSUME ReaderInv, reader' = reader \/ reader' = IdleReader,
           \A t \in Topics : Entries(handles[t].info) \subseteq Entries(handles'[t].info)
    PROVE  ReaderInv'
BY Zenon DEF ReaderInv

\* The group at hand stays the same while it is worked on.
LEMMA BatchStays ==
    ASSUME BatchInv, UNCHANGED <<reqs, answer, queue>>, worker'.group = worker.group,
           worker'.rest = worker.rest, worker'.topic = worker.topic,
           worker.pc # "recv", worker'.pc \notin {"recv", "group"}
    PROVE  BatchInv'
<1>1. Received' = Received
  BY Zenon DEF Received
<1>. QED
  BY <1>1, Zenon DEF BatchInv

\* A worker that waits.
LEMMA BatchSame ==
    ASSUME BatchInv, UNCHANGED <<reqs, answer, queue, worker>>
    PROVE  BatchInv'
BY Zenon DEF BatchInv, Received

\* The positions and locations it has given.
LEMMA PlacedSame ==
    ASSUME PlacedInv, LocatedInv, UNCHANGED <<worker, files>>
    PROVE  PlacedInv' /\ LocatedInv'
<1>1. PlacedInv'
  BY Zenon DEF PlacedInv, Adding, Committed, Unplaced
<1>. QED
  BY <1>1, Zenon DEF LocatedInv

\* The same lists, locations, files and publishes.
LEMMA LogSame ==
    ASSUME Typed, LogInv, UNCHANGED <<infos, index, log, files, reqs>>
    PROVE  LogKept
BY FilesStay, Zenon DEF LogKept, ReqsKept

\* The stored part of the invariant while a group is worked on.
LEMMA StoredStays ==
    ASSUME StoreInv, LogKept, UNCHANGED <<reqs, answer, queue>>, worker'.group = worker.group,
           worker'.rest = worker.rest, worker'.topic = worker.topic, Uncommitted' => Uncommitted
    PROVE  Readable' /\ BehindInv' /\ ConfirmedReadable'
<1>1. Readable'
  BY ReadableStays, Zenon DEF StoreInv
<1>2. DOMAIN reqs = DOMAIN answer
  BY DEF StoreInv, Typed
<1>3. ConfirmedReadable'
  BY <1>2, ConfirmedStays, Zenon DEF StoreInv
<1>4. Received' = Received
  BY Zenon DEF Received
<1>5. Received \in Nat /\ Received <= Received
  BY DEF StoreInv, BatchInv
<1>6. \A s \in worker.rest : s \in DOMAIN reqs
  <2>1. \A s \in worker.rest : s \in 1..Received
    BY Zenon DEF StoreInv, BatchInv
  <2>2. Received <= Len(reqs) /\ DOMAIN reqs = 1..Len(reqs) /\ Len(reqs) \in Nat
    BY DEF StoreInv, Typed, Received
  <2>. QED
    BY <1>5, <2>1, <2>2
<1>7. BehindInv'
  BY <1>4, <1>5, <1>6, BehindStays, Zenon DEF StoreInv
<1>. QED
  BY <1>1, <1>3, <1>7

----------------------------------------------------------------------------
(* Steps of the worker that only go on. *)

Pcs == {"recv", "group", "assign", "allocate", "commit", "publish", "confirm", "reply", "refuse"}

\* The worker keeps its batch, its positions and its list.
SameWork ==
    /\ worker'.topic = worker.topic /\ worker'.group = worker.group
    /\ worker'.rest = worker.rest /\ worker'.info = worker.info
    /\ worker'.placed = worker.placed /\ worker'.located = worker.located
    /\ worker'.got = worker.got

\* Only the program counter changes.
LEMMA GoesOn ==
    ASSUME Typed, NEW x \in Pcs, worker' = [worker EXCEPT !.pc = x]
    PROVE  worker' \in Workers /\ worker'.pc = x /\ SameWork
BY Zenon DEF Typed, Workers, Pcs, SameWork

\* The publishes without a position.
LEMMA UnplacedSame ==
    ASSUME worker'.group = worker.group, worker'.placed = worker.placed
    PROVE  Unplaced' = Unplaced
BY Zenon DEF Unplaced

\* The worker's phases exclude each other.
LEMMA Phases ==
    ASSUME NEW x, worker.pc = x
    PROVE  /\ x \in {"recv", "group", "refuse"} => ~Adding /\ ~Committed
           /\ x \in {"assign", "allocate", "commit"} => Adding /\ ~Committed
           /\ x \in {"publish", "confirm", "reply"} => ~Adding /\ Committed
           /\ x \in {"recv", "publish", "confirm", "reply"} <=> x \in Pcs /\ ~Uncommitted
BY DEF Adding, Committed, Uncommitted, Pcs

\* A group that is refused, before anything of it is in the log.
LEMMA Refusing ==
    ASSUME StoreInv, worker' = [worker EXCEPT !.pc = "refuse"],
           worker.pc \in {"group", "assign", "allocate", "commit"},
           UNCHANGED <<nextId, infos, index, reqs, answer, queue, handles, reader>>,
           opening' = opening \/ opening' = NotOpening,
           LogInv', Grows(files, files'), log'.id \in Nat, log'.offset \in Nat
    PROVE  StoreInv'
<1>1. worker' \in Workers /\ worker'.pc = "refuse" /\ SameWork
  BY GoesOn, Zenon DEF StoreInv, Pcs
<1>2. ~Adding' /\ ~Committed' /\ worker'.pc # "commit"
  BY <1>1 DEF Adding, Committed
<1>3. Uncommitted /\ worker.pc # "recv" /\ worker.pc # "publish"
  BY DEF Uncommitted
<1>4. Typed'
  <2>1. NotOpening \in Opening
    BY DEF NotOpening, Opening
  <2>. QED
    BY <1>1, <2>1, Zenon DEF StoreInv, Typed
<1>5. ListsInv'
  BY ListsStay, Zenon DEF StoreInv
<1>6. HandlesInv'
  BY <1>3, HandlesStay, Zenon DEF StoreInv
<1>7. OpeningInv'
  BY <1>1, <1>2, OpeningStays, Zenon DEF StoreInv
<1>8. BatchInv'
  BY <1>1, <1>3, BatchStays, Zenon DEF StoreInv, SameWork
<1>9. AddingInv' /\ LocatedInv' /\ CommittedInv'
  BY <1>2, Zenon DEF AddingInv, LocatedInv, CommittedInv
<1>10. PlacedInv'
  BY <1>1, <1>2, Zenon DEF StoreInv, PlacedInv, SameWork
<1>11. LogKept
  BY Zenon DEF LogKept, ReqsKept
<1>12. Readable' /\ BehindInv' /\ ConfirmedReadable'
  BY <1>1, <1>3, <1>11, StoredStays, Zenon DEF SameWork
<1>13. ReaderInv'
  BY ReaderStays, Zenon DEF StoreInv
<1>. QED
  BY <1>4, <1>5, <1>6, <1>7, <1>8, <1>9, <1>10, <1>12, <1>13, Zenon DEF StoreInv

\* A database call of add_entries fails.
LEMMA DbFailsKeeps ==
    ASSUME StoreInv, DbFails
    PROVE  StoreInv'
<1>1. /\ worker.pc \in {"group", "assign", "allocate", "commit"}
      /\ worker' = [worker EXCEPT !.pc = "refuse"]
      /\ UNCHANGED <<nextId, infos, index, reqs, answer, queue, handles, reader>>
      /\ UNCHANGED <<log, files, opening>>
  BY DEF DbFails, durable
<1>2. LogInv' /\ Grows(files, files')
  BY <1>1, FilesStay, Zenon DEF StoreInv
<1>3. log'.id \in Nat /\ log'.offset \in Nat
  BY <1>1, Zenon DEF StoreInv, Typed
<1>. QED
  BY <1>1, <1>2, <1>3, Refusing, Zenon

\* A write to the log fails and leaves nothing but, perhaps, a new file.
LEMMA AppendFailsKeeps ==
    ASSUME StoreInv, AppendFails, LogFaults = FALSE
    PROVE  StoreInv'
<1>1. /\ worker.pc \in {"group", "assign", "allocate", "commit"}
      /\ worker' = [worker EXCEPT !.pc = "refuse"]
      /\ UNCHANGED <<nextId, infos, index, reqs, answer, queue, handles, reader>>
      /\ opening' = opening
  BY DEF AppendFails, AllPlaced
<1>2. files' = Written(0) /\ log' = Rotated
  BY DEF AppendFails, FailedWrites
<1>3. 0 \in 0..Len(Buffer) /\ Rotated.offset + 0 = Rotated.offset
  <2>1. Len(Buffer) \in Nat /\ Rotated.offset \in Nat
    BY BufferHolds DEF StoreInv, Rotated, Typed
  <2>. QED
    BY <2>1
<1>4. /\ Files(Written(0), 0..Rotated.id) /\ Grows(files, Written(0))
      /\ Rotated = [id |-> Rotated.id, offset |-> Rotated.offset, open |-> Rotated.id]
      /\ Rotated.id \in Nat /\ Rotated.offset \in Nat
      /\ Len(Written(0)[Rotated.id]) = Rotated.offset
  BY <1>3, WrittenHolds DEF StoreInv
<1>5. LogInv' /\ Grows(files, files') /\ log'.id \in Nat /\ log'.offset \in Nat
  BY <1>2, <1>4, Zenon DEF LogInv
<1>. QED
  BY <1>1, <1>5, Refusing, Zenon

\* A step of an open or of a reader, beside the worker.
LEMMA Beside ==
    ASSUME StoreInv, UNCHANGED <<nextId, infos, index, reqs, answer, queue, handles>>,
           UNCHANGED <<files, log, worker>>, Typed', HandlesInv', OpeningInv', ReaderInv'
    PROVE  StoreInv'
<1>1. LogInv' /\ Grows(files, files')
  BY FilesStay, Zenon DEF StoreInv
<1>2. ListsInv'
  BY ListsStay, Zenon DEF StoreInv
<1>3. BatchInv' /\ AddingInv' /\ PlacedInv' /\ LocatedInv' /\ CommittedInv'
  <2>1. AddingInv'
    BY Zenon DEF StoreInv, AddingInv, Adding, Given
  <2>2. CommittedInv'
    BY Zenon DEF StoreInv, CommittedInv, Committed, ReadsAs
  <2>. QED
    BY <2>1, <2>2, BatchSame, PlacedSame, Zenon DEF StoreInv
<1>4. LogKept
  BY <1>1, Zenon DEF LogKept, ReqsKept
<1>5. Readable' /\ BehindInv' /\ ConfirmedReadable'
  BY <1>4, StoredStays, Zenon DEF Uncommitted
<1>. QED
  BY <1>1, <1>2, <1>3, <1>5, Zenon DEF StoreInv

\* The open of a ledger fails, for the worker or for somebody else.
LEMMA OpenFailsKeeps ==
    ASSUME StoreInv, OpenFails
    PROVE  StoreInv'
<1>1. /\ UNCHANGED <<nextId, infos, index, reqs, answer, queue, handles, reader>>
      /\ UNCHANGED <<log, files>> /\ opening' = NotOpening
  BY DEF OpenFails, durable
<1>2. LogInv' /\ Grows(files, files') /\ log'.id \in Nat /\ log'.offset \in Nat
  <2>1. LogInv' /\ Grows(files, files')
    BY <1>1, FilesStay, Zenon DEF StoreInv
  <2>. QED
    BY <1>1, <2>1, Zenon DEF StoreInv, Typed
<1>3. CASE worker' = worker
  <2>1. Typed'
    <3>1. NotOpening \in Opening
      BY DEF NotOpening, Opening
    <3>. QED
      BY <1>1, <1>3, <3>1, Zenon DEF StoreInv, Typed
  <2>2. HandlesInv'
    BY <1>1, <1>3, HandlesStay, Zenon DEF StoreInv
  <2>3. OpeningInv'
    BY <1>1, Zenon DEF OpeningInv
  <2>4. ReaderInv'
    BY <1>1, ReaderStays, Zenon DEF StoreInv
  <2>. QED
    BY <1>1, <1>3, <2>1, <2>2, <2>3, <2>4, Beside, Zenon
<1>4. CASE worker.pc = "group" /\ worker' = [worker EXCEPT !.pc = "refuse"]
  BY <1>1, <1>2, <1>4, Refusing
<1>. QED
  BY <1>3, <1>4 DEF OpenFails

----------------------------------------------------------------------------
(* Opening a ledger, reading. *)

\* An open that starts.
LEMMA OpenKeeps ==
    ASSUME StoreInv, NEW t \in Topics, open_ledger(t), AllocatorRaces = FALSE
    PROVE  StoreInv'
<1>1. /\ UNCHANGED <<nextId, infos, index, reqs, answer, queue, handles>>
      /\ UNCHANGED <<files, log, worker>> /\ UNCHANGED reader
      /\ handles[t] = Closed /\ opening = NotOpening /\ AllocatorFree
  BY DEF open_ledger, durable
<1>2. /\ opening' \in Opening /\ opening'.topic = t /\ opening'.got = nextId
      /\ opening'.pc \in {"allocate", "store"}
      /\ opening'.pc = "store" => infos[t] # <<>>
  BY DEF open_ledger, StoreInv, Typed, Opening
<1>3. Typed'
  BY <1>1, <1>2, Zenon DEF StoreInv, Typed
<1>4. HandlesInv'
  <2>. SUFFICES ASSUME NEW u \in Topics, handles[u] # Closed PROVE HandleOk(u)'
    BY <1>1, Zenon DEF HandlesInv
  <2>1. HandleOk(u)
    BY Zenon DEF HandlesInv, StoreInv
  <2>2. opening'.topic # u
    BY <1>1, <1>2
  <2>. QED
    BY <1>1, <2>1, <2>2, Zenon DEF HandleOk
<1>5. OpeningInv'
  BY <1>1, <1>2 DEF OpeningInv, AllocatorFree
<1>6. ReaderInv'
  BY <1>1, ReaderStays, Zenon DEF StoreInv
<1>. QED
  BY <1>1, <1>3, <1>4, <1>5, <1>6, Beside, Zenon

\* A reader loads the LAC.
LEMMA LoadLacKeeps ==
    ASSUME StoreInv, NEW t \in Topics, LoadLac(t)
    PROVE  StoreInv'
<1>1. /\ UNCHANGED <<nextId, infos, index, reqs, answer, queue, handles>>
      /\ UNCHANGED <<files, log, worker>> /\ UNCHANGED opening
      /\ handles[t].lac # NoPosition /\ reader' = [topic |-> t, lac |-> handles[t].lac]
  BY DEF LoadLac, durable
<1>2. handles[t].lac \in Entries(handles[t].info)
  <2>1. handles[t] # Closed
    BY <1>1 DEF Closed
  <2>. QED
    BY <1>1, <2>1, Zenon DEF StoreInv, HandlesInv, HandleOk
<1>3. reader' \in Readers /\ reader'.topic = t /\ reader'.lac = handles[t].lac
  <2>1. handles[t].lac \in Position \cup {NoPosition}
    BY DEF StoreInv, Typed, Handle
  <2>. QED
    BY <1>1, <2>1 DEF Readers
<1>4. Typed'
  BY <1>1, <1>3, Zenon DEF StoreInv, Typed
<1>5. HandlesInv' /\ OpeningInv'
  <2>1. HandlesInv'
    BY <1>1, HandlesStay, Zenon DEF StoreInv
  <2>2. OpeningInv'
    BY <1>1, Zenon DEF StoreInv, OpeningInv, Adding
  <2>. QED
    BY <2>1, <2>2
<1>6. ReaderInv'
  BY <1>1, <1>2, <1>3, Zenon DEF ReaderInv
<1>. QED
  BY <1>1, <1>4, <1>5, <1>6, Beside, Zenon

\* A reader is done.
LEMMA LoadInfoKeeps ==
    ASSUME StoreInv, LoadInfo
    PROVE  StoreInv'
<1>1. /\ UNCHANGED <<nextId, infos, index, reqs, answer, queue, handles>>
      /\ UNCHANGED <<files, log, worker>> /\ UNCHANGED opening
      /\ reader' = IdleReader
  BY DEF LoadInfo, durable
<1>2. IdleReader \in Readers
  BY DEF IdleReader, Readers, NoPosition
<1>3. Typed'
  BY <1>1, <1>2, Zenon DEF StoreInv, Typed
<1>4. HandlesInv'
  BY <1>1, HandlesStay, Zenon DEF StoreInv
<1>5. OpeningInv'
  BY <1>1, Zenon DEF StoreInv, OpeningInv, Adding
<1>6. ReaderInv'
  BY <1>1, Zenon DEF ReaderInv
<1>. QED
  BY <1>1, <1>3, <1>4, <1>5, <1>6, Beside, Zenon

\* A larger allocator leaves every id below it.
LEMMA BelowMore ==
    ASSUME NEW ls \in Lists, NEW m \in Nat, NEW n \in Nat, m <= n, Below(ls, m)
    PROVE  Below(ls, n)
<1>1. \A i \in DOMAIN ls : ls[i].id \in Nat
  <2>1. \A i \in DOMAIN ls : ls[i] \in Ledger
    BY DEF Lists
  <2>. QED
    BY <2>1 DEF Ledger
<1>. QED
  BY <1>1 DEF Below

\* An id past the ids of a list is not one of them.
LEMMA BelowNot ==
    ASSUME NEW ls, NEW n \in Nat, Below(ls, n)
    PROVE  n \notin Ids(ls)
BY DEF Below, Ids

\* The allocator's put, for an open.
LEMMA OpenAllocatesKeeps ==
    ASSUME StoreInv, OpenAllocates
    PROVE  StoreInv'
<1>1. /\ UNCHANGED <<infos, index, files, log, reqs, answer, queue>>
      /\ UNCHANGED <<handles, worker, reader>>
      /\ opening.pc = "allocate" /\ opening' = [opening EXCEPT !.pc = "append"]
  BY DEF OpenAllocates
<1>2. opening # NotOpening
  BY <1>1 DEF NotOpening
<1>3. opening.got = nextId /\ worker.pc # "allocate" /\ opening.topic \in Topics
  BY <1>1, <1>2, Zenon DEF StoreInv, OpeningInv
<1>4. nextId \in Nat /\ nextId' = nextId + 1 /\ nextId' \in Nat /\ nextId <= nextId' /\ nextId < nextId'
  BY <1>3 DEF StoreInv, Typed, OpenAllocates
<1>5. /\ opening' \in Opening /\ opening'.pc = "append" /\ opening'.topic = opening.topic
      /\ opening'.got = nextId
  BY <1>1, <1>3 DEF StoreInv, Typed, Opening
<1>6. Typed'
  BY <1>1, <1>4, <1>5, Zenon DEF StoreInv, Typed
<1>7. LogInv' /\ Grows(files, files')
  BY <1>1, FilesStay, Zenon DEF StoreInv
<1>8. \A t \in Topics : infos[t] \in Lists /\ Below(infos[t], nextId)
  BY DEF StoreInv, Typed, ListsInv
<1>9. ListsInv'
  <2>1. \A t \in Topics : Below(infos[t], nextId')
    BY <1>4, <1>8, BelowMore, Zenon
  <2>. QED
    BY <1>1, <2>1, Zenon DEF StoreInv, ListsInv
<1>10. HandlesInv'
  <2>. SUFFICES ASSUME NEW u \in Topics, handles[u] # Closed PROVE HandleOk(u)'
    BY <1>1, Zenon DEF HandlesInv
  <2>1. HandleOk(u)
    BY Zenon DEF HandlesInv, StoreInv
  <2>. QED
    BY <1>1, <1>2, <1>5, <2>1, Zenon DEF HandleOk
<1>11. Adding => Below(worker.info, nextId) /\ worker.info \in Lists
  BY Zenon DEF StoreInv, AddingInv, Typed, Workers
<1>12. OpeningInv'
  <2>1. \A t \in Topics : nextId \notin Ids(infos[t])
    BY <1>4, <1>8, BelowNot, Zenon
  <2>2. Adding => nextId \notin Ids(worker.info)
    BY <1>4, <1>11, BelowNot, Zenon
  <2>3. Adding' <=> Adding
    BY <1>1, Zenon DEF Adding
  <2>. QED
    BY <1>1, <1>3, <1>4, <1>5, <1>8, <2>1, <2>2, <2>3 DEF OpeningInv
<1>13. AddingInv'
  <2>1. Adding => Below(worker.info, nextId')
    BY <1>4, <1>11, BelowMore, Zenon
  <2>. QED
    BY <1>1, <1>3, <2>1, Zenon DEF StoreInv, AddingInv, Adding, Given
<1>14. BatchInv' /\ PlacedInv' /\ LocatedInv' /\ CommittedInv'
  <2>1. CommittedInv'
    BY <1>1, Zenon DEF StoreInv, CommittedInv, Committed, ReadsAs
  <2>. QED
    BY <1>1, <2>1, BatchSame, PlacedSame, Zenon DEF StoreInv
<1>15. LogKept
  BY <1>1, <1>7, Zenon DEF LogKept, ReqsKept
<1>16. Readable' /\ BehindInv' /\ ConfirmedReadable'
  BY <1>1, <1>15, StoredStays, Zenon DEF Uncommitted
<1>17. ReaderInv'
  BY <1>1, ReaderStays, Zenon DEF StoreInv
<1>. QED
  BY <1>6, <1>7, <1>9, <1>10, <1>12, <1>13, <1>14, <1>16, <1>17, Zenon DEF StoreInv

\* The stored list goes into the database and the ledger into the cache.
LEMMA OpenStoresKeeps ==
    ASSUME StoreInv, OpenStores
    PROVE  StoreInv' /\ LogKept
<1>0. PICK t : t = opening.topic
  BY Zenon
<1>. DEFINE ls == IF opening.pc = "append" THEN Append(infos[t], NewLedger(opening.got)) ELSE infos[t]
<1>1. /\ UNCHANGED <<nextId, index, files, log, reqs, answer>> /\ UNCHANGED <<queue, worker, reader>>
      /\ opening.pc \in {"append", "store"} /\ opening' = NotOpening
      /\ infos' = [infos EXCEPT ![t] = ls]
      /\ handles' = [handles EXCEPT ![t] = [info |-> ls, lac |-> LacOf(ls)]]
  BY <1>0 DEF OpenStores
<1>2. opening # NotOpening
  BY <1>1 DEF NotOpening
<1>3. /\ t \in Topics
      /\ opening.pc = "append" =>
            /\ opening.got < nextId /\ Below(infos[t], opening.got)
            /\ \A u \in Topics : opening.got \notin Ids(infos[u])
            /\ Adding => opening.got \notin Ids(worker.info)
      /\ opening.pc = "store" => infos[t] # <<>>
  BY <1>0, <1>2, Zenon DEF StoreInv, OpeningInv
<1>4. /\ infos[t] \in Lists /\ Sorted(infos[t]) /\ Below(infos[t], nextId)
      /\ opening.got \in Nat /\ nextId \in Nat
  BY <1>3 DEF StoreInv, Typed, ListsInv, Opening
<1>5. /\ ls \in Lists /\ ls # <<>> /\ Sorted(ls) /\ Below(ls, nextId) /\ Entries(ls) = Entries(infos[t])
      /\ \A u \in Topics \ {t} : Apart(ls, infos[u])
      /\ Adding /\ worker.topic # t => Apart(worker.info, ls)
  <2>1. CASE opening.pc = "append"
    <3>1. ls = Append(infos[t], NewLedger(opening.got))
      BY <2>1
    <3>. HIDE DEF ls
    <3>2. /\ ls \in Lists /\ ls # <<>> /\ Sorted(ls) /\ Entries(ls) = Entries(infos[t])
          /\ Ids(ls) = Ids(infos[t]) \cup {opening.got} /\ Below(ls, nextId)
      BY <1>3, <1>4, <2>1, <3>1, NewLedgerAt, Zenon
    <3>3. \A u \in Topics \ {t} : Apart(infos[t], infos[u]) /\ opening.got \notin Ids(infos[u])
      BY <1>3, <2>1, Zenon DEF StoreInv, ListsInv
    <3>4. Adding /\ worker.topic # t => Apart(worker.info, infos[t]) /\ opening.got \notin Ids(worker.info)
      BY <1>3, <2>1, Zenon DEF StoreInv, AddingInv
    <3>. QED
      BY <3>2, <3>3, <3>4, Zenon DEF Apart
  <2>2. CASE opening.pc = "store"
    <3>1. ls = infos[t]
      BY <2>2
    <3>2. \A u \in Topics \ {t} : Apart(infos[t], infos[u])
      BY <1>3, Zenon DEF StoreInv, ListsInv
    <3>3. Adding /\ worker.topic # t => Apart(worker.info, infos[t])
      BY <1>3, Zenon DEF StoreInv, AddingInv
    <3>. QED
      BY <1>3, <1>4, <2>2, <3>1, <3>2, <3>3, Zenon
  <2>. QED
    BY <1>1, <2>1, <2>2
<1>6. LacOf(ls) = NoPosition \/ LacOf(ls) \in Entries(ls) \cap DOMAIN index
  <2>. DEFINE last == {p \in Entries(ls) \cap DOMAIN index : \A q \in Entries(ls) : Leq(q, p)}
  <2>1. LacOf(ls) = IF last = {} THEN NoPosition ELSE CHOOSE p \in last : TRUE
    BY Zenon DEF LacOf
  <2>2. last # {} => (CHOOSE p \in last : TRUE) \in last
    BY Zenon
  <2>. QED
    BY <2>1, <2>2
<1>. HIDE DEF ls
<1>7. infos'[t] = ls /\ \A u \in Topics : u # t => infos'[u] = infos[u]
  BY <1>1, <1>3 DEF StoreInv, Typed
<1>8. /\ handles'[t].info = ls /\ handles'[t].lac = LacOf(ls)
      /\ \A u \in Topics : u # t => handles'[u] = handles[u]
  BY <1>1, <1>3 DEF StoreInv, Typed
<1>9. Typed'
  <2>1. LacOf(ls) \in Position \cup {NoPosition}
    BY <1>6, Zenon DEF StoreInv, Typed
  <2>2. [info |-> ls, lac |-> LacOf(ls)] \in Handle
    BY <1>5, <2>1 DEF Handle
  <2>3. infos' \in [Topics -> Lists] /\ handles' \in [Topics -> Handle]
    BY <1>1, <1>3, <1>5, <2>2 DEF StoreInv, Typed
  <2>4. opening' \in Opening
    BY <1>1 DEF NotOpening, Opening
  <2>. QED
    BY <1>1, <2>3, <2>4, Zenon DEF StoreInv, Typed
<1>10. LogInv' /\ Grows(files, files')
  BY <1>1, FilesStay, Zenon DEF StoreInv
<1>11. ListsInv'
  <2>1. \A u \in Topics : Sorted(infos'[u]) /\ Below(infos'[u], nextId)
    BY <1>5, <1>7, Zenon DEF StoreInv, ListsInv
  <2>2. ASSUME NEW u \in Topics, NEW v \in Topics, u # v PROVE Apart(infos'[u], infos'[v])
    <3>1. CASE u = t
      BY <3>1, <2>2, <1>5, <1>7, Zenon
    <3>2. CASE v = t
      BY <3>2, <2>2, <1>5, <1>7, Zenon DEF Apart
    <3>3. CASE u # t /\ v # t
      BY <3>3, <2>2, <1>7, Zenon DEF StoreInv, ListsInv
    <3>. QED
      BY <3>1, <3>2, <3>3
  <2>. QED
    BY <1>1, <2>1, <2>2, Zenon DEF ListsInv
<1>12. handles[t] = Closed
  BY <1>0, <1>2, <1>3, Zenon DEF StoreInv, HandlesInv, HandleOk
<1>13. HandlesInv'
  <2>1. HandleOk(t)'
    BY <1>1, <1>5, <1>6, <1>7, <1>8, Zenon DEF HandleOk
  <2>2. ASSUME NEW u \in Topics, u # t, handles[u] # Closed PROVE HandleOk(u)'
    <3>1. HandleOk(u)
      BY <2>2, Zenon DEF HandlesInv, StoreInv
    <3>. QED
      BY <1>1, <1>7, <1>8, <2>2, <3>1, Zenon DEF HandleOk
  <2>. QED
    BY <1>8, <2>1, <2>2, Zenon DEF HandlesInv
<1>14. OpeningInv'
  BY <1>1, Zenon DEF OpeningInv
<1>15. Adding \/ Committed => worker.topic # t /\ worker.topic \in Topics
  <2>1. Adding \/ Committed => worker.pc # "recv"
    BY DEF Adding, Committed
  <2>. QED
    BY <1>12, <2>1, Zenon DEF StoreInv, AddingInv, CommittedInv, BatchInv
<1>16. BatchInv' /\ PlacedInv' /\ LocatedInv'
  BY <1>1, BatchSame, PlacedSame, Zenon DEF StoreInv
<1>17. AddingInv'
  <2>1. Adding' <=> Adding
    BY <1>1, Zenon DEF Adding
  <2>2. ASSUME Adding, NEW u \in Topics, u # worker.topic PROVE Apart(worker.info, infos'[u])
    BY <1>5, <1>7, <1>15, <2>2, Zenon DEF StoreInv, AddingInv
  <2>3. Adding => infos'[worker.topic] = infos[worker.topic] /\ handles'[worker.topic] # Closed
    BY <1>7, <1>8, <1>15, Zenon DEF StoreInv, AddingInv
  <2>. QED
    BY <1>1, <2>1, <2>2, <2>3, Zenon DEF StoreInv, AddingInv, Given
<1>18. CommittedInv'
  BY <1>1, <1>7, <1>8, <1>15, Zenon DEF StoreInv, CommittedInv, Committed, ReadsAs
<1>19. LogKept
  BY <1>1, <1>5, <1>7, <1>10, Zenon DEF LogKept, ReqsKept
<1>20. Readable' /\ BehindInv' /\ ConfirmedReadable'
  BY <1>1, <1>19, StoredStays, Zenon DEF Uncommitted
<1>21. ReaderInv'
  <2>1. Closed.info = <<>> /\ <<>> \in Lists /\ Len(<<>>) = 0
    BY DEF Closed, Lists
  <2>2. Entries(<<>>) = {}
    <3>1. ~\E i \in 1..Len(<<>>) : TRUE
      BY <2>1
    <3>2. \A p : p \notin Entries(<<>>)
      BY <2>1, <3>1, EntryOf, Zenon
    <3>. QED
      BY <3>2, Zenon
  <2>3. \A u \in Topics : Entries(handles[u].info) \subseteq Entries(handles'[u].info)
    BY <1>8, <1>12, <2>1, <2>2, Zenon
  <2>. QED
    BY <1>1, <2>3, ReaderStays, Zenon DEF StoreInv
<1>. QED
  BY <1>9, <1>10, <1>11, <1>13, <1>14, <1>16, <1>17, <1>18, <1>19, <1>20, <1>21, Zenon DEF StoreInv

----------------------------------------------------------------------------
(* Publishes, batches and groups. *)

\* The worker turns to the next group of a batch, or to the channel.
LEMMA Turns ==
    ASSUME Typed, NEW batch, batch \subseteq DOMAIN reqs, TurnsTo(batch)
    PROVE  /\ worker' \in Workers /\ worker'.pc \in {"recv", "group"} /\ worker'.placed = <<>>
           /\ worker'.pc = "recv" => worker'.group = {} /\ worker'.rest = {}
           /\ worker'.pc = "group" => worker'.group # {} /\ worker'.topic \in Topics
           /\ \A r \in worker'.group : r \in batch /\ reqs[r] = worker'.topic
           /\ \A r \in worker'.rest : r \in batch /\ reqs[r] # worker'.topic
<1>1. IdleWorker \in Workers
  <2>1. <<>> \in Seq(Ledger) /\ <<>> \in Seq(Placing) /\ <<>> \in Seq(Location)
    OBVIOUS
  <2>. QED
    BY <2>1 DEF IdleWorker, Workers, Lists
<1>2. DOMAIN reqs \subseteq Nat /\ \A r \in DOMAIN reqs : reqs[r] \in Topics
  BY DEF Typed
<1>3. CASE worker' = IdleWorker
  BY <1>1, <1>3 DEF IdleWorker
<1>4. CASE worker' # IdleWorker
  <2>1. PICK first \in Firsts(batch) :
           worker' = [IdleWorker EXCEPT !.pc = "group", !.topic = reqs[first],
                            !.group = {r \in batch : reqs[r] = reqs[first]},
                            !.rest = {r \in batch : reqs[r] # reqs[first]}]
    BY <1>4, Zenon DEF TurnsTo
  <2>. DEFINE t == reqs[first]
              g == {r \in batch : reqs[r] = t}
              q == {r \in batch : reqs[r] # t}
  <2>2. first \in batch /\ t \in Topics /\ first \in g
    BY <1>2, Zenon DEF Firsts
  <2>3. g \subseteq Nat /\ q \subseteq Nat /\ g # {}
    BY <1>2, <2>2, Zenon
  <2>4. worker' = [pc |-> "group", topic |-> t, group |-> g, rest |-> q, info |-> <<>>,
                   placed |-> <<>>, located |-> <<>>, got |-> 0]
    BY <2>1, Zenon DEF IdleWorker
  <2>5. /\ worker'.pc = "group" /\ worker'.topic = t /\ worker'.group = g /\ worker'.rest = q
        /\ worker'.placed = <<>>
    BY <2>4
  <2>6. worker' \in Workers
    <3>1. <<>> \in Seq(Ledger) /\ <<>> \in Seq(Placing) /\ <<>> \in Seq(Location)
      OBVIOUS
    <3>. HIDE DEF t, g, q
    <3>. QED
      BY <2>2, <2>3, <2>4, <3>1 DEF Workers, Lists
  <2>. QED
    BY <2>2, <2>3, <2>5, <2>6, Zenon
<1>. QED
  BY <1>3, <1>4

\* What the channel holds.
QueueOk == \A i \in 1..Len(queue) : queue[i] = Received + i /\ answer[Received + i] = Waiting

\* Turning to a group keeps the invariant.
LEMMA TurnKeeps ==
    ASSUME StoreInv, NEW batch, TurnsTo(batch),
           UNCHANGED <<nextId, infos, index, files, log, reqs>>,
           UNCHANGED <<handles, opening, reader>>, worker.pc # "publish",
           queue' \in Seq(Nat), answer' \in Seq(Told), Len(answer') = Len(reqs),
           Received' \in Nat, Received <= Received', QueueOk',
           \A r \in batch : r \in worker.rest \/ r > Received,
           \A r \in batch : r \in 1..Received' /\ answer'[r] = Waiting,
           \A r \in DOMAIN reqs : answer'[r].is = "ok" =>
              \/ answer'[r] = answer[r]
              \/ answer'[r].at \in Entries(infos[reqs[r]]) /\ ReadsAs(answer'[r].at, r)
    PROVE  StoreInv'
<1>1. batch \subseteq DOMAIN reqs
  <2>1. Len(queue') \in Nat /\ Len(reqs) \in Nat /\ DOMAIN reqs = 1..Len(reqs)
    BY DEF StoreInv, Typed
  <2>2. Received' <= Len(reqs)
    BY <2>1 DEF Received
  <2>. QED
    BY <2>1, <2>2
<1>2. /\ worker' \in Workers /\ worker'.pc \in {"recv", "group"} /\ worker'.placed = <<>>
      /\ worker'.pc = "recv" => worker'.group = {} /\ worker'.rest = {}
      /\ worker'.pc = "group" => worker'.group # {} /\ worker'.topic \in Topics
      /\ \A r \in worker'.group : r \in batch /\ reqs[r] = worker'.topic
      /\ \A r \in worker'.rest : r \in batch /\ reqs[r] # worker'.topic
  BY <1>1, Turns, Zenon DEF StoreInv
<1>3. ~Adding' /\ ~Committed' /\ worker'.pc # "commit"
  BY <1>2 DEF Adding, Committed
<1>4. Typed'
  BY <1>2, Zenon DEF StoreInv, Typed
<1>5. LogInv' /\ Grows(files, files')
  BY FilesStay, Zenon DEF StoreInv
<1>6. ListsInv' /\ HandlesInv' /\ ReaderInv'
  <2>1. ListsInv'
    BY ListsStay, Zenon DEF StoreInv
  <2>2. HandlesInv'
    BY HandlesStay, Zenon DEF StoreInv
  <2>3. ReaderInv'
    BY ReaderStays, Zenon DEF StoreInv
  <2>. QED
    BY <2>1, <2>2, <2>3
<1>7. OpeningInv'
  <2>1. worker'.pc # "allocate"
    BY <1>2
  <2>. QED
    BY <1>3, <2>1, OpeningStays, Zenon DEF StoreInv
<1>8. BatchInv'
  <2>1. \A r \in worker'.group : r \in 1..Received' /\ answer'[r] = Waiting /\ reqs[r] = worker'.topic
    BY <1>2, Zenon
  <2>2. \A r \in worker'.rest : r \in 1..Received' /\ answer'[r] = Waiting /\ reqs[r] # worker'.topic
    BY <1>2, Zenon
  <2>. QED
    BY <1>2, <2>1, <2>2 DEF BatchInv, QueueOk
<1>9. AddingInv' /\ LocatedInv' /\ CommittedInv'
  BY <1>3, Zenon DEF AddingInv, LocatedInv, CommittedInv
<1>10. PlacedInv'
  <2>1. DOMAIN worker'.placed = {}
    BY <1>2
  <2>. QED
    BY <1>3, <2>1, Zenon DEF PlacedInv
<1>11. LogKept
  BY <1>5, Zenon DEF LogKept, ReqsKept
<1>12. Readable'
  BY <1>11, ReadableStays, Zenon DEF StoreInv
<1>13. DOMAIN reqs = DOMAIN answer
  BY DEF StoreInv, Typed
<1>14. ConfirmedReadable'
  BY <1>11, <1>13, ConfirmedStays, Zenon DEF StoreInv
<1>15. BehindInv'
  <2>1. \A s \in worker'.rest : s \in DOMAIN reqs /\ (s \in worker.rest \/ s > Received)
    BY <1>1, <1>2, Zenon
  <2>2. \A s \in worker'.group : \/ s \in DOMAIN reqs /\ s > Received
                                 \/ s \in worker.rest /\ reqs[s] = worker'.topic
    BY <1>1, <1>2, Zenon
  <2>. QED
    BY <1>11, <2>1, <2>2, BehindStays, Zenon DEF StoreInv
<1>. QED
  BY <1>4, <1>5, <1>6, <1>7, <1>8, <1>9, <1>10, <1>12, <1>14, <1>15, Zenon DEF StoreInv

\* The rest of a sequence after its first n elements.
LEMMA RestOf ==
    ASSUME NEW S, NEW a \in Seq(S), NEW n \in 0..Len(a)
    PROVE  /\ SubSeq(a, n + 1, Len(a)) \in Seq(S)
           /\ Len(SubSeq(a, n + 1, Len(a))) = Len(a) - n
           /\ \A i \in 1..(Len(a) - n) : SubSeq(a, n + 1, Len(a))[i] = a[n + i]
<1>1. SubSeq(a, n + 1, Len(a)) \in Seq(S)
  OBVIOUS
<1>2. Len(SubSeq(a, n + 1, Len(a))) = Len(a) - n
  OBVIOUS
<1>3. \A i \in 1..(Len(a) - n) : SubSeq(a, n + 1, Len(a))[i] = a[n + i]
  OBVIOUS
<1>. QED
  BY <1>1, <1>2, <1>3

\* The worker takes a batch.
LEMMA TakeBatchKeeps ==
    ASSUME StoreInv, TakeBatch
    PROVE  StoreInv'
<1>. DEFINE n == IF Len(queue) < MaxBatch THEN Len(queue) ELSE MaxBatch
            batch == {queue[i] : i \in 1..n}
<1>1. /\ UNCHANGED <<nextId, infos, index, files, log, reqs>>
      /\ UNCHANGED <<handles, opening, reader>> /\ UNCHANGED answer
      /\ worker.pc = "recv" /\ TurnsTo(batch) /\ queue' = SubSeq(queue, n + 1, Len(queue))
  BY DEF TakeBatch, durable
<1>2. queue \in Seq(Nat) /\ Len(queue) \in Nat /\ n \in 0..Len(queue) /\ Len(reqs) \in Nat
  BY SizesAssumption DEF StoreInv, Typed
<1>. HIDE DEF n, batch
<1>3. /\ queue' \in Seq(Nat) /\ Len(queue') = Len(queue) - n
      /\ \A i \in 1..(Len(queue) - n) : queue'[i] = queue[n + i]
  BY <1>1, <1>2, RestOf, Zenon
<1>4. Received \in Nat /\ Received' = Received + n /\ Received' \in Nat /\ Received <= Received'
  <2>1. Received \in Nat
    BY Zenon DEF StoreInv, BatchInv
  <2>2. Received = Len(reqs) - Len(queue) /\ Received' = Len(reqs) - Len(queue')
    BY <1>1, Zenon DEF Received
  <2>. QED
    BY <1>2, <1>3, <2>1, <2>2
<1>5. \A i \in 1..Len(queue) : queue[i] = Received + i /\ answer[Received + i] = Waiting
  BY Zenon DEF StoreInv, BatchInv
<1>6. QueueOk'
  <2>. SUFFICES ASSUME NEW i \in 1..Len(queue')
                PROVE  queue'[i] = Received' + i /\ answer'[Received' + i] = Waiting
    BY Zenon DEF QueueOk
  <2>1. i \in 1..(Len(queue) - n)
    BY <1>3, Zenon
  <2>2. n + i \in 1..Len(queue) /\ Received' + i = Received + (n + i)
    BY <1>2, <1>4, <2>1
  <2>. QED
    BY <1>1, <1>3, <1>5, <2>1, <2>2, Zenon
<1>7. \A r \in batch : r > Received /\ r \in 1..Received' /\ answer[r] = Waiting
  <2>. SUFFICES ASSUME NEW i \in 1..n
                PROVE  queue[i] > Received /\ queue[i] \in 1..Received' /\ answer[queue[i]] = Waiting
    BY Zenon DEF batch
  <2>1. i \in 1..Len(queue)
    BY <1>2
  <2>. QED
    BY <1>2, <1>4, <1>5, <2>1
<1>8. worker.pc # "publish"
  BY <1>1
<1>9. answer' \in Seq(Told) /\ Len(answer') = Len(reqs)
  BY <1>1, Zenon DEF StoreInv, Typed
<1>. QED
  BY <1>1, <1>3, <1>4, <1>6, <1>7, <1>8, <1>9, TurnKeeps, Zenon

\* Another publish enters the channel.
LEMMA SubmitKeeps ==
    ASSUME StoreInv, NEW t \in Topics, Submit(t)
    PROVE  StoreInv' /\ LogKept
<1>1. /\ UNCHANGED <<nextId, infos, index, files, log>> /\ UNCHANGED <<handles, opening, worker, reader>>
      /\ reqs' = Append(reqs, t) /\ answer' = Append(answer, Waiting)
      /\ queue' = Append(queue, Len(reqs'))
  BY DEF Submit, durable
<1>2. /\ reqs \in Seq(Topics) /\ answer \in Seq(Told) /\ queue \in Seq(Nat) /\ Len(answer) = Len(reqs)
      /\ Waiting \in Told
  BY DEF StoreInv, Typed, Waiting, Told, NoPosition
<1>3. /\ reqs' \in Seq(Topics) /\ Len(reqs') = Len(reqs) + 1 /\ DOMAIN reqs' = 1..(Len(reqs) + 1)
      /\ \A r \in 1..Len(reqs) : reqs'[r] = reqs[r]
      /\ Len(reqs) \in Nat /\ DOMAIN reqs = 1..Len(reqs)
  BY <1>1, <1>2
<1>4. /\ answer' \in Seq(Told) /\ Len(answer') = Len(reqs) + 1
      /\ \A r \in 1..Len(reqs) : answer'[r] = answer[r]
      /\ answer'[Len(reqs) + 1] = Waiting /\ DOMAIN answer = 1..Len(reqs)
  BY <1>1, <1>2
<1>5. /\ queue' \in Seq(Nat) /\ Len(queue') = Len(queue) + 1 /\ Len(queue) \in Nat
      /\ \A i \in 1..Len(queue) : queue'[i] = queue[i]
      /\ queue'[Len(queue) + 1] = Len(reqs) + 1
  <2>1. Len(reqs') \in Nat
    BY <1>3
  <2>2. queue' \in Seq(Nat)
    BY <1>1, <1>2, <2>1
  <2>3. Len(queue') = Len(queue) + 1 /\ Len(queue) \in Nat
    BY <1>1, <1>2, <2>1
  <2>4. /\ \A i \in 1..Len(queue) : queue'[i] = queue[i]
        /\ queue'[Len(queue) + 1] = Len(reqs')
    BY <1>1, <1>2, <2>1
  <2>. QED
    BY <1>3, <2>2, <2>3, <2>4
<1>6. Received \in Nat /\ Received' = Received /\ Len(reqs) = Received + Len(queue)
  <2>1. Received \in Nat
    BY Zenon DEF StoreInv, BatchInv
  <2>. QED
    BY <1>3, <1>5, <2>1 DEF Received
<1>7. Typed'
  BY <1>1, <1>3, <1>4, <1>5, Zenon DEF StoreInv, Typed
<1>8. LogInv' /\ Grows(files, files')
  BY <1>1, FilesStay, Zenon DEF StoreInv
<1>9. ListsInv' /\ HandlesInv' /\ ReaderInv' /\ OpeningInv'
  <2>1. ListsInv'
    BY <1>1, ListsStay, Zenon DEF StoreInv
  <2>2. HandlesInv'
    BY <1>1, HandlesStay, Zenon DEF StoreInv
  <2>3. ReaderInv'
    BY <1>1, ReaderStays, Zenon DEF StoreInv
  <2>4. OpeningInv'
    BY <1>1, Zenon DEF StoreInv, OpeningInv, Adding
  <2>. QED
    BY <2>1, <2>2, <2>3, <2>4
<1>10. \A r \in 1..Received : r \in 1..Len(reqs)
  BY <1>3, <1>5, <1>6
<1>11. BatchInv'
  <2>1. ASSUME NEW i \in 1..Len(queue')
        PROVE  queue'[i] = Received + i /\ answer'[Received + i] = Waiting
    <3>1. CASE i \in 1..Len(queue)
      <4>1. queue[i] = Received + i /\ answer[Received + i] = Waiting
        BY <3>1, Zenon DEF StoreInv, BatchInv
      <4>2. Received + i \in 1..Len(reqs)
        BY <3>1, <1>5, <1>6
      <4>. QED
        BY <1>4, <1>5, <3>1, <4>1, <4>2, Zenon
    <3>2. CASE i = Len(queue) + 1
      <4>1. Received + i = Len(reqs) + 1
        BY <3>2, <1>5, <1>6
      <4>. QED
        BY <1>4, <1>5, <3>2, <4>1, Zenon
    <3>. QED
      BY <1>5, <3>1, <3>2
  <2>2. \A r \in worker.group : r \in 1..Received /\ answer'[r] = Waiting /\ reqs'[r] = worker.topic
    BY <1>3, <1>4, <1>10, Zenon DEF StoreInv, BatchInv
  <2>3. \A r \in worker.rest : r \in 1..Received /\ answer'[r] = Waiting /\ reqs'[r] # worker.topic
    BY <1>3, <1>4, <1>10, Zenon DEF StoreInv, BatchInv
  <2>4. /\ worker.pc = "recv" => worker.group = {} /\ worker.rest = {}
        /\ worker.pc # "recv" => worker.group # {} /\ worker.topic \in Topics
        /\ worker.pc \in {"recv", "group"} => worker.placed = <<>>
    BY Zenon DEF StoreInv, BatchInv
  <2>. QED
    BY <1>1, <1>6, <2>1, <2>2, <2>3, <2>4, Zenon DEF BatchInv
<1>12. AddingInv' /\ PlacedInv' /\ LocatedInv' /\ CommittedInv'
  <2>1. AddingInv'
    BY <1>1, Zenon DEF StoreInv, AddingInv, Adding, Given
  <2>2. CommittedInv'
    BY <1>1, Zenon DEF StoreInv, CommittedInv, Committed, ReadsAs
  <2>. QED
    BY <1>1, <2>1, <2>2, PlacedSame, Zenon DEF StoreInv
<1>13. LogKept
  <2>1. ReqsKept
    BY <1>3 DEF ReqsKept
  <2>. QED
    BY <1>1, <1>8, <2>1, Zenon DEF LogKept
<1>14. Readable'
  BY <1>13, ReadableStays, Zenon DEF StoreInv
<1>15. ConfirmedReadable'
  <2>1. DOMAIN reqs = DOMAIN answer
    BY <1>3, <1>4
  <2>2. Waiting.is # "ok"
    BY DEF Waiting
  <2>3. \A r \in DOMAIN reqs' : answer'[r].is = "ok" => r \in DOMAIN reqs /\ answer'[r] = answer[r]
    BY <1>3, <1>4, <2>2
  <2>. QED
    BY <1>13, <2>1, <2>3, ConfirmedStays, Zenon DEF StoreInv
<1>16. BehindInv'
  <2>1. \A s \in worker.rest : s \in DOMAIN reqs
    BY <1>3, <1>10, Zenon DEF StoreInv, BatchInv
  <2>2. Received' \in Nat /\ Received <= Received'
    BY <1>6
  <2>3. Uncommitted' => Uncommitted
    BY <1>1, Zenon DEF Uncommitted
  <2>. QED
    BY <1>1, <1>13, <2>1, <2>2, <2>3, BehindStays, Zenon DEF StoreInv
<1>. QED
  BY <1>7, <1>8, <1>9, <1>11, <1>12, <1>13, <1>14, <1>15, <1>16, Zenon DEF StoreInv

\* Publishes of a group are answered one after the other.
LEMMA AnswersKeep ==
    ASSUME StoreInv, NEW r, NEW what \in Told, Answers(r, what), what # Waiting,
           what.is # "ok" \/ (what.at \in Entries(infos[reqs[r]]) /\ ReadsAs(what.at, r)),
           worker.pc \in {"reply", "refuse"}
    PROVE  StoreInv'
<1>1. /\ UNCHANGED <<nextId, infos, index, files, log, reqs>>
      /\ UNCHANGED <<handles, opening, reader>> /\ UNCHANGED queue
      /\ r \in worker.group /\ answer' = [answer EXCEPT ![r] = what]
  BY DEF Answers, durable, Firsts
<1>2. r \in 1..Received /\ answer[r] = Waiting /\ reqs[r] = worker.topic /\ Received \in Nat
  BY <1>1, Zenon DEF StoreInv, BatchInv
<1>3. /\ reqs \in Seq(Topics) /\ Len(reqs) \in Nat /\ DOMAIN reqs = 1..Len(reqs) /\ Len(queue) \in Nat
      /\ answer \in Seq(Told) /\ DOMAIN answer = 1..Len(reqs) /\ Len(answer) = Len(reqs)
  BY DEF StoreInv, Typed
<1>4. Received' = Received /\ Received <= Received' /\ Received <= Len(reqs) /\ r \in 1..Len(reqs)
  BY <1>1, <1>2, <1>3 DEF Received
<1>5. /\ answer' \in Seq(Told) /\ Len(answer') = Len(reqs) /\ answer'[r] = what
      /\ \A s \in 1..Len(reqs) : s # r => answer'[s] = answer[s]
  BY <1>1, <1>3, <1>4
<1>6. ASSUME NEW s \in worker.rest PROVE s \in 1..Received' /\ answer'[s] = Waiting
  <2>1. s \in 1..Received /\ answer[s] = Waiting /\ reqs[s] # worker.topic
    BY Zenon DEF StoreInv, BatchInv
  <2>2. s # r /\ s \in 1..Len(reqs)
    BY <1>2, <1>3, <1>4, <2>1
  <2>. QED
    BY <1>4, <1>5, <2>1, <2>2, Zenon
<1>7. QueueOk'
  <2>. SUFFICES ASSUME NEW i \in 1..Len(queue)
                PROVE  queue[i] = Received + i /\ answer'[Received + i] = Waiting
    BY <1>1, <1>4, Zenon DEF QueueOk
  <2>1. queue[i] = Received + i /\ answer[Received + i] = Waiting
    BY Zenon DEF StoreInv, BatchInv
  <2>2. Received + i \in 1..Len(reqs) /\ Received + i # r
    BY <1>2, <1>3 DEF Received
  <2>. QED
    BY <1>5, <2>1, <2>2, Zenon
<1>8. \A s \in DOMAIN reqs : answer'[s].is = "ok" =>
         \/ answer'[s] = answer[s]
         \/ answer'[s].at \in Entries(infos[reqs[s]]) /\ ReadsAs(answer'[s].at, s)
  BY <1>3, <1>5, Zenon
<1>9. queue \in Seq(Nat)
  BY DEF StoreInv, Typed
<1>10. CASE worker.group = {r}
  <2>1. TurnsTo(worker.rest)
    BY <1>10, Zenon DEF Answers
  <2>2. worker.pc # "publish"
    OBVIOUS
  <2>. QED
    BY <1>1, <1>2, <1>4, <1>5, <1>6, <1>7, <1>8, <1>9, <2>1, <2>2, TurnKeeps, Zenon
<1>11. CASE worker.group # {r}
  <2>1. worker' = [worker EXCEPT !.group = @ \ {r}]
    BY <1>11, Zenon DEF Answers
  <2>2. /\ worker' \in Workers /\ worker'.pc = worker.pc /\ worker'.group = worker.group \ {r}
        /\ worker'.topic = worker.topic /\ worker'.rest = worker.rest /\ worker'.info = worker.info
        /\ worker'.placed = worker.placed
    BY <2>1, Zenon DEF StoreInv, Typed, Workers
  <2>3. worker'.group # {} /\ worker'.group \subseteq worker.group
    BY <1>1, <1>11, <2>2, Zenon
  <2>4. Typed'
    BY <1>1, <1>5, <2>2, Zenon DEF StoreInv, Typed
  <2>5. LogInv' /\ Grows(files, files')
    BY <1>1, FilesStay, Zenon DEF StoreInv
  <2>6. ~Adding /\ ~Adding' /\ worker'.pc # "commit" /\ worker.pc # "recv" /\ worker.pc # "group"
        /\ (Committed' <=> Committed) /\ worker'.pc # "allocate" /\ worker.pc # "publish"
    BY <2>2 DEF Adding, Committed
  <2>7. ListsInv' /\ HandlesInv' /\ ReaderInv' /\ OpeningInv'
    <3>1. ListsInv'
      BY <1>1, ListsStay, Zenon DEF StoreInv
    <3>2. HandlesInv'
      BY <1>1, <2>2, <2>6, HandlesStay, Zenon DEF StoreInv
    <3>3. ReaderInv'
      BY <1>1, ReaderStays, Zenon DEF StoreInv
    <3>4. OpeningInv'
      BY <1>1, <2>6, OpeningStays, Zenon DEF StoreInv
    <3>. QED
      BY <3>1, <3>2, <3>3, <3>4
  <2>8. BatchInv'
    <3>1. \A s \in worker'.group :
             s \in 1..Received' /\ answer'[s] = Waiting /\ reqs[s] = worker'.topic
      <4>1. \A s \in 1..Received : s \in 1..Len(reqs)
        BY <1>2, <1>3, <1>4
      <4>. QED
        BY <1>4, <1>5, <2>2, <4>1, Zenon DEF StoreInv, BatchInv
    <3>2. \A s \in worker'.rest :
             s \in 1..Received' /\ answer'[s] = Waiting /\ reqs[s] # worker'.topic
      BY <1>6, <2>2, Zenon DEF StoreInv, BatchInv
    <3>3. worker'.topic \in Topics
      BY <2>2, <2>6, Zenon DEF StoreInv, BatchInv
    <3>. QED
      BY <1>1, <1>2, <1>4, <1>7, <2>2, <2>3, <2>6, <3>1, <3>2, <3>3, Zenon DEF BatchInv, QueueOk
  <2>9. AddingInv' /\ LocatedInv'
    BY <2>6, Zenon DEF AddingInv, LocatedInv
  <2>10. PlacedInv'
    <3>1. Unplaced' \subseteq Unplaced
      BY <2>2, <2>3, Zenon DEF Unplaced
    <3>. QED
      BY <2>2, <2>6, <3>1, Zenon DEF StoreInv, PlacedInv
  <2>11. CommittedInv'
    BY <1>1, <2>2, <2>6, Zenon DEF StoreInv, CommittedInv, ReadsAs
  <2>12. LogKept
    BY <1>1, <2>5, Zenon DEF LogKept, ReqsKept
  <2>13. Readable'
    BY <2>12, ReadableStays, Zenon DEF StoreInv
  <2>14. ConfirmedReadable'
    BY <1>1, <1>3, <1>8, <2>12, ConfirmedStays, Zenon DEF StoreInv
  <2>15. BehindInv'
    <3>1. \A s \in 1..Received : s \in DOMAIN reqs
      BY <1>2, <1>3, <1>4
    <3>2. \A s \in worker'.rest : s \in DOMAIN reqs /\ s \in worker.rest
      BY <2>2, <3>1, Zenon DEF StoreInv, BatchInv
    <3>3. Uncommitted' => Uncommitted
      BY <2>2, Zenon DEF Uncommitted
    <3>. QED
      BY <1>2, <1>4, <2>2, <2>3, <2>12, <3>2, <3>3, BehindStays, Zenon DEF StoreInv
  <2>. QED
    BY <2>4, <2>5, <2>7, <2>8, <2>9, <2>10, <2>11, <2>13, <2>14, <2>15, Zenon DEF StoreInv
<1>. QED
  BY <1>10, <1>11

\* Confirmations and refusals.
LEMMA ReplyKeeps ==
    ASSUME StoreInv, Reply \/ Refuse
    PROVE  StoreInv'
<1>1. CASE Reply
  <2>1. PICK i \in DOMAIN worker.placed :
           Answers(worker.placed[i].req, [is |-> "ok", at |-> worker.placed[i].at])
    BY <1>1, Zenon DEF Reply
  <2>. DEFINE r == worker.placed[i].req
              p == worker.placed[i].at
              what == [is |-> "ok", at |-> p]
  <2>2. worker.pc = "reply" /\ Committed
    BY <1>1 DEF Reply, Committed
  <2>3. p \in Entries(infos[worker.topic]) /\ ReadsAs(p, r)
    BY <2>2, Zenon DEF StoreInv, CommittedInv
  <2>4. r \in worker.group
    BY <2>1, Zenon DEF Answers, Firsts
  <2>5. reqs[r] = worker.topic
    BY <2>4, Zenon DEF StoreInv, BatchInv
  <2>6. p \in Position
    BY <2>3, Zenon DEF ReadsAs, StoreInv, Typed
  <2>. HIDE DEF r, p
  <2>7. what \in Told /\ what # Waiting /\ what.at = p
    BY <2>6 DEF Told, Waiting
  <2>8. Answers(r, what) /\ what.at \in Entries(infos[reqs[r]]) /\ ReadsAs(what.at, r)
    BY <2>1, <2>3, <2>5, <2>7, Zenon DEF r, p
  <2>. HIDE DEF what
  <2>9. worker.pc \in {"reply", "refuse"}
    BY <2>2
  <2>. QED
    BY <2>7, <2>8, <2>9, AnswersKeep, Zenon
<1>2. CASE Refuse
  <2>. DEFINE what == [is |-> "refused", at |-> NoPosition]
  <2>1. PICK r \in worker.group : Answers(r, what)
    BY <1>2, Zenon DEF Refuse
  <2>2. what \in Told /\ what # Waiting /\ what.is # "ok"
    BY DEF Told, Waiting
  <2>3. worker.pc \in {"reply", "refuse"}
    BY <1>2 DEF Refuse
  <2>. HIDE DEF what
  <2>. QED
    BY <2>1, <2>2, <2>3, AnswersKeep, Zenon
<1>. QED
  BY <1>1, <1>2

----------------------------------------------------------------------------
(* The worker appends a group. *)

\* A worker's step before the database write that leaves the stored state alone.
LEMMA WorkKeeps ==
    ASSUME StoreInv, UNCHANGED <<nextId, infos, index, reqs, answer, queue>>,
           UNCHANGED <<handles, opening, reader>>, LogInv', Grows(files, files'),
           log'.id \in Nat, log'.offset \in Nat,
           worker' \in Workers, worker'.topic = worker.topic, worker'.group = worker.group,
           worker'.rest = worker.rest, worker.pc \in {"group", "assign"},
           worker'.pc \in {"assign", "allocate", "commit"},
           worker'.pc = "allocate" => opening.pc # "allocate",
           \/ Adding /\ Ids(worker'.info) = Ids(worker.info)
           \/ worker'.info = infos[worker.topic],
           AddingInv', PlacedInv', LocatedInv'
    PROVE  StoreInv'
<1>1. /\ Uncommitted /\ ~Committed' /\ worker.pc # "recv" /\ worker.pc # "publish"
      /\ worker'.pc \notin {"recv", "group"}
  BY DEF Uncommitted, Committed
<1>2. worker.topic \in Topics
  BY <1>1, Zenon DEF StoreInv, BatchInv
<1>3. Typed'
  BY Zenon DEF StoreInv, Typed
<1>4. ListsInv'
  BY ListsStay, Zenon DEF StoreInv
<1>5. HandlesInv'
  BY <1>1, HandlesStay, Zenon DEF StoreInv
<1>6. OpeningInv'
  BY <1>2, OpeningStays, Zenon DEF StoreInv
<1>7. BatchInv'
  BY <1>1, BatchStays, Zenon DEF StoreInv
<1>8. CommittedInv'
  BY <1>1, Zenon DEF CommittedInv
<1>9. LogKept
  BY Zenon DEF LogKept, ReqsKept
<1>10. Readable' /\ BehindInv' /\ ConfirmedReadable'
  BY <1>1, <1>9, StoredStays, Zenon
<1>11. ReaderInv'
  BY ReaderStays, Zenon DEF StoreInv
<1>. QED
  BY <1>3, <1>4, <1>5, <1>6, <1>7, <1>8, <1>10, <1>11, Zenon DEF StoreInv

\* add_entries starts from the published list.
LEMMA StartGroupKeeps ==
    ASSUME StoreInv, StartGroup
    PROVE  StoreInv'
<1>1. /\ UNCHANGED <<nextId, infos, index, reqs, answer, queue>>
      /\ UNCHANGED <<handles, opening, reader>> /\ UNCHANGED <<log, files>>
      /\ worker.pc = "group" /\ handles[worker.topic] # Closed
      /\ worker' = [worker EXCEPT !.pc = "assign", !.info = handles[worker.topic].info]
  BY DEF StartGroup, durable, Topic
<1>2. worker.topic \in Topics /\ worker.placed = <<>>
  <2>1. worker.pc # "recv" /\ worker.pc \in {"recv", "group"}
    BY <1>1
  <2>. QED
    BY <2>1, Zenon DEF StoreInv, BatchInv
<1>3. handles[worker.topic].info = infos[worker.topic] /\ infos[worker.topic] # <<>>
  <2>1. HandleOk(worker.topic)
    BY <1>1, <1>2, Zenon DEF StoreInv, HandlesInv
  <2>2. worker.pc # "publish"
    BY <1>1
  <2>. QED
    BY <2>1, <2>2, Zenon DEF HandleOk
<1>4. infos[worker.topic] \in Lists
  BY <1>2 DEF StoreInv, Typed
<1>5. /\ worker' \in Workers /\ worker'.pc = "assign" /\ worker'.info = infos[worker.topic]
      /\ worker'.topic = worker.topic /\ worker'.group = worker.group /\ worker'.rest = worker.rest
      /\ worker'.placed = <<>>
  BY <1>1, <1>2, <1>3, <1>4, Zenon DEF StoreInv, Typed, Workers
<1>6. LogInv' /\ Grows(files, files') /\ log'.id \in Nat /\ log'.offset \in Nat
  <2>1. LogInv' /\ Grows(files, files')
    BY <1>1, FilesStay, Zenon DEF StoreInv
  <2>. QED
    BY <1>1, <2>1, Zenon DEF StoreInv, Typed
<1>7. DOMAIN worker'.placed = {}
  BY <1>5
<1>8. AddingInv'
  <2>1. Given' = {}
    BY <1>7, Zenon DEF Given
  <2>2. /\ Sorted(infos[worker.topic]) /\ Below(infos[worker.topic], nextId)
        /\ \A u \in Topics : u # worker.topic => Apart(infos[worker.topic], infos[u])
    BY <1>2, Zenon DEF StoreInv, ListsInv
  <2>3. worker'.pc # "allocate"
    BY <1>5
  <2>. QED
    BY <1>1, <1>3, <1>5, <1>7, <2>1, <2>2, <2>3, Zenon DEF AddingInv
<1>9. PlacedInv' /\ LocatedInv'
  <2>1. ~Committed' /\ worker'.pc # "commit"
    BY <1>5 DEF Committed
  <2>. QED
    BY <1>7, <2>1, Zenon DEF PlacedInv, LocatedInv
<1>10. /\ worker.pc \in {"group", "assign"} /\ worker'.pc \in {"assign", "allocate", "commit"}
       /\ worker'.pc # "allocate"
  BY <1>1, <1>5
<1>. QED
  BY <1>1, <1>5, <1>6, <1>8, <1>9, <1>10, WorkKeeps, Zenon

\* The next position of the list under construction.
LEMMA NextOf ==
    ASSUME StoreInv, worker.pc = "assign"
    PROVE  LET ls == worker.info
               p  == <<ls[Len(ls)].id, ls[Len(ls)].entries>>
               ms == [ls EXCEPT ![Len(ls)].entries = @ + 1]
           IN  /\ p \in Position /\ ms \in Lists /\ ms # <<>> /\ Sorted(ms) /\ Below(ms, nextId)
               /\ Entries(ms) = Entries(ls) \cup {p} /\ Ids(ms) = Ids(ls)
               /\ \A q \in Entries(ls) : Lt(q, p)
<1>1. Adding
  BY DEF Adding
<1>2. worker.info \in Lists /\ Sorted(worker.info) /\ worker.info # <<>> /\ Below(worker.info, nextId)
  BY <1>1, Zenon DEF StoreInv, AddingInv, Typed, Workers
<1>3. nextId \in Nat
  BY Zenon DEF StoreInv, Typed
<1>. QED
  BY <1>2, <1>3, NextEntryAt, Zenon

\* The sequence b is a and x after it.
Adds(S, a, x, b) ==
    /\ b \in Seq(S) /\ DOMAIN a = 1..Len(a) /\ Len(a) \in Nat
    /\ DOMAIN b = DOMAIN a \cup {Len(a) + 1} /\ Len(a) + 1 \notin DOMAIN a
    /\ b[Len(a) + 1] = x /\ \A i \in DOMAIN a : b[i] = a[i] /\ i < Len(a) + 1

\* Append adds one element.
LEMMA AppendAt ==
    ASSUME NEW S, NEW a \in Seq(S), NEW x \in S
    PROVE  Adds(S, a, x, Append(a, x))
BY DEF Adds

\* The next publish of the group gets the next position.
LEMMA AssignEntryKeeps ==
    ASSUME StoreInv, AssignEntry, AllocatorRaces = FALSE
    PROVE  StoreInv'
<1>. DEFINE ls == worker.info
            n  == Len(ls)
            p  == <<ls[n].id, ls[n].entries>>
            ms == [ls EXCEPT ![n].entries = @ + 1]
<1>1. PICK r \in Firsts(Unplaced) :
         /\ worker.pc = "assign"
         /\ AllocatorRaces \/ AllocatorFree \/ ~Fills(ls)
         /\ worker' = [worker EXCEPT
                !.placed = Append(@, [req |-> r, at |-> p]),
                !.info[n].entries = @ + 1,
                !.got = IF Fills(ls) THEN nextId ELSE 0,
                !.pc = IF Fills(ls) THEN "allocate" ELSE "assign"]
         /\ UNCHANGED <<durable, log, reqs, answer, queue, handles, opening, reader, failures,
                        crashes>>
  BY Zenon DEF AssignEntry
<1>2. /\ UNCHANGED <<nextId, infos, index, reqs, answer, queue>>
      /\ UNCHANGED <<handles, opening, reader>> /\ UNCHANGED <<log, files>>
      /\ worker.pc = "assign" /\ (Fills(ls) => AllocatorFree)
  BY <1>1 DEF durable
<1>3. /\ p \in Position /\ ms \in Lists /\ ms # <<>> /\ Sorted(ms) /\ Below(ms, nextId)
      /\ Entries(ms) = Entries(ls) \cup {p} /\ Ids(ms) = Ids(ls)
      /\ \A q \in Entries(ls) : Lt(q, p)
  BY <1>2, NextOf, Zenon
<1>4. r \in worker.group /\ r \in Unplaced /\ \A s \in Unplaced : r <= s
  BY Zenon DEF Firsts, Unplaced
<1>5. worker \in Workers /\ worker.placed \in Seq(Placing) /\ worker.group \subseteq Nat /\ nextId \in Nat
  BY Zenon DEF StoreInv, Typed, Workers
<1>. DEFINE e == [req |-> r, at |-> p]
            m == Len(worker.placed)
<1>6. e \in Placing /\ e.req = r /\ e.at = p
  BY <1>3, <1>4, <1>5 DEF Placing
<1>7. /\ worker'.pc = (IF Fills(ls) THEN "allocate" ELSE "assign")
      /\ worker'.topic = worker.topic /\ worker'.group = worker.group /\ worker'.rest = worker.rest
      /\ worker'.got = (IF Fills(ls) THEN nextId ELSE 0)
  BY <1>1, <1>5, Zenon DEF Workers
<1>8. worker'.info = ms
  BY <1>1, <1>5, Zenon DEF Workers
<1>9. worker'.placed = Append(worker.placed, e)
  BY <1>1, <1>5, Zenon DEF Workers
<1>. HIDE DEF e, p, ms, n
<1>10. Adds(Placing, worker.placed, e, worker'.placed)
  BY <1>5, <1>6, <1>9, AppendAt, Zenon
<1>11. /\ worker'.placed \in Seq(Placing) /\ DOMAIN worker'.placed = DOMAIN worker.placed \cup {m + 1}
       /\ \A i \in DOMAIN worker.placed : worker'.placed[i] = worker.placed[i] /\ i < m + 1
       /\ worker'.placed[m + 1] = e /\ DOMAIN worker.placed \subseteq Nat /\ m \in Nat
  BY <1>10 DEF Adds
<1>. HIDE DEF m
<1>12. worker' \in Workers
  <2>1. worker'.pc \in Pcs /\ worker'.got \in Nat
    BY <1>5, <1>7 DEF Pcs
  <2>2. worker' = [pc |-> worker'.pc, topic |-> worker.topic, group |-> worker.group,
                   rest |-> worker.rest, info |-> worker'.info, placed |-> worker'.placed,
                   located |-> worker.located, got |-> worker'.got]
    BY <1>1, <1>5, Zenon DEF Workers
  <2>. QED
    BY <1>3, <1>5, <1>8, <1>11, <2>1, <2>2 DEF Workers, Pcs
<1>13. Adding /\ worker.topic \in Topics /\ worker'.pc \in {"assign", "allocate"}
       /\ (worker'.pc = "allocate" => worker'.got = nextId /\ opening.pc # "allocate")
       /\ ~Committed' /\ worker'.pc # "commit"
  <2>1. Adding /\ worker.pc # "recv" /\ ~Committed' /\ worker'.pc # "commit"
    BY <1>2, <1>7 DEF Adding, Committed
  <2>2. worker.topic \in Topics
    BY <2>1, Zenon DEF StoreInv, BatchInv
  <2>. QED
    BY <1>2, <1>7, <2>1, <2>2 DEF AllocatorFree
<1>14. /\ handles[worker.topic] # Closed
       /\ \A u \in Topics : u # worker.topic => Apart(ls, infos[u])
       /\ Entries(ls) = Entries(infos[worker.topic]) \cup Given
       /\ \A i \in DOMAIN worker.placed : \A q \in Entries(infos[worker.topic]) :
              Lt(q, worker.placed[i].at)
  BY <1>13, Zenon DEF StoreInv, AddingInv
<1>15. /\ \A i, j \in DOMAIN worker.placed : i < j =>
             worker.placed[i].req < worker.placed[j].req /\ Lt(worker.placed[i].at, worker.placed[j].at)
       /\ \A i \in DOMAIN worker.placed : worker.placed[i].req \in worker.group /\ worker.placed[i].req < r
  BY <1>4, <1>13, Zenon DEF StoreInv, PlacedInv
<1>. HIDE DEF ls
<1>16. worker'.placed[m + 1].req = r /\ worker'.placed[m + 1].at = p
  BY <1>6, <1>11, Zenon
<1>17. \A i \in DOMAIN worker.placed : worker.placed[i].at \in Given /\ Lt(worker.placed[i].at, p)
  BY <1>3, <1>14, Zenon DEF Given
<1>18. AddingInv'
  <2>1. Given' = Given \cup {p}
    <3>1. \A q : q \in Given' <=> \E i \in DOMAIN worker'.placed : q = worker'.placed[i].at
      BY Zenon DEF Given
    <3>2. \A q : q \in Given <=> \E i \in DOMAIN worker.placed : q = worker.placed[i].at
      BY Zenon DEF Given
    <3>3. \A q \in Given' : q \in Given \cup {p}
      BY <1>11, <1>16, <3>1, <3>2, Zenon
    <3>4. \A q \in Given \cup {p} : q \in Given'
      BY <1>11, <1>16, <3>1, <3>2, Zenon
    <3>. QED
      BY <3>3, <3>4, Zenon
  <2>2. Entries(worker'.info) = Entries(infos[worker.topic]) \cup Given'
    BY <1>3, <1>8, <1>14, <2>1, Zenon
  <2>3. \A u \in Topics : u # worker.topic => Apart(worker'.info, infos[u])
    BY <1>3, <1>8, <1>14, Zenon DEF Apart
  <2>4. \A i \in DOMAIN worker'.placed : \A q \in Entries(infos[worker.topic]) :
              Lt(q, worker'.placed[i].at)
    BY <1>3, <1>11, <1>14, <1>16, Zenon
  <2>. QED
    BY <1>2, <1>3, <1>7, <1>8, <1>13, <1>14, <2>2, <2>3, <2>4, Zenon DEF AddingInv
<1>19. PlacedInv'
  <2>1. ASSUME NEW i \in DOMAIN worker'.placed, NEW j \in DOMAIN worker'.placed, i < j
        PROVE  /\ worker'.placed[i].req < worker'.placed[j].req
               /\ Lt(worker'.placed[i].at, worker'.placed[j].at)
    <3>1. i \in DOMAIN worker.placed
      BY <1>11, <2>1
    <3>2. CASE j \in DOMAIN worker.placed
      BY <1>11, <1>15, <2>1, <3>1, <3>2, Zenon
    <3>3. CASE j = m + 1
      BY <1>11, <1>15, <1>16, <1>17, <3>1, <3>3, Zenon
    <3>. QED
      BY <1>11, <3>2, <3>3, Zenon
  <2>2. \A i \in DOMAIN worker'.placed : worker'.placed[i].req \in worker'.group
    BY <1>4, <1>7, <1>11, <1>15, <1>16, Zenon
  <2>3. ASSUME NEW s \in Unplaced', NEW i \in DOMAIN worker'.placed PROVE worker'.placed[i].req < s
    <3>1. s \in worker.group /\ \A k \in DOMAIN worker'.placed : worker'.placed[k].req # s
      BY <1>7, Zenon DEF Unplaced
    <3>2. s \in Unplaced /\ s # r
      BY <1>11, <1>16, <3>1, Zenon DEF Unplaced
    <3>3. r <= s /\ r \in Nat /\ s \in Nat
      BY <1>4, <1>5, <3>1, <3>2, Zenon
    <3>4. i \in DOMAIN worker.placed => worker.placed[i].req < s
      BY <3>2, <1>13, Zenon DEF StoreInv, PlacedInv
    <3>5. r < s
      BY <3>2, <3>3
    <3>. QED
      BY <1>11, <1>16, <3>4, <3>5, Zenon
  <2>. QED
    BY <1>13, <2>1, <2>2, <2>3, Zenon DEF PlacedInv
<1>20. LocatedInv'
  BY <1>13, Zenon DEF LocatedInv
<1>21. LogInv' /\ Grows(files, files') /\ log'.id \in Nat /\ log'.offset \in Nat
  <2>1. LogInv' /\ Grows(files, files')
    BY <1>2, FilesStay, Zenon DEF StoreInv
  <2>. QED
    BY <1>2, <2>1, Zenon DEF StoreInv, Typed
<1>22. worker.pc \in {"group", "assign"} /\ worker'.pc \in {"assign", "allocate", "commit"}
  BY <1>2, <1>13
<1>23. Ids(worker'.info) = Ids(worker.info)
  BY <1>3, <1>8, Zenon DEF ls
<1>. QED
  BY <1>2, <1>7, <1>12, <1>13, <1>18, <1>19, <1>20, <1>21, <1>22, <1>23, WorkKeeps, Zenon

\* The ledger that the group filled is followed by a new one.
LEMMA RollOverKeeps ==
    ASSUME StoreInv, RollOver
    PROVE  StoreInv'
<1>1. /\ UNCHANGED <<infos, index, reqs, answer, queue>> /\ UNCHANGED <<log, files>>
      /\ UNCHANGED <<handles, opening, reader>> /\ worker.pc = "allocate" /\ nextId' = worker.got + 1
      /\ worker' = [worker EXCEPT !.pc = "assign", !.got = 0,
                                  !.info = Append(@, NewLedger(worker.got))]
  BY DEF RollOver
<1>2. Adding /\ Uncommitted /\ worker.pc # "recv" /\ worker.pc # "publish"
  BY <1>1 DEF Adding, Uncommitted
<1>3. worker.topic \in Topics
  BY <1>2, Zenon DEF StoreInv, BatchInv
<1>4. /\ worker.got = nextId /\ nextId \in Nat /\ worker \in Workers
      /\ worker.info \in Lists /\ Sorted(worker.info) /\ Below(worker.info, nextId)
  BY <1>1, <1>2, Zenon DEF StoreInv, AddingInv, Typed, Workers
<1>5. nextId' = nextId + 1 /\ nextId' \in Nat /\ nextId < nextId' /\ nextId <= nextId'
  BY <1>1, <1>4
<1>6. PICK ms : ms = Append(worker.info, NewLedger(nextId))
  BY Zenon
<1>7. /\ ms \in Lists /\ ms # <<>> /\ Sorted(ms) /\ Below(ms, nextId')
      /\ Entries(ms) = Entries(worker.info) /\ Ids(ms) = Ids(worker.info) \cup {nextId}
  BY <1>4, <1>5, <1>6, NewLedgerAt, Zenon
<1>8. /\ worker'.pc = "assign" /\ worker'.info = ms /\ worker'.topic = worker.topic
      /\ worker'.group = worker.group /\ worker'.rest = worker.rest /\ worker'.placed = worker.placed
      /\ worker' = [worker EXCEPT !.pc = "assign", !.got = 0, !.info = ms]
  BY <1>1, <1>4, <1>6, Zenon DEF Workers
<1>9. worker' \in Workers
  <2>1. worker' = [pc |-> "assign", topic |-> worker.topic, group |-> worker.group,
                   rest |-> worker.rest, info |-> ms, placed |-> worker.placed,
                   located |-> worker.located, got |-> 0]
    BY <1>4, <1>8, Zenon DEF Workers
  <2>. QED
    BY <1>4, <1>7, <2>1 DEF Workers
<1>10. /\ Adding' /\ ~Committed' /\ Uncommitted' /\ worker'.pc \notin {"recv", "group"}
       /\ worker'.pc # "commit" /\ worker'.pc # "allocate"
  BY <1>8 DEF Adding, Committed, Uncommitted
<1>11. Typed'
  BY <1>1, <1>5, <1>9, Zenon DEF StoreInv, Typed
<1>12. LogInv' /\ Grows(files, files')
  BY <1>1, FilesStay, Zenon DEF StoreInv
<1>13. \A t \in Topics : infos[t] \in Lists /\ Below(infos[t], nextId)
  BY DEF StoreInv, Typed, ListsInv
<1>14. ListsInv'
  <2>1. \A t \in Topics : Below(infos[t], nextId')
    BY <1>4, <1>5, <1>13, BelowMore, Zenon
  <2>. QED
    BY <1>1, <2>1, Zenon DEF StoreInv, ListsInv
<1>15. HandlesInv'
  BY <1>1, <1>2, HandlesStay, Zenon DEF StoreInv
<1>16. OpeningInv'
  <2>. SUFFICES ASSUME opening # NotOpening PROVE OpeningInv'
    BY <1>1, Zenon DEF OpeningInv
  <2>1. opening.pc # "none" /\ opening.topic \in Topics
    BY Zenon DEF StoreInv, OpeningInv
  <2>2. opening.pc # "allocate"
    BY <1>1, Zenon DEF StoreInv, OpeningInv
  <2>3. ASSUME opening.pc = "append"
        PROVE  /\ opening.got < nextId' /\ Below(infos[opening.topic], opening.got)
               /\ \A u \in Topics : opening.got \notin Ids(infos[u])
               /\ opening.got \notin Ids(ms)
    <3>1. /\ opening.got < nextId /\ Below(infos[opening.topic], opening.got)
          /\ \A u \in Topics : opening.got \notin Ids(infos[u])
          /\ opening.got \notin Ids(worker.info)
      BY <1>2, <2>3, Zenon DEF StoreInv, OpeningInv
    <3>2. opening.got \in Nat
      BY DEF StoreInv, Typed, Opening
    <3>3. opening.got < nextId' /\ opening.got # nextId
      BY <1>4, <1>5, <3>1, <3>2
    <3>. QED
      BY <1>7, <3>1, <3>3, Zenon
  <2>4. opening.pc = "store" => infos[opening.topic] # <<>>
    BY Zenon DEF StoreInv, OpeningInv
  <2>. QED
    BY <1>1, <1>8, <2>1, <2>2, <2>3, <2>4, Zenon DEF OpeningInv
<1>17. BatchInv'
  BY <1>1, <1>2, <1>8, <1>10, BatchStays, Zenon DEF StoreInv
<1>18. AddingInv'
  <2>1. Given' = Given
    BY <1>8 DEF Given
  <2>2. \A u \in Topics : nextId \notin Ids(infos[u])
    BY <1>4, <1>13, BelowNot, Zenon
  <2>3. \A u \in Topics : u # worker.topic => Apart(ms, infos[u])
    BY <1>2, <1>7, <2>2, Zenon DEF StoreInv, AddingInv, Apart
  <2>. QED
    BY <1>1, <1>2, <1>7, <1>8, <1>10, <2>1, <2>3, Zenon DEF StoreInv, AddingInv
<1>19. PlacedInv'
  <2>1. Unplaced' = Unplaced
    BY <1>8, UnplacedSame, Zenon
  <2>. QED
    BY <1>2, <1>8, <1>10, <2>1, Zenon DEF StoreInv, PlacedInv
<1>20. LocatedInv' /\ CommittedInv'
  BY <1>10, Zenon DEF LocatedInv, CommittedInv
<1>21. LogKept
  BY <1>1, <1>12, Zenon DEF LogKept, ReqsKept
<1>22. Readable' /\ BehindInv' /\ ConfirmedReadable'
  BY <1>1, <1>2, <1>8, <1>21, StoredStays, Zenon
<1>23. ReaderInv'
  BY <1>1, ReaderStays, Zenon DEF StoreInv
<1>. QED
  BY <1>11, <1>12, <1>14, <1>15, <1>16, <1>17, <1>18, <1>19, <1>20, <1>22, <1>23, Zenon
  DEF StoreInv

\* A group in the buffer is a group in the file.
LEMMA AppendLogKeeps ==
    ASSUME StoreInv, AppendLog
    PROVE  StoreInv'
<1>. DEFINE n == Len(Buffer)
<1>1. /\ UNCHANGED <<nextId, infos, index, reqs, answer, queue>>
      /\ UNCHANGED <<handles, opening, reader>> /\ worker.pc = "assign" /\ Unplaced = {}
      /\ files' = Written(n) /\ log' = [Rotated EXCEPT !.offset = @ + n]
      /\ worker' = [worker EXCEPT !.pc = "commit", !.located = Located]
  BY DEF AppendLog, AllPlaced
<1>2. /\ Buffer \in Seq(Cells)
      /\ \A i \in DOMAIN worker.placed : \A k \in 1..RecordCells :
            /\ (i - 1) * RecordCells + k \in 1..n
            /\ Buffer[(i - 1) * RecordCells + k] = Cell(worker.placed[i].req, worker.placed[i].at, k)
  BY BufferHolds, Zenon DEF StoreInv
<1>3. n \in Nat /\ n \in 0..n
  BY <1>2
<1>. HIDE DEF n
<1>4. /\ Files(Written(n), 0..Rotated.id) /\ Grows(files, Written(n))
      /\ Rotated = [id |-> Rotated.id, offset |-> Rotated.offset, open |-> Rotated.id]
      /\ Rotated.id \in Nat /\ Rotated.offset \in Nat
      /\ Len(Written(n)[Rotated.id]) = Rotated.offset + n
      /\ \A x \in 1..n : Written(n)[Rotated.id][Rotated.offset + x] = Buffer[x]
  BY <1>3, WrittenHolds, Zenon DEF StoreInv, n
<1>5. log' = [id |-> Rotated.id, offset |-> Rotated.offset + n, open |-> Rotated.id]
  <2>1. PICK a, b : Rotated = [id |-> a, offset |-> b, open |-> a]
    BY <1>4, Zenon
  <2>2. Rotated.id = a /\ Rotated.offset = b
    BY <2>1
  <2>3. [[id |-> a, offset |-> b, open |-> a] EXCEPT !.offset = @ + n]
           = [id |-> a, offset |-> b + n, open |-> a]
    OBVIOUS
  <2>. QED
    BY <1>1, <2>1, <2>2, <2>3
<1>6. log'.id = Rotated.id /\ log'.offset = Rotated.offset + n /\ log'.open = Rotated.id
  BY <1>5
<1>7. LogInv' /\ Grows(files, files') /\ log'.id \in Nat /\ log'.offset \in Nat
  <2>1. log'.offset \in Nat
    BY <1>3, <1>4, <1>6
  <2>. QED
    BY <1>1, <1>4, <1>5, <1>6, <2>1, Zenon DEF LogInv
<1>8. worker \in Workers /\ worker.placed \in Seq(Placing)
  BY Zenon DEF StoreInv, Typed, Workers
<1>9. Located \in Seq(Location) /\ DOMAIN Located = DOMAIN worker.placed
  <2>1. DOMAIN worker.placed = 1..Len(worker.placed) /\ Len(worker.placed) \in Nat
    BY <1>8
  <2>2. Located = [i \in 1..Len(worker.placed) |-> Located[i]]
    BY <2>1 DEF Located
  <2>3. ASSUME NEW i \in 1..Len(worker.placed) PROVE Located[i] \in Location
    <3>1. Rotated.offset + (i - 1) * RecordCells \in Nat
      BY <1>4, SizesAssumption
    <3>2. Located[i] = [file |-> Rotated.id, offset |-> Rotated.offset + (i - 1) * RecordCells]
      BY <2>1 DEF Located
    <3>. QED
      BY <1>4, <3>1, <3>2 DEF Location
  <2>. QED
    BY <2>1, <2>2, <2>3, SeqOf, Zenon
<1>10. /\ worker'.pc = "commit" /\ worker'.located = Located /\ worker'.topic = worker.topic
       /\ worker'.group = worker.group /\ worker'.rest = worker.rest /\ worker'.placed = worker.placed
       /\ worker'.info = worker.info
  BY <1>1, <1>8, Zenon DEF Workers
<1>11. worker' \in Workers
  BY <1>1, <1>8, <1>9 DEF Workers
<1>12. /\ Adding /\ Adding' /\ ~Committed' /\ worker.pc # "recv" /\ worker'.pc # "allocate"
       /\ worker.pc \in {"group", "assign"} /\ worker'.pc \in {"assign", "allocate", "commit"}
  BY <1>1, <1>10 DEF Adding, Committed
<1>13. AddingInv'
  <2>1. Given' = Given
    BY <1>10, Zenon DEF Given
  <2>. QED
    BY <1>1, <1>10, <1>12, <2>1, Zenon DEF StoreInv, AddingInv
<1>14. PlacedInv'
  <2>1. Unplaced' = {}
    BY <1>1, <1>10, UnplacedSame, Zenon
  <2>2. worker.group # {}
    BY <1>12, Zenon DEF StoreInv, BatchInv
  <2>3. DOMAIN worker.placed # {}
    BY <1>1, <2>2, Zenon DEF Unplaced
  <2>4. worker.placed # <<>>
    BY <2>3
  <2>. QED
    BY <1>10, <1>12, <2>1, <2>4, Zenon DEF StoreInv, PlacedInv
<1>15. LocatedInv'
  <2>. SUFFICES ASSUME NEW i \in DOMAIN worker.placed
                PROVE  HoldsRecord(files', Located[i], worker.placed[i].req, worker.placed[i].at)
    BY <1>9, <1>10, Zenon DEF LocatedInv
  <2>. DEFINE c == (i - 1) * RecordCells
  <2>1. Located[i] = [file |-> Rotated.id, offset |-> Rotated.offset + c]
    BY DEF Located
  <2>2. Located[i].file = Rotated.id /\ Located[i].offset = Rotated.offset + c
    BY <2>1
  <2>3. \A k \in 1..RecordCells : c + k \in 1..n
            /\ Buffer[c + k] = Cell(worker.placed[i].req, worker.placed[i].at, k)
    BY <1>2, Zenon
  <2>4. c \in Int
    <3>1. i \in Nat /\ RecordCells \in Nat
      BY <1>8, SizesAssumption
    <3>. QED
      BY <3>1
  <2>. HIDE DEF c
  <2>5. RecordCells \in Nat /\ RecordCells \in 1..RecordCells
    BY SizesAssumption
  <2>6. Rotated.id \in DOMAIN files' /\ Len(files'[Rotated.id]) = Rotated.offset + n
    <3>1. Rotated.id \in 0..Rotated.id
      BY <1>4
    <3>. QED
      BY <1>1, <1>4, <3>1, Zenon DEF Files
  <2>7. Located[i].offset + RecordCells <= Rotated.offset + n
    <3>1. c + RecordCells \in 1..n
      BY <2>3, <2>5, Zenon
    <3>. QED
      BY <1>3, <1>4, <2>2, <2>4, <2>5, <3>1
  <2>8. ASSUME NEW k \in 1..RecordCells
        PROVE  files'[Rotated.id][Located[i].offset + k]
                  = Cell(worker.placed[i].req, worker.placed[i].at, k)
    <3>1. Located[i].offset + k = Rotated.offset + (c + k)
      BY <1>4, <2>2, <2>4
    <3>. QED
      BY <1>1, <1>4, <2>3, <3>1, Zenon
  <2>. QED
    BY <2>2, <2>6, <2>7, <2>8, Zenon DEF HoldsRecord
<1>. QED
  BY <1>1, <1>7, <1>10, <1>11, <1>12, <1>13, <1>14, <1>15, WorkKeeps, Zenon

----------------------------------------------------------------------------
(* The database write. *)

\* The id of an entry is the id of a ledger of its list.
LEMMA EntryId ==
    ASSUME NEW ls \in Lists, NEW p \in Entries(ls)
    PROVE  p[1] \in Ids(ls)
<1>1. PICK i \in 1..Len(ls) : \E e \in Nat : e < ls[i].entries /\ p = <<ls[i].id, e>>
  BY EntryOf
<1>2. p[1] = ls[i].id /\ i \in DOMAIN ls
  <2>1. DOMAIN ls = 1..Len(ls)
    BY DEF Lists
  <2>. QED
    BY <1>1, <2>1
<1>. QED
  BY <1>2 DEF Ids

\* No position is before itself.
LEMMA LtSelf ==
    ASSUME NEW p \in Position
    PROVE  ~Lt(p, p)
BY DEF Lt, Position

\* Positions that are given are new.
LEMMA GivenNew ==
    ASSUME StoreInv, Adding, NEW u \in Topics, NEW i \in DOMAIN worker.placed
    PROVE  worker.placed[i].at \notin Entries(infos[u]) /\ worker.placed[i].at \in Position
<1>. DEFINE p == worker.placed[i].at
<1>1. worker.placed[i] \in Placing /\ worker.info \in Lists /\ infos[u] \in Lists
  BY DEF StoreInv, Typed, Workers
<1>2. p \in Position
  BY <1>1 DEF Placing
<1>3. CASE u = worker.topic
  <2>1. \A q \in Entries(infos[u]) : Lt(q, p)
    BY <1>3, Zenon DEF StoreInv, AddingInv
  <2>. QED
    BY <1>2, <2>1, LtSelf, Zenon
<1>4. CASE u # worker.topic
  <2>1. Apart(worker.info, infos[u]) /\ p \in Entries(worker.info)
    BY <1>4, Zenon DEF StoreInv, AddingInv, Given
  <2>2. ~(p[1] \in Ids(worker.info) /\ p[1] \in Ids(infos[u]))
    BY <2>1, Zenon DEF Apart
  <2>. QED
    BY <1>1, <1>2, <2>1, <2>2, EntryId, Zenon
<1>. QED
  BY <1>3, <1>4

\* The worker gave the position p to publish r.
Gave(p, r) == \E i \in DOMAIN worker.placed : worker.placed[i].at = p /\ worker.placed[i].req = r

\* What the database write does to the locations.
LEMMA CommitIndex ==
    ASSUME StoreInv, Commit
    PROVE  /\ \A p, r : Gave(p, r) => ReadsAs(p, r)'
           /\ \A p : p \notin Given =>
                 (p \in DOMAIN index' <=> p \in DOMAIN index) /\ (p \in DOMAIN index => index'[p] = index[p])
           /\ DOMAIN index' \subseteq Position /\ \A p \in DOMAIN index' : index'[p] \in Location
           /\ files' = files
<1>. DEFINE f == [p \in Given |->
                    worker.located[CHOOSE i \in DOMAIN worker.placed : worker.placed[i].at = p]]
<1>1. worker.pc = "commit" /\ index' = Over(f, index) /\ files' = files
  BY Zenon DEF Commit, Given
<1>2. Adding
  BY <1>1 DEF Adding
<1>3. /\ DOMAIN worker.located = DOMAIN worker.placed
      /\ \A i \in DOMAIN worker.placed :
            HoldsRecord(files, worker.located[i], worker.placed[i].req, worker.placed[i].at)
  BY <1>1, Zenon DEF StoreInv, LocatedInv
<1>4. \A i \in DOMAIN worker.placed :
         i \in Nat /\ worker.placed[i].at \in Position /\ worker.located[i] \in Location
  <2>1. \A i \in DOMAIN worker.placed : i \in Nat /\ worker.placed[i] \in Placing
    BY DEF StoreInv, Typed, Workers
  <2>2. \A i \in DOMAIN worker.placed : worker.located[i] \in Location
    BY <1>3 DEF StoreInv, Typed, Workers
  <2>3. \A i \in DOMAIN worker.placed : worker.placed[i].at \in Position
    BY <2>1 DEF Placing
  <2>. QED
    BY <2>1, <2>2, <2>3
<1>5. ASSUME NEW i \in DOMAIN worker.placed, NEW j \in DOMAIN worker.placed,
             worker.placed[i].at = worker.placed[j].at
      PROVE  i = j
  <2>1. i < j => Lt(worker.placed[i].at, worker.placed[j].at)
    BY Zenon DEF StoreInv, PlacedInv
  <2>2. j < i => Lt(worker.placed[j].at, worker.placed[i].at)
    BY Zenon DEF StoreInv, PlacedInv
  <2>3. ~(i < j) /\ ~(j < i)
    BY <1>4, <1>5, <2>1, <2>2, LtSelf, Zenon
  <2>4. i \in Nat /\ j \in Nat
    BY <1>4, Zenon
  <2>. QED
    BY <2>3, <2>4
<1>6. DOMAIN f = Given
  BY Zenon
<1>7. ASSUME NEW i \in DOMAIN worker.placed
      PROVE  worker.placed[i].at \in Given /\ f[worker.placed[i].at] = worker.located[i]
  <2>. DEFINE p == worker.placed[i].at
              j == CHOOSE k \in DOMAIN worker.placed : worker.placed[k].at = p
  <2>1. p \in Given
    BY Zenon DEF Given
  <2>2. j \in DOMAIN worker.placed /\ worker.placed[j].at = p
    BY Zenon
  <2>3. j = i
    BY <1>5, <2>2, Zenon
  <2>4. f[p] = worker.located[j]
    BY <2>1, Zenon
  <2>. QED
    BY <2>1, <2>3, <2>4, Zenon
<1>. HIDE DEF f
<1>8. /\ DOMAIN index' = Given \cup DOMAIN index
      /\ \A p \in Given : index'[p] = f[p]
      /\ \A p \in DOMAIN index : p \notin Given => index'[p] = index[p]
  BY <1>1, <1>6, Zenon DEF Over
<1>9. ASSUME NEW p, NEW r, Gave(p, r) PROVE ReadsAs(p, r)'
  <2>1. PICK i \in DOMAIN worker.placed : worker.placed[i].at = p /\ worker.placed[i].req = r
    BY <1>9, Zenon DEF Gave
  <2>2. p \in Given /\ f[p] = worker.located[i] /\ HoldsRecord(files, worker.located[i], r, p)
    BY <1>3, <1>7, <2>1, Zenon
  <2>. QED
    BY <1>1, <1>8, <2>2, Zenon DEF ReadsAs
<1>10. \A p \in Given : \E i \in DOMAIN worker.placed : p = worker.placed[i].at
  BY Zenon DEF Given
<1>11. DOMAIN index' \subseteq Position /\ \A p \in DOMAIN index' : index'[p] \in Location
  <2>1. DOMAIN index \subseteq Position /\ \A p \in DOMAIN index : index[p] \in Location
    BY Zenon DEF StoreInv, Typed
  <2>2. ASSUME NEW p \in Given PROVE p \in Position /\ f[p] \in Location
    <3>1. PICK i \in DOMAIN worker.placed : p = worker.placed[i].at
      BY <1>10, Zenon
    <3>2. f[p] = worker.located[i]
      BY <1>7, <3>1, Zenon
    <3>. QED
      BY <1>4, <3>1, <3>2, Zenon
  <2>. QED
    BY <1>8, <2>1, <2>2, Zenon
<1>. QED
  BY <1>1, <1>8, <1>9, <1>11, Zenon

\* What reading finds after the database write.
LEMMA CommitReads ==
    ASSUME StoreInv, Commit
    PROVE  /\ \A u \in Topics : \A p \in Entries(infos[u]) : \A r : ReadsAs(p, r)' <=> ReadsAs(p, r)
           /\ \A p \in Given : \E r \in worker.group : Gave(p, r)
           /\ \A r \in worker.group : r \in DOMAIN reqs /\ r <= Received /\ reqs[r] = worker.topic
           /\ \A u \in Topics \ {worker.topic} : infos'[u] = infos[u]
           /\ infos'[worker.topic] = worker.info
           /\ Entries(worker.info) = Entries(infos[worker.topic]) \cup Given
           /\ worker.topic \in Topics
<1>0. PICK t : t = worker.topic
  BY Zenon
<1>1. /\ UNCHANGED <<nextId, reqs, answer, queue>> /\ UNCHANGED <<log, files>>
      /\ worker.pc = "commit" /\ infos' = [infos EXCEPT ![t] = worker.info]
  BY <1>0 DEF Commit, Topic
<1>2. Adding /\ worker.pc # "recv"
  BY <1>1 DEF Adding
<1>3. \A p : p \notin Given =>
         (p \in DOMAIN index' <=> p \in DOMAIN index) /\ (p \in DOMAIN index => index'[p] = index[p])
  BY CommitIndex, Zenon
<1>4. t \in Topics
  BY <1>0, <1>2, Zenon DEF StoreInv, BatchInv
<1>5. Entries(worker.info) = Entries(infos[t]) \cup Given
  BY <1>0, <1>2, Zenon DEF StoreInv, AddingInv
<1>6. infos'[t] = worker.info /\ \A u \in Topics : u # t => infos'[u] = infos[u]
  BY <1>1, <1>4 DEF StoreInv, Typed
<1>7. ASSUME NEW u \in Topics, NEW p \in Entries(infos[u]), NEW r
       PROVE  ReadsAs(p, r)' <=> ReadsAs(p, r)
  <2>1. p \notin Given
    BY <1>2, GivenNew, Zenon DEF Given
  <2>. QED
    BY <1>1, <1>3, <2>1, Zenon DEF ReadsAs
<1>8. ASSUME NEW p \in Given
       PROVE  \E r \in worker.group : Gave(p, r)
  <2>1. PICK i \in DOMAIN worker.placed : worker.placed[i].at = p
    BY Zenon DEF Given
  <2>2. worker.placed[i].req \in worker.group
    BY <1>2, Zenon DEF StoreInv, PlacedInv
  <2>. QED
    BY <2>1, <2>2, Zenon DEF Gave
<1>9. ASSUME NEW r \in worker.group
       PROVE  r \in DOMAIN reqs /\ r <= Received /\ reqs[r] = t
  <2>1. r \in 1..Received /\ reqs[r] = t
    BY <1>0, Zenon DEF StoreInv, BatchInv
  <2>2. Received \in Nat /\ Received <= Len(reqs) /\ Len(reqs) \in Nat /\ DOMAIN reqs = 1..Len(reqs)
    <3>1. Len(queue) \in Nat /\ Len(reqs) \in Nat /\ DOMAIN reqs = 1..Len(reqs)
      BY DEF StoreInv, Typed
    <3>. QED
      BY <3>1 DEF StoreInv, BatchInv, Received
  <2>. QED
    BY <2>1, <2>2
<1>. QED
  BY <1>0, <1>4, <1>5, <1>6, <1>7, <1>8, <1>9, Zenon

\* The group enters the log.
LEMMA CommitKeeps ==
    ASSUME StoreInv, Commit
    PROVE  StoreInv'
<1>0. PICK t, ms : t = worker.topic /\ ms = worker.info
  BY Zenon
<1>1. /\ UNCHANGED <<nextId, reqs, answer, queue>> /\ UNCHANGED <<handles, opening, reader>>
      /\ UNCHANGED <<log, files>> /\ worker.pc = "commit" /\ infos' = [infos EXCEPT ![t] = ms]
      /\ worker' = [worker EXCEPT !.pc = "publish"]
  BY <1>0 DEF Commit, Topic
<1>2. Adding /\ Uncommitted /\ worker.pc # "recv" /\ worker.pc # "publish" /\ worker.pc # "allocate"
  BY <1>1 DEF Adding, Uncommitted
<1>3. worker' \in Workers /\ worker'.pc = "publish" /\ SameWork
  BY <1>1, GoesOn, Zenon DEF StoreInv, Pcs
<1>4. /\ ~Adding' /\ Committed' /\ ~Uncommitted' /\ worker'.pc # "commit" /\ worker'.pc # "allocate"
      /\ worker'.pc \notin {"recv", "group"}
  BY <1>3 DEF Adding, Committed, Uncommitted
<1>5. /\ \A p, r : Gave(p, r) => ReadsAs(p, r)'
      /\ \A p : p \notin Given =>
            (p \in DOMAIN index' <=> p \in DOMAIN index) /\ (p \in DOMAIN index => index'[p] = index[p])
      /\ DOMAIN index' \subseteq Position /\ \A p \in DOMAIN index' : index'[p] \in Location
  BY CommitIndex, Zenon
<1>6. t \in Topics
  BY <1>0, <1>2, Zenon DEF StoreInv, BatchInv
<1>7. /\ handles[t] # Closed /\ ms # <<>> /\ Sorted(ms) /\ Below(ms, nextId)
      /\ \A u \in Topics : u # t => Apart(ms, infos[u])
      /\ Entries(ms) = Entries(infos[t]) \cup Given
  BY <1>0, <1>2, Zenon DEF StoreInv, AddingInv
<1>8. ms \in Lists
  BY <1>0, Zenon DEF StoreInv, Typed, Workers
<1>9. infos'[t] = ms /\ \A u \in Topics : u # t => infos'[u] = infos[u]
  BY <1>1, <1>6 DEF StoreInv, Typed
<1>10. /\ \A u \in Topics : \A p \in Entries(infos[u]) : \A r : ReadsAs(p, r)' <=> ReadsAs(p, r)
       /\ \A p \in Given : \E r \in worker.group : Gave(p, r)
       /\ \A r \in worker.group : r \in DOMAIN reqs /\ r <= Received /\ reqs[r] = t
  BY <1>0, CommitReads, Zenon
<1>13. \A u \in Topics : Entries(infos[u]) \subseteq Entries(infos'[u])
  BY <1>7, <1>9, Zenon
<1>14. Typed'
  <2>1. infos' \in [Topics -> Lists]
    BY <1>1, <1>6, <1>8, Zenon DEF StoreInv, Typed
  <2>. QED
    BY <1>1, <1>3, <1>5, <2>1, Zenon DEF StoreInv, Typed
<1>15. LogInv'
  BY <1>1, FilesStay, Zenon DEF StoreInv
<1>16. ListsInv'
  <2>1. \A u \in Topics : Sorted(infos'[u]) /\ Below(infos'[u], nextId)
    BY <1>7, <1>9, Zenon DEF StoreInv, ListsInv
  <2>2. ASSUME NEW u \in Topics, NEW v \in Topics, u # v PROVE Apart(infos'[u], infos'[v])
    <3>1. CASE u = t
      BY <3>1, <2>2, <1>7, <1>9, Zenon
    <3>2. CASE v = t
      BY <3>2, <2>2, <1>7, <1>9, Zenon DEF Apart
    <3>3. CASE u # t /\ v # t
      BY <3>3, <2>2, <1>9, Zenon DEF StoreInv, ListsInv
    <3>. QED
      BY <3>1, <3>2, <3>3
  <2>. QED
    BY <1>1, <2>1, <2>2, Zenon DEF ListsInv
<1>17. \A u \in Topics : handles[u] # Closed =>
          /\ handles[u].info # <<>> /\ (opening = NotOpening \/ opening.topic # u)
          /\ handles[u].info = infos[u]
          /\ handles[u].lac = NoPosition \/ handles[u].lac \in Entries(handles[u].info)
  BY <1>2, Zenon DEF StoreInv, HandlesInv, HandleOk
<1>18. HandlesInv'
  <2>. SUFFICES ASSUME NEW u \in Topics, handles[u] # Closed PROVE HandleOk(u)'
    BY <1>1, Zenon DEF HandlesInv
  <2>1. CASE u = t
    BY <1>0, <1>1, <1>3, <1>13, <1>17, <2>1, Zenon DEF HandleOk, SameWork
  <2>2. CASE u # t
    BY <1>1, <1>9, <1>17, <2>2, Zenon DEF HandleOk
  <2>. QED
    BY <2>1, <2>2
<1>19. OpeningInv'
  <2>. SUFFICES ASSUME opening # NotOpening PROVE OpeningInv'
    BY <1>1, Zenon DEF OpeningInv
  <2>1. opening.pc # "none" /\ opening.topic \in Topics /\ opening.topic # t
    BY <1>6, <1>7, <1>17, Zenon DEF StoreInv, OpeningInv
  <2>2. infos'[opening.topic] = infos[opening.topic]
    BY <1>9, <2>1, Zenon
  <2>3. ASSUME opening.pc = "append", NEW u \in Topics PROVE opening.got \notin Ids(infos'[u])
    BY <1>0, <1>2, <1>9, <2>3, Zenon DEF StoreInv, OpeningInv
  <2>. QED
    BY <1>1, <1>4, <2>1, <2>2, <2>3, Zenon DEF StoreInv, OpeningInv
<1>20. BatchInv'
  BY <1>1, <1>2, <1>3, <1>4, BatchStays, Zenon DEF StoreInv, SameWork
<1>21. AddingInv' /\ LocatedInv'
  BY <1>4, Zenon DEF AddingInv, LocatedInv
<1>22. PlacedInv'
  <2>1. Unplaced' = Unplaced
    BY <1>3, UnplacedSame, Zenon DEF SameWork
  <2>. QED
    BY <1>1, <1>3, <1>4, <2>1, Zenon DEF StoreInv, PlacedInv, SameWork
<1>23. CommittedInv'
  <2>1. ASSUME NEW i \in DOMAIN worker.placed, NEW p, NEW r,
               p = worker.placed[i].at, r = worker.placed[i].req
        PROVE  p \in Entries(ms) /\ ReadsAs(p, r)'
    <3>1. p \in Given /\ Gave(p, r)
      BY <2>1, Zenon DEF Given, Gave
    <3>. QED
      BY <1>5, <1>7, <3>1, Zenon
  <2>2. \A i \in DOMAIN worker'.placed :
           /\ worker'.placed[i].at \in Entries(infos'[worker'.topic])
           /\ ReadsAs(worker.placed[i].at, worker.placed[i].req)'
    BY <1>0, <1>3, <1>9, <2>1, Zenon DEF SameWork, ReadsAs
  <2>. QED
    BY <1>0, <1>1, <1>3, <1>7, <1>9, <2>2, Zenon DEF CommittedInv, SameWork
<1>24. Readable'
  <2>. SUFFICES ASSUME NEW u \in Topics, NEW p \in Entries(infos'[u])
                PROVE  \E r \in DOMAIN reqs : reqs[r] = u /\ ReadsAs(p, r)'
    BY <1>1, Zenon DEF Readable
  <2>1. CASE p \in Entries(infos[u])
    <3>1. PICK r \in DOMAIN reqs : reqs[r] = u /\ ReadsAs(p, r)
      BY <2>1, Zenon DEF StoreInv, Readable
    <3>. QED
      BY <1>10, <2>1, <3>1, Zenon
  <2>2. CASE p \notin Entries(infos[u])
    <3>1. u = t /\ p \in Given
      BY <1>7, <1>9, <2>2, Zenon
    <3>2. PICK r \in worker.group : Gave(p, r)
      BY <1>10, <3>1, Zenon
    <3>. QED
      BY <1>5, <1>10, <3>1, <3>2, Zenon
  <2>. QED
    BY <2>1, <2>2
<1>25. Received' = Received
  BY <1>1, Zenon DEF Received
<1>26. BehindInv'
  <2>. SUFFICES ASSUME NEW u \in Topics, NEW p \in Entries(infos'[u]), NEW r \in DOMAIN reqs,
                       ReadsAs(p, r)'
                PROVE  r <= Received /\ \A s \in worker.rest : reqs[s] = u => r < s
    BY <1>1, <1>3, <1>4, <1>25, Zenon DEF BehindInv, SameWork
  <2>1. CASE p \in Entries(infos[u])
    BY <1>10, <2>1, Zenon DEF StoreInv, BehindInv
  <2>2. CASE p \notin Entries(infos[u])
    <3>1. u = t /\ p \in Given
      BY <1>7, <1>9, <2>2, Zenon
    <3>2. PICK s \in worker.group : Gave(p, s)
      BY <1>10, <3>1, Zenon
    <3>3. ReadsAs(p, s)'
      BY <1>5, <3>2, Zenon
    <3>4. r = s
      BY <3>3, OneRecord, Zenon DEF ReadsAs
    <3>5. \A q \in worker.rest : reqs[q] # t
      BY <1>0, Zenon DEF StoreInv, BatchInv
    <3>. QED
      BY <1>10, <3>1, <3>4, <3>5, Zenon
  <2>. QED
    BY <2>1, <2>2
<1>27. ReaderInv'
  BY <1>1, ReaderStays, Zenon DEF StoreInv
<1>28. ConfirmedReadable'
  <2>. SUFFICES ASSUME NEW r \in DOMAIN reqs, answer[r].is = "ok", NEW p, p = answer[r].at
                PROVE  p \in Entries(infos'[reqs[r]]) /\ ReadsAs(p, r)'
    BY <1>1, Zenon DEF ConfirmedReadable, ReadsAs
  <2>1. p \in Entries(infos[reqs[r]]) /\ ReadsAs(p, r)
    BY Zenon DEF StoreInv, ConfirmedReadable
  <2>2. reqs[r] \in Topics
    BY DEF StoreInv, Typed
  <2>. QED
    BY <1>10, <1>13, <2>1, <2>2, Zenon
<1>. QED
  BY <1>14, <1>15, <1>16, <1>18, <1>19, <1>20, <1>21, <1>22, <1>23, <1>24, <1>26, <1>27, <1>28,
     Zenon DEF StoreInv

----------------------------------------------------------------------------
(* Publication. *)

\* The worker publishes what is in the database.
LEMMA PublishKeeps ==
    ASSUME StoreInv, worker.pc \in {"publish", "confirm"}, NEW x \in {"confirm", "reply"},
           worker' = [worker EXCEPT !.pc = x],
           UNCHANGED <<nextId, infos, index, reqs, answer, queue>>,
           UNCHANGED <<opening, reader, log, files>>,
           handles' \in [Topics -> Handle], handles'[worker.topic] # Closed, HandlesInv',
           \A t \in Topics : Entries(handles[t].info) \subseteq Entries(handles'[t].info)
    PROVE  StoreInv'
<1>1. worker' \in Workers /\ worker'.pc = x /\ SameWork
  BY GoesOn, Zenon DEF StoreInv, Pcs
<1>2. /\ ~Adding' /\ Committed' /\ Committed /\ ~Uncommitted' /\ worker'.pc # "commit"
      /\ worker'.pc # "allocate" /\ worker'.pc \notin {"recv", "group"} /\ worker.pc # "recv"
  BY <1>1 DEF Adding, Committed, Uncommitted
<1>3. Typed'
  BY <1>1, Zenon DEF StoreInv, Typed
<1>4. LogInv' /\ Grows(files, files')
  BY FilesStay, Zenon DEF StoreInv
<1>5. ListsInv'
  BY ListsStay, Zenon DEF StoreInv
<1>6. OpeningInv'
  BY <1>2, OpeningStays, Zenon DEF StoreInv
<1>7. BatchInv'
  BY <1>1, <1>2, BatchStays, Zenon DEF StoreInv, SameWork
<1>8. AddingInv' /\ LocatedInv'
  BY <1>2, Zenon DEF AddingInv, LocatedInv
<1>9. PlacedInv'
  <2>1. Unplaced' = Unplaced
    BY <1>1, UnplacedSame, Zenon DEF SameWork
  <2>. QED
    BY <1>1, <1>2, <2>1, Zenon DEF StoreInv, PlacedInv, SameWork
<1>10. CommittedInv'
  BY <1>1, <1>2, Zenon DEF StoreInv, CommittedInv, SameWork, ReadsAs
<1>11. LogKept
  BY <1>4, Zenon DEF LogKept, ReqsKept
<1>12. Readable' /\ BehindInv' /\ ConfirmedReadable'
  BY <1>1, <1>2, <1>11, StoredStays, Zenon DEF SameWork
<1>13. ReaderInv'
  BY ReaderStays, Zenon DEF StoreInv
<1>. QED
  BY <1>3, <1>4, <1>5, <1>6, <1>7, <1>8, <1>9, <1>10, <1>12, <1>13, Zenon DEF StoreInv

\* What has been committed for the worker's group.
LEMMA CommittedGroup ==
    ASSUME StoreInv, Committed
    PROVE  /\ worker.topic \in Topics /\ HandleOk(worker.topic) /\ handles[worker.topic] # Closed
           /\ worker.info = infos[worker.topic] /\ infos[worker.topic] # <<>>
           /\ infos[worker.topic] \in Lists
           /\ worker.placed[Len(worker.placed)].at \in Entries(infos[worker.topic])
           /\ worker.placed[Len(worker.placed)].at \in Position
<1>1. worker.pc # "recv"
  BY DEF Committed
<1>2. worker.topic \in Topics
  BY <1>1, Zenon DEF StoreInv, BatchInv
<1>3. /\ handles[worker.topic] # Closed /\ worker.info = infos[worker.topic] /\ worker.placed # <<>>
      /\ \A i \in DOMAIN worker.placed : worker.placed[i].at \in Entries(infos[worker.topic])
  BY Zenon DEF StoreInv, CommittedInv, PlacedInv
<1>4. HandleOk(worker.topic)
  BY <1>2, <1>3, Zenon DEF StoreInv, HandlesInv
<1>5. Len(worker.placed) \in DOMAIN worker.placed /\ worker.placed[Len(worker.placed)] \in Placing
  <2>1. worker.placed \in Seq(Placing)
    BY DEF StoreInv, Typed, Workers
  <2>. QED
    BY <1>3, <2>1
<1>6. infos[worker.topic] \in Lists
  BY <1>2 DEF StoreInv, Typed
<1>7. infos[worker.topic] # <<>>
  <2>1. \E p : p \in Entries(infos[worker.topic])
    BY <1>3, <1>5, Zenon
  <2>2. \E i \in 1..Len(infos[worker.topic]) : TRUE
    BY <1>6, <2>1, EntryOf, Zenon
  <2>. QED
    BY <2>2
<1>. QED
  BY <1>2, <1>3, <1>4, <1>5, <1>6, <1>7 DEF Placing

\* First the list,
LEMMA PublishInfoKeeps ==
    ASSUME StoreInv, PublishInfo
    PROVE  StoreInv'
<1>0. PICK t : t = worker.topic
  BY Zenon
<1>1. /\ UNCHANGED <<nextId, infos, index, reqs, answer, queue>>
      /\ UNCHANGED <<opening, reader, log, files>> /\ worker.pc = "publish"
      /\ handles' = [handles EXCEPT ![t].info = worker.info]
      /\ worker' = [worker EXCEPT !.pc = "confirm"]
  BY <1>0 DEF PublishInfo, durable, Topic
<1>2. /\ t \in Topics /\ HandleOk(t) /\ handles[t] # Closed /\ worker.info = infos[t]
      /\ infos[t] # <<>> /\ infos[t] \in Lists
  <2>1. Committed
    BY <1>1 DEF Committed
  <2>. QED
    BY <1>0, <2>1, CommittedGroup, Zenon
<1>3. /\ handles'[t].info = infos[t] /\ handles'[t].lac = handles[t].lac
      /\ \A u \in Topics : u # t => handles'[u] = handles[u]
      /\ handles' \in [Topics -> Handle]
  BY <1>1, <1>2 DEF StoreInv, Typed, Handle
<1>4. Entries(handles[t].info) \subseteq Entries(infos[t])
  BY <1>2, Zenon DEF HandleOk
<1>5. \A u \in Topics : Entries(handles[u].info) \subseteq Entries(handles'[u].info)
  BY <1>3, <1>4, Zenon
<1>6. HandlesInv'
  <2>1. HandleOk(t)'
    BY <1>1, <1>2, <1>3, <1>4, Zenon DEF HandleOk
  <2>2. ASSUME NEW u \in Topics, u # t, handles[u] # Closed PROVE HandleOk(u)'
    <3>1. HandleOk(u)
      BY <2>2, Zenon DEF StoreInv, HandlesInv
    <3>. QED
      BY <1>0, <1>1, <1>3, <2>2, <3>1, Zenon DEF HandleOk
  <2>. QED
    BY <1>3, <2>1, <2>2, Zenon DEF HandlesInv
<1>7. handles'[worker.topic] # Closed
  BY <1>0, <1>2, <1>3 DEF Closed
<1>8. worker.pc \in {"publish", "confirm"}
  BY <1>1
<1>. QED
  BY <1>1, <1>3, <1>5, <1>6, <1>7, <1>8, PublishKeeps

\* then the last position.
LEMMA PublishLacKeeps ==
    ASSUME StoreInv, PublishLac
    PROVE  StoreInv'
<1>0. PICK t, p : t = worker.topic /\ p = worker.placed[Len(worker.placed)].at
  BY Zenon
<1>1. /\ UNCHANGED <<nextId, infos, index, reqs, answer, queue>>
      /\ UNCHANGED <<opening, reader, log, files>> /\ worker.pc = "confirm"
      /\ handles' = [handles EXCEPT ![t].lac = p]
      /\ worker' = [worker EXCEPT !.pc = "reply"]
  BY <1>0 DEF PublishLac, durable, Topic
<1>2. /\ t \in Topics /\ HandleOk(t) /\ handles[t] # Closed /\ infos[t] # <<>>
      /\ p \in Entries(infos[t]) /\ p \in Position
  <2>1. Committed
    BY <1>1 DEF Committed
  <2>. QED
    BY <1>0, <2>1, CommittedGroup, Zenon
<1>3. handles[t].info = infos[t] /\ (opening = NotOpening \/ opening.topic # t)
  <2>1. worker.pc # "publish"
    BY <1>1
  <2>. QED
    BY <1>2, <2>1, Zenon DEF HandleOk
<1>4. /\ handles'[t].info = infos[t] /\ handles'[t].lac = p
      /\ \A u \in Topics : u # t => handles'[u] = handles[u]
      /\ handles' \in [Topics -> Handle]
  BY <1>1, <1>2, <1>3 DEF StoreInv, Typed, Handle
<1>5. \A u \in Topics : Entries(handles[u].info) \subseteq Entries(handles'[u].info)
  BY <1>3, <1>4, Zenon
<1>6. HandlesInv'
  <2>1. HandleOk(t)'
    BY <1>1, <1>2, <1>3, <1>4, Zenon DEF HandleOk
  <2>2. ASSUME NEW u \in Topics, u # t, handles[u] # Closed PROVE HandleOk(u)'
    <3>1. HandleOk(u) /\ worker.pc # "publish"
      BY <1>1, <2>2 DEF StoreInv, HandlesInv
    <3>. QED
      BY <1>1, <1>4, <2>2, <3>1, Zenon DEF HandleOk
  <2>. QED
    BY <1>4, <2>1, <2>2, Zenon DEF HandlesInv
<1>7. handles'[worker.topic] # Closed
  BY <1>0, <1>2, <1>4 DEF Closed
<1>8. worker.pc \in {"publish", "confirm"}
  BY <1>1
<1>. QED
  BY <1>1, <1>4, <1>5, <1>6, <1>7, <1>8, PublishKeeps

----------------------------------------------------------------------------
(* The broker stops and starts. *)

\* Files that grow twice grow.
LEMMA GrowsOn ==
    ASSUME NEW fs, NEW gs, NEW hs, Grows(fs, gs), Grows(gs, hs)
    PROVE  Grows(fs, hs)
<1>1. ASSUME NEW i \in DOMAIN fs PROVE Longer(fs[i], hs[i])
  <2>1. Longer(fs[i], gs[i]) /\ Longer(gs[i], hs[i])
    BY Zenon DEF Grows
  <2>. QED
    BY <2>1 DEF Longer
<1>. QED
  BY <1>1, Zenon DEF Grows

\* The largest of the file ids.
LEMMA MaxUpTo ==
    ASSUME NEW n \in Nat
    PROVE  Max(0..n) = n
<1>1. n \in 0..n /\ \A y \in 0..n : n >= y
  OBVIOUS
<1>2. \A x \in 0..n : (\A y \in 0..n : x >= y) => x = n
  OBVIOUS
<1>3. PICK m : m = Max(0..n)
  BY Zenon
<1>4. m \in 0..n /\ \A y \in 0..n : m >= y
  BY <1>1, <1>3, Zenon DEF Max
<1>. QED
  BY <1>2, <1>3, <1>4, Zenon

\* A worker, an open, a reader and a cache that have not started.
LEMMA IdleTyped ==
    /\ IdleWorker \in Workers /\ NotOpening \in Opening /\ IdleReader \in Readers
    /\ [t \in Topics |-> Closed] \in [Topics -> Handle]
<1>1. <<>> \in Seq(Ledger) /\ <<>> \in Seq(Placing) /\ <<>> \in Seq(Location)
  OBVIOUS
<1>2. IdleWorker \in Workers
  BY <1>1 DEF IdleWorker, Workers, Lists
<1>3. Closed \in Handle
  BY <1>1 DEF Closed, Handle, Lists, NoPosition
<1>. QED
  BY <1>2, <1>3 DEF NotOpening, Opening, IdleReader, Readers, NoPosition

Idle ==
    /\ worker = IdleWorker /\ queue = <<>> /\ Len(reqs) \in Nat
    /\ handles = [t \in Topics |-> Closed] /\ opening = NotOpening /\ reader = IdleReader

IdleOk ==
    /\ HandlesInv /\ OpeningInv /\ BatchInv /\ AddingInv /\ PlacedInv /\ LocatedInv
    /\ CommittedInv /\ ReaderInv /\ Received = Len(reqs) /\ ~Uncommitted

\* A broker that does nothing yet.
LEMMA IdleKeeps == Idle => IdleOk
<1>. SUFFICES ASSUME Idle PROVE IdleOk
  OBVIOUS
<1>0. /\ worker = IdleWorker /\ queue = <<>> /\ Len(reqs) \in Nat
      /\ handles = [t \in Topics |-> Closed] /\ opening = NotOpening /\ reader = IdleReader
  BY DEF Idle
<1>1. HandlesInv /\ OpeningInv /\ ReaderInv
  BY <1>0 DEF HandlesInv, OpeningInv, ReaderInv
<1>2. worker.pc = "recv" /\ worker.group = {} /\ worker.rest = {} /\ worker.placed = <<>>
  BY <1>0 DEF IdleWorker
<1>3. ~Adding /\ ~Committed /\ ~Uncommitted /\ worker.pc # "commit"
  BY <1>2 DEF Adding, Committed, Uncommitted
<1>4. Received = Len(reqs) /\ Len(queue) = 0
  BY <1>0 DEF Received
<1>5. BatchInv
  BY <1>0, <1>2, <1>4 DEF BatchInv
<1>6. DOMAIN worker.placed = {}
  BY <1>2
<1>. QED
  BY <1>1, <1>3, <1>4, <1>5, <1>6, Zenon DEF AddingInv, PlacedInv, LocatedInv, CommittedInv, IdleOk

\* Every file of the stopped broker stays, whatever it was writing.
LEMMA RestartFiles ==
    ASSUME StoreInv, Restart
    PROVE  LogInv' /\ Grows(files, files') /\ log'.id \in Nat /\ log'.offset \in Nat
<1>1. PICK n \in (IF AllPlaced THEN 0..Len(Buffer) ELSE {0}) :
         LET left == IF AllPlaced THEN Written(n) ELSE files
             id   == Max(DOMAIN left) + 1
         IN  /\ files' = Over([i \in {id} |-> <<>>], left)
             /\ log' = [id |-> id, offset |-> 0, open |-> id]
  BY Zenon DEF Restart
<1>2. PICK left : left = IF AllPlaced THEN Written(n) ELSE files
  BY Zenon
<1>3. PICK k \in Nat : Files(left, 0..k) /\ Grows(files, left)
  <2>1. CASE AllPlaced
    <3>1. n \in 0..Len(Buffer)
      BY <2>1, Zenon
    <3>2. Files(Written(n), 0..Rotated.id) /\ Grows(files, Written(n)) /\ Rotated.id \in Nat
      BY <3>1, WrittenHolds, Zenon DEF StoreInv
    <3>. QED
      BY <1>2, <2>1, <3>2, Zenon
  <2>2. CASE ~AllPlaced
    <3>1. left = files
      BY <1>2, <2>2, Zenon
    <3>2. Files(files, 0..log.id) /\ log.id \in Nat
      BY Zenon DEF StoreInv, LogInv, Typed
    <3>3. Grows(files, files)
      <4>1. \A i \in DOMAIN files : Longer(files[i], files[i])
        BY <3>2, FileGrows, Zenon DEF Files
      <4>. QED
        BY <4>1, Zenon DEF Grows
    <3>. QED
      BY <3>1, <3>2, <3>3, Zenon
  <2>. QED
    BY <2>1, <2>2, Zenon
<1>4. Max(DOMAIN left) = k
  BY <1>3, MaxUpTo, Zenon DEF Files
<1>5. /\ files' = Over([i \in {k + 1} |-> <<>>], left)
      /\ log' = [id |-> k + 1, offset |-> 0, open |-> k + 1]
  BY <1>1, <1>2, <1>4, Zenon
<1>6. Puts(left, files', 0..k, k + 1, <<>>)
  BY <1>3, <1>5, OverPuts, Zenon
<1>7. <<>> \in Seq(Cells) /\ k + 1 \notin 0..k /\ (0..k) \cup {k + 1} = 0..(k + 1) /\ k + 1 \in Nat
      /\ Len(<<>>) = 0 /\ 0 \in Nat
  BY <1>3
<1>8. Files(files', (0..k) \cup {k + 1}) /\ Grows(left, files') /\ files'[k + 1] = <<>>
  BY <1>3, <1>6, <1>7, FileAdded, Zenon
<1>9. Grows(files, files')
  BY <1>3, <1>8, GrowsOn, Zenon
<1>10. log'.id = k + 1 /\ log'.offset = 0
  BY <1>5
<1>. QED
  BY <1>5, <1>7, <1>8, <1>9, <1>10, Zenon DEF LogInv

\* The broker stops and starts again.
LEMMA RestartKeeps ==
    ASSUME StoreInv, Restart
    PROVE  StoreInv'
<1>1. /\ UNCHANGED <<nextId, infos, index, reqs>> /\ queue' = <<>> /\ worker' = IdleWorker
      /\ handles' = [t \in Topics |-> Closed] /\ opening' = NotOpening /\ reader' = IdleReader
      /\ answer' = [r \in DOMAIN answer |->
                      IF answer[r] = Waiting THEN [Waiting EXCEPT !.is = "lost"] ELSE answer[r]]
  BY DEF Restart
<1>2. LogInv' /\ Grows(files, files') /\ log'.id \in Nat /\ log'.offset \in Nat
  BY RestartFiles, Zenon
<1>3. /\ reqs \in Seq(Topics) /\ Len(reqs) \in Nat /\ DOMAIN reqs = 1..Len(reqs) /\ Len(queue) \in Nat
      /\ answer \in Seq(Told) /\ DOMAIN answer = 1..Len(reqs)
  BY DEF StoreInv, Typed
<1>4. [Waiting EXCEPT !.is = "lost"] \in Told /\ [Waiting EXCEPT !.is = "lost"].is # "ok"
  BY DEF Waiting, Told
<1>5. /\ answer' \in Seq(Told) /\ Len(answer') = Len(reqs)
      /\ \A r \in DOMAIN reqs : answer'[r].is = "ok" => answer'[r] = answer[r]
  <2>1. \A r \in 1..Len(reqs) : answer'[r] \in Told /\ (answer'[r].is = "ok" => answer'[r] = answer[r])
    BY <1>1, <1>3, <1>4
  <2>2. answer' = [r \in 1..Len(reqs) |-> answer'[r]]
    BY <1>1, <1>3
  <2>3. answer' \in Seq(Told) /\ Len(answer') = Len(reqs)
    BY <1>3, <2>1, <2>2, SeqOf, Zenon
  <2>. QED
    BY <1>3, <2>1, <2>3, Zenon
<1>6. Typed'
  <2>1. <<>> \in Seq(Nat)
    OBVIOUS
  <2>. QED
    BY <1>1, <1>2, <1>5, <2>1, IdleTyped, Zenon DEF StoreInv, Typed
<1>7. ListsInv'
  BY <1>1, ListsStay, Zenon DEF StoreInv
<1>8. /\ HandlesInv' /\ OpeningInv' /\ BatchInv' /\ AddingInv' /\ PlacedInv' /\ LocatedInv'
      /\ CommittedInv' /\ ReaderInv' /\ Received' = Len(reqs) /\ ~Uncommitted'
  <2>1. Idle'
    BY <1>1, <1>3, Zenon DEF Idle
  <2>2. IdleOk'
    BY <2>1, IdleKeeps, PTL
  <2>. QED
    BY <1>1, <2>2, Zenon DEF IdleOk
<1>9. LogKept
  BY <1>1, <1>2, Zenon DEF LogKept, ReqsKept
<1>10. Readable'
  BY <1>9, ReadableStays, Zenon DEF StoreInv
<1>11. ConfirmedReadable'
  <2>1. DOMAIN reqs = DOMAIN answer
    BY <1>3
  <2>. QED
    BY <1>1, <1>5, <1>9, <2>1, ConfirmedStays, Zenon DEF StoreInv
<1>12. BehindInv'
  <2>1. Received' \in Nat /\ Received <= Received'
    BY <1>3, <1>8 DEF Received
  <2>2. worker'.rest = {}
    BY <1>1 DEF IdleWorker
  <2>. QED
    BY <1>8, <1>9, <2>1, <2>2, BehindStays, Zenon DEF StoreInv
<1>. QED
  BY <1>2, <1>6, <1>7, <1>8, <1>10, <1>11, <1>12, Zenon DEF StoreInv

\* The first start.
LEMMA InitKeeps ==
    ASSUME Init
    PROVE  StoreInv
<1>1. /\ nextId = 0 /\ infos = [t \in Topics |-> <<>>] /\ index = <<>>
      /\ files = [i \in {0} |-> <<>>] /\ log = [id |-> 0, offset |-> 0, open |-> 0]
      /\ reqs = <<>> /\ answer = <<>> /\ queue = <<>>
      /\ handles = [t \in Topics |-> Closed] /\ opening = NotOpening
      /\ worker = IdleWorker /\ reader = IdleReader
  BY DEF Init
<1>2. Len(reqs) = 0 /\ DOMAIN reqs = {} /\ Len(answer) = 0 /\ DOMAIN index = {}
  BY <1>1
<1>3. \A t \in Topics : infos[t] = <<>> /\ infos[t] \in Lists /\ DOMAIN infos[t] = {}
  BY <1>1 DEF Lists
<1>4. Typed
  <2>1. <<>> \in Seq(Nat) /\ <<>> \in Seq(Told) /\ <<>> \in Seq(Topics) /\ <<>> \in Seq(Ledger)
    OBVIOUS
  <2>2. infos \in [Topics -> Lists]
    BY <1>1, <2>1 DEF Lists
  <2>3. nextId \in Nat /\ log.id \in Nat /\ log.offset \in Nat
    BY <1>1
  <2>. QED
    BY <1>1, <1>2, <2>1, <2>2, <2>3, IdleTyped, Zenon DEF Typed
<1>5. LogInv
  <2>1. log.id = 0 /\ log.offset = 0 /\ 0..0 = {0} /\ <<>> \in Seq(Cells) /\ Len(<<>>) = 0
    BY <1>1
  <2>2. DOMAIN files = {0} /\ files[0] = <<>>
    BY <1>1
  <2>. QED
    BY <1>1, <2>1, <2>2 DEF LogInv, Files
<1>6. ListsInv
  BY <1>3, Zenon DEF ListsInv, Sorted, Below, Apart, Ids
<1>7. /\ HandlesInv /\ OpeningInv /\ BatchInv /\ AddingInv /\ PlacedInv /\ LocatedInv
      /\ CommittedInv /\ ReaderInv
  BY <1>1, <1>2, IdleKeeps DEF Idle, IdleOk
<1>8. \A t \in Topics : Entries(infos[t]) = {}
  BY <1>3, Zenon DEF Entries
<1>9. Readable /\ BehindInv
  BY <1>8, Zenon DEF Readable, BehindInv
<1>10. ConfirmedReadable
  BY <1>2, Zenon DEF ConfirmedReadable
<1>. QED
  BY <1>4, <1>5, <1>6, <1>7, <1>9, <1>10, Zenon DEF StoreInv

\* Every step keeps the invariant, given a log whose failing writes leave nothing and
\* an allocator that is read and written in one piece.
LEMMA NextKeeps ==
    ASSUME StoreInv, [Next]_vars, LogFaults = FALSE, AllocatorRaces = FALSE
    PROVE  StoreInv'
<1>1. CASE Work
  BY <1>1, TakeBatchKeeps, StartGroupKeeps, AssignEntryKeeps, RollOverKeeps, AppendLogKeeps,
     CommitKeeps, PublishInfoKeeps, PublishLacKeeps, ReplyKeeps, Zenon DEF Work
<1>2. CASE Opens
  BY <1>2, OpenKeeps, OpenAllocatesKeeps, OpenStoresKeeps, Zenon DEF Opens
<1>3. CASE OpenFails \/ AppendFails \/ DbFails \/ Restart \/ LoadInfo
  BY <1>3, OpenFailsKeeps, AppendFailsKeeps, DbFailsKeeps, RestartKeeps, LoadInfoKeeps, Zenon
<1>4. CASE \E t \in Topics : Submit(t) \/ LoadLac(t)
  BY <1>4, SubmitKeeps, LoadLacKeeps, Zenon
<1>5. CASE UNCHANGED vars
  <2>1. /\ UNCHANGED <<nextId, infos, index, reqs, answer, queue, handles>>
        /\ UNCHANGED <<files, log, worker>> /\ UNCHANGED <<opening, reader>>
    BY <1>5 DEF vars, durable
  <2>2. Typed'
    BY <2>1, Zenon DEF StoreInv, Typed
  <2>3. HandlesInv'
    BY <2>1, HandlesStay, Zenon DEF StoreInv
  <2>4. OpeningInv'
    BY <2>1, Zenon DEF StoreInv, OpeningInv, Adding
  <2>5. ReaderInv'
    BY <2>1, Zenon DEF StoreInv, ReaderInv
  <2>. QED
    BY <2>1, <2>2, <2>3, <2>4, <2>5, Beside, Zenon
<1>. QED
  BY <1>1, <1>2, <1>3, <1>4, <1>5, Zenon DEF Next

----------------------------------------------------------------------------
(* Theorems. *)

\* The log's failing writes leave nothing in a file, and the allocator is protected.
Sound == LogFaults = FALSE /\ AllocatorRaces = FALSE

\* The inductive invariant of the write path holds.
THEOREM StoreInvariant == Sound /\ Spec => []StoreInv
<1>1. Init => StoreInv
  BY InitKeeps
<1>2. ASSUME Sound PROVE StoreInv /\ [Next]_vars => StoreInv'
  BY <1>2, NextKeeps DEF Sound
<1>3. ASSUME Sound PROVE Spec => []StoreInv
  BY <1>1, <1>2, <1>3, PTL DEF Spec
<1>. QED
  BY <1>3

\* A publish that was confirmed can be read at its position with its own contents,
\* for any number of topics, publishes, ledgers, files, failures and restarts.
THEOREM AlwaysReadable == Sound /\ Spec => []ConfirmedReadable
<1>1. StoreInv => ConfirmedReadable
  BY Zenon DEF StoreInv
<1>. QED
  BY <1>1, StoreInvariant, PTL

\* What a reader has loaded is a prefix of whole, readable entries.
LEMMA SeenWhole ==
    ASSUME StoreInv, LoadInfo
    PROVE  LET seen == Entries(handles[reader.topic].info)
           IN  /\ reader.lac \in seen
               /\ \A p \in seen : Leq(p, reader.lac) =>
                     \E r \in DOMAIN reqs : reqs[r] = reader.topic /\ ReadsAs(p, r)
<1>. DEFINE t == reader.topic
<1>1. t \in Topics /\ reader.lac \in Entries(handles[t].info)
  BY Zenon DEF StoreInv, ReaderInv, LoadInfo
<1>2. handles[t] # Closed
  <2>1. Closed.info = <<>> /\ <<>> \in Lists /\ Len(<<>>) = 0
    BY DEF Closed, Lists
  <2>2. ~\E i \in 1..Len(<<>>) : TRUE
    BY <2>1
  <2>3. \A p : p \notin Entries(<<>>)
    BY <2>1, <2>2, EntryOf, Zenon
  <2>. QED
    BY <1>1, <2>1, <2>3, Zenon
<1>3. Entries(handles[t].info) \subseteq Entries(infos[t])
  BY <1>1, <1>2, Zenon DEF StoreInv, HandlesInv, HandleOk
<1>. QED
  BY <1>1, <1>3, Zenon DEF StoreInv, Readable

\* A reader that loads the LAC and then the list finds every entry up to the LAC,
\* whatever the worker publishes in between.
THEOREM ReadersAlwaysSeeWhole == Sound /\ Spec => ReadersSeeWhole
<1>1. StoreInv =>
        [LoadInfo =>
          LET seen == Entries(handles[reader.topic].info)
          IN  /\ reader.lac \in seen
              /\ \A p \in seen : Leq(p, reader.lac) =>
                    \E r \in DOMAIN reqs : reqs[r] = reader.topic /\ ReadsAs(p, r)]_vars
  BY SeenWhole, Zenon
<1>. QED
  BY <1>1, StoreInvariant, PTL DEF ReadersSeeWhole

----------------------------------------------------------------------------
(* The log of DurableLog. *)

\* An entry of the stored log.
LEMMA StoredAt ==
    ASSUME NEW t, NEW e
    PROVE  e \in Stored(t) <=>
              \E p \in Entries(infos[t]), r \in DOMAIN reqs : ReadsAs(p, r) /\ e = <<p, r>>
<1>1. e \in Stored(t) <=> \E p \in Entries(infos[t]) \cap DOMAIN index :
                             e \in {<<p, r>> : r \in {q \in DOMAIN reqs : ReadsAs(p, q)}}
  BY Zenon DEF Stored
<1>2. \A p, r : ReadsAs(p, r) => p \in DOMAIN index
  BY Zenon DEF ReadsAs
<1>. QED
  BY <1>1, <1>2, Zenon

\* The same one state later.
LEMMA StoredAtNext ==
    ASSUME NEW t, NEW e
    PROVE  e \in Stored(t)' <=>
              \E p \in Entries(infos'[t]), r \in DOMAIN reqs' : ReadsAs(p, r)' /\ e = <<p, r>>
<1>1. e \in Stored(t)' <=> \E p \in Entries(infos'[t]) \cap DOMAIN index' :
                             e \in {<<p, r>> : r \in {q \in DOMAIN reqs' : ReadsAs(p, q)'}}
  BY Zenon DEF Stored
<1>2. \A p, r : ReadsAs(p, r)' => p \in DOMAIN index'
  BY Zenon DEF ReadsAs
<1>. QED
  BY <1>1, <1>2, Zenon

\* A step that keeps lists, locations and records keeps the log.
LEMMA StoredSame ==
    ASSUME Typed, Readable, LogKept, NEW t \in Topics
    PROVE  Stored(t)' = Stored(t)
<1>1. ASSUME NEW e \in Stored(t)' PROVE e \in Stored(t)
  <2>0. \E p \in Entries(infos'[t]), r \in DOMAIN reqs' : ReadsAs(p, r)' /\ e = <<p, r>>
    BY StoredAtNext
  <2>1. PICK p \in Entries(infos[t]), r \in DOMAIN reqs' : ReadsAs(p, r)' /\ e = <<p, r>>
    BY <2>0, Zenon DEF LogKept
  <2>2. ReadsAs(p, r) /\ r \in DOMAIN reqs
    BY <2>1, ReadsSame, Zenon DEF LogKept
  <2>. QED
    BY <2>1, <2>2, StoredAt, Zenon
<1>2. ASSUME NEW e \in Stored(t) PROVE e \in Stored(t)'
  <2>1. PICK p \in Entries(infos[t]), r \in DOMAIN reqs : ReadsAs(p, r) /\ e = <<p, r>>
    BY StoredAt
  <2>2. ReadsAs(p, r)' /\ r \in DOMAIN reqs'
    BY <2>1, ReadsKept, Zenon DEF LogKept, ReqsKept
  <2>. QED
    BY <2>1, <2>2, StoredAtNext, Zenon DEF LogKept
<1>. QED
  BY <1>1, <1>2, Zenon

Logs == [t \in Topics |-> Stored(t)]
Statuses == [r \in DOMAIN answer |-> answer[r].is]

\* And so the logs of all topics.
LEMMA LogsSame ==
    ASSUME Typed, Readable, LogKept
    PROVE  Logs' = Logs
BY StoredSame, Zenon DEF Logs

\* Every step but the database write keeps the log.
LEMMA NextKeepsLog ==
    ASSUME StoreInv, [Next]_vars, LogFaults = FALSE, ~Commit
    PROVE  LogKept
<1>1. CASE UNCHANGED <<infos, index, log, files, reqs>>
  BY <1>1, LogSame, Zenon DEF StoreInv
<1>2. ASSUME UNCHANGED <<infos, index, reqs>>, Grows(files, files') PROVE LogKept
  BY <1>2, Zenon DEF LogKept, ReqsKept
<1>3. CASE AppendLog
  <2>1. Len(Buffer) \in 0..Len(Buffer)
    BY BufferHolds DEF StoreInv
  <2>2. Grows(files, files')
    BY <1>3, <2>1, WrittenHolds, Zenon DEF StoreInv, AppendLog
  <2>. QED
    BY <1>2, <1>3, <2>2, Zenon DEF AppendLog
<1>4. CASE AppendFails
  <2>1. 0 \in 0..Len(Buffer)
    BY BufferHolds DEF StoreInv
  <2>2. files' = Written(0)
    BY <1>4 DEF AppendFails, FailedWrites
  <2>3. Grows(files, files')
    BY <2>1, <2>2, WrittenHolds, Zenon DEF StoreInv
  <2>. QED
    BY <1>2, <1>4, <2>3, Zenon DEF AppendFails
<1>5. CASE Restart
  <2>1. Grows(files, files')
    BY <1>5, RestartFiles, Zenon
  <2>. QED
    BY <1>2, <1>5, <2>1, Zenon DEF Restart
<1>6. CASE OpenStores
  BY <1>6, OpenStoresKeeps, Zenon
<1>7. CASE Work /\ ~AppendLog
  BY <1>1, <1>7 DEF Work, TakeBatch, StartGroup, AssignEntry, RollOver, PublishInfo, PublishLac,
     Reply, Refuse, Answers, durable
<1>8. CASE (\E t \in Topics : open_ledger(t)) \/ OpenAllocates \/ OpenFails \/ DbFails \/ LoadInfo
  BY <1>1, <1>8 DEF open_ledger, OpenAllocates, OpenFails, DbFails, LoadInfo, durable
<1>9. CASE \E t \in Topics : LoadLac(t)
  BY <1>1, <1>9 DEF LoadLac, durable
<1>10. CASE \E t \in Topics : Submit(t)
  BY <1>10, SubmitKeeps, Zenon
<1>11. CASE UNCHANGED vars
  BY <1>1, <1>11 DEF vars, durable
<1>. QED
  BY <1>3, <1>4, <1>5, <1>6, <1>7, <1>8, <1>9, <1>10, <1>11, Zenon DEF Next, Opens

----------------------------------------------------------------------------
(* The steps of DurableLog. *)

\* Sequences with the same elements are equal.
LEMMA SameSeq ==
    ASSUME NEW S, NEW a \in Seq(S), NEW b \in Seq(S), Len(a) = Len(b),
           \A i \in 1..Len(a) : a[i] = b[i]
    PROVE  a = b
OBVIOUS

\* What publishers were told, after another publish.
LEMMA StatusAdds ==
    ASSUME NEW a \in Seq(Told), NEW x \in Told
    PROVE  [r \in DOMAIN Append(a, x) |-> Append(a, x)[r].is] = Append([r \in DOMAIN a |-> a[r].is], x.is)
<1>. DEFINE S == {"waiting", "ok", "refused", "lost"}
            b == Append(a, x)
            f == [r \in DOMAIN a |-> a[r].is]
            g == [r \in DOMAIN b |-> b[r].is]
<1>1. Len(a) \in Nat /\ DOMAIN a = 1..Len(a) /\ \A i \in 1..Len(a) : a[i] \in Told
  BY LenNat
<1>2. b \in Seq(Told) /\ DOMAIN b = 1..(Len(a) + 1) /\ b[Len(a) + 1] = x
      /\ \A i \in 1..Len(a) : b[i] = a[i]
  OBVIOUS
<1>3. \A y \in Told : y.is \in S
  BY DEF Told
<1>. HIDE DEF b
<1>4. f \in Seq(S) /\ Len(f) = Len(a)
  <2>1. f = [r \in 1..Len(a) |-> f[r]] /\ \A r \in 1..Len(a) : f[r] \in S
    BY <1>1, <1>3
  <2>. HIDE DEF f, S
  <2>. QED
    BY <1>1, <2>1, SeqOf, Zenon
<1>5. g \in Seq(S) /\ Len(g) = Len(a) + 1
  <2>1. g = [r \in 1..(Len(a) + 1) |-> g[r]] /\ \A r \in 1..(Len(a) + 1) : g[r] \in S
    BY <1>1, <1>2, <1>3
  <2>2. Len(a) + 1 \in Nat
    BY <1>1
  <2>. HIDE DEF g, S
  <2>. QED
    BY <2>1, <2>2, SeqOf, Zenon
<1>6. \A r \in 1..Len(a) : f[r] = a[r].is /\ g[r] = a[r].is
  BY <1>1, <1>2
<1>7. g[Len(a) + 1] = x.is
  BY <1>1, <1>2
<1>8. x.is \in S
  BY <1>3, Zenon
<1>. HIDE DEF f, g, S
<1>9. /\ Append(f, x.is) \in Seq(S) /\ Len(Append(f, x.is)) = Len(a) + 1
      /\ \A r \in 1..Len(a) : Append(f, x.is)[r] = f[r]
      /\ Append(f, x.is)[Len(a) + 1] = x.is
  BY <1>4, <1>8
<1>10. \A r \in 1..(Len(a) + 1) : r \in 1..Len(a) \/ r = Len(a) + 1
  BY <1>1
<1>11. \A r \in 1..Len(g) : g[r] = Append(f, x.is)[r]
  BY <1>5, <1>6, <1>7, <1>9, <1>10, Zenon
<1>12. g = Append(f, x.is)
  BY <1>5, <1>9, <1>11, SameSeq, Zenon
<1>. QED
  BY <1>12, Zenon DEF f, g, b

\* Submit is the abstract one.
LEMMA SubmitRefines ==
    ASSUME StoreInv, NEW t \in Topics, Submit(t)
    PROVE  DL!Submit
<1>1. reqs' = Append(reqs, t) /\ answer' = Append(answer, Waiting)
  BY Zenon DEF Submit
<1>2. Logs' = Logs
  <2>1. LogKept
    BY SubmitKeeps, Zenon
  <2>. QED
    BY <2>1, LogsSame, Zenon DEF StoreInv
<1>3. answer \in Seq(Told) /\ Waiting \in Told /\ Waiting.is = "waiting"
  BY DEF StoreInv, Typed, Waiting, Told, NoPosition
<1>4. Statuses' = Append(Statuses, "waiting")
  BY <1>1, <1>3, StatusAdds, Zenon DEF Statuses
<1>. QED
  BY <1>1, <1>2, <1>4, Zenon DEF DL!Submit, Logs, Statuses

\* Positions are ordered one way only.
LEMMA LtNot ==
    ASSUME NEW p \in Position, NEW q \in Position, Lt(p, q)
    PROVE  ~Lt(q, p)
BY DEF Lt, Position

\* Positions and publishes of a group are in the same order.
LEMMA GaveOrder ==
    ASSUME StoreInv, NEW p, NEW r, NEW q, NEW s, Gave(p, r), Gave(q, s)
    PROVE  (Lt(q, p) <=> s < r) /\ (s = r => q = p)
<1>1. PICK i \in DOMAIN worker.placed : worker.placed[i].at = p /\ worker.placed[i].req = r
  BY Zenon DEF Gave
<1>2. PICK j \in DOMAIN worker.placed : worker.placed[j].at = q /\ worker.placed[j].req = s
  BY Zenon DEF Gave
<1>3. i \in Nat /\ j \in Nat /\ p \in Position /\ q \in Position /\ r \in Nat /\ s \in Nat
  <2>1. i \in Nat /\ j \in Nat /\ worker.placed[i] \in Placing /\ worker.placed[j] \in Placing
    BY DEF StoreInv, Typed, Workers
  <2>. QED
    BY <1>1, <1>2, <2>1 DEF Placing
<1>4. CASE i < j
  <2>1. r < s /\ Lt(p, q)
    BY <1>1, <1>2, <1>4, Zenon DEF StoreInv, PlacedInv
  <2>2. ~(s < r) /\ s # r
    BY <1>3, <2>1
  <2>. QED
    BY <1>3, <2>1, <2>2, LtNot, Zenon
<1>5. CASE j < i
  <2>1. s < r /\ Lt(q, p)
    BY <1>1, <1>2, <1>5, Zenon DEF StoreInv, PlacedInv
  <2>2. s # r
    BY <1>3, <2>1
  <2>. QED
    BY <2>1, <2>2, Zenon
<1>6. CASE i = j
  <2>1. p = q /\ r = s
    BY <1>1, <1>2, <1>6
  <2>2. ~(s < r)
    BY <1>3, <2>1
  <2>. QED
    BY <1>3, <2>1, <2>2, LtSelf, Zenon
<1>. QED
  BY <1>3, <1>4, <1>5, <1>6

\* The database write is the abstract commit: the group enters the log, in order.
LEMMA CommitRefines ==
    ASSUME StoreInv, Commit
    PROVE  DL!Commit
<1>0. PICK t, old, new : t = worker.topic /\ old = Stored(t) /\ new = Stored(t)'
  BY Zenon
<1>1. /\ \A u \in Topics : \A p \in Entries(infos[u]) : \A r : ReadsAs(p, r)' <=> ReadsAs(p, r)
      /\ \A p \in Given : \E r \in worker.group : Gave(p, r)
      /\ \A r \in worker.group : r \in DOMAIN reqs /\ r <= Received /\ reqs[r] = t
      /\ \A u \in Topics \ {t} : infos'[u] = infos[u]
      /\ Entries(infos'[t]) = Entries(infos[t]) \cup Given
      /\ t \in Topics
  BY <1>0, CommitReads, Zenon
<1>2. worker.pc = "commit" /\ UNCHANGED <<reqs, answer>>
  BY Zenon DEF Commit
<1>3. Adding /\ Uncommitted
  BY <1>2 DEF Adding, Uncommitted
<1>4. \A p, r : Gave(p, r) => ReadsAs(p, r)'
  BY CommitIndex, Zenon
<1>5. \A e : e \in old <=> \E p \in Entries(infos[t]), r \in DOMAIN reqs : ReadsAs(p, r) /\ e = <<p, r>>
  BY <1>0, StoredAt, Zenon
<1>6. \A e : e \in new <=>
         \E p \in Entries(infos'[t]), r \in DOMAIN reqs : ReadsAs(p, r)' /\ e = <<p, r>>
  <2>1. \A e : e \in Stored(t)' <=>
           \E p \in Entries(infos'[t]), r \in DOMAIN reqs' : ReadsAs(p, r)' /\ e = <<p, r>>
    BY StoredAtNext
  <2>. QED
    BY <1>0, <1>2, <2>1
<1>7. \A p \in Given : p \notin Entries(infos[t])
  BY <1>1, <1>3, GivenNew, Zenon DEF Given
<1>8. ASSUME NEW e \in new
      PROVE  \E p, r : e = <<p, r>> /\ (e \in old \/ (p \in Given /\ r \in worker.group /\ Gave(p, r)))
  <2>1. PICK p \in Entries(infos'[t]), r \in DOMAIN reqs : ReadsAs(p, r)' /\ e = <<p, r>>
    BY <1>6
  <2>2. CASE p \in Entries(infos[t])
    <3>1. ReadsAs(p, r)
      BY <1>1, <2>1, <2>2, Zenon
    <3>2. e \in old
      BY <1>5, <2>1, <2>2, <3>1, Zenon
    <3>. QED
      BY <2>1, <3>2, Zenon
  <2>3. CASE p \notin Entries(infos[t])
    <3>1. p \in Given
      BY <1>1, <2>3, Zenon
    <3>2. PICK s \in worker.group : Gave(p, s)
      BY <1>1, <3>1, Zenon
    <3>3. r = s
      BY <1>4, <2>1, <3>2, OneRecord, Zenon DEF ReadsAs
    <3>. QED
      BY <2>1, <3>1, <3>2, <3>3, Zenon
  <2>. QED
    BY <2>2, <2>3, Zenon
<1>9. old \subseteq new
  <2>. SUFFICES ASSUME NEW e \in old PROVE e \in new
    BY Zenon
  <2>1. PICK p \in Entries(infos[t]), r \in DOMAIN reqs : ReadsAs(p, r) /\ e = <<p, r>>
    BY <1>5
  <2>2. p \in Entries(infos'[t]) /\ ReadsAs(p, r)'
    BY <1>1, <2>1, Zenon
  <2>. QED
    BY <1>6, <2>1, <2>2, Zenon
<1>10. ASSUME NEW p \in Given, NEW r PROVE <<p, r>> \notin old
  <2>. SUFFICES ASSUME <<p, r>> \in old PROVE FALSE
    OBVIOUS
  <2>1. PICK q \in Entries(infos[t]), s \in DOMAIN reqs : ReadsAs(q, s) /\ <<p, r>> = <<q, s>>
    BY <1>5
  <2>2. p = q
    BY <2>1
  <2>. QED
    BY <1>7, <2>2, Zenon
<1>11. new # old
  <2>1. PICK i : i \in DOMAIN worker.placed
    <3>1. worker.placed # <<>> /\ worker.placed \in Seq(Placing)
      BY <1>2, Zenon DEF StoreInv, PlacedInv, Typed, Workers
    <3>2. 1 \in DOMAIN worker.placed
      BY <3>1
    <3>. QED
      BY <3>2, Zenon
  <2>2. PICK p : p \in Given
    BY <2>1, Zenon DEF Given
  <2>3. PICK r \in worker.group : Gave(p, r)
    BY <1>1, <2>2, Zenon
  <2>4. <<p, r>> \in new
    BY <1>1, <1>4, <1>6, <2>2, <2>3, Zenon
  <2>. QED
    BY <1>10, <2>2, <2>4, Zenon
<1>12. ASSUME NEW f \in old
       PROVE  \E q, s : f = <<q, s>> /\ (\A i \in DOMAIN worker.placed : Lt(q, worker.placed[i].at))
                        /\ s \in Nat /\ \A r \in worker.group : s < r
  <2>1. PICK q \in Entries(infos[t]), s \in DOMAIN reqs : ReadsAs(q, s) /\ f = <<q, s>>
    BY <1>5
  <2>2. \A i \in DOMAIN worker.placed : Lt(q, worker.placed[i].at)
    BY <1>0, <1>3, <2>1, Zenon DEF StoreInv, AddingInv
  <2>3. \A r \in worker.group : s < r
    BY <1>0, <1>1, <1>3, <2>1, Zenon DEF StoreInv, BehindInv
  <2>4. s \in Nat
    BY DEF StoreInv, Typed
  <2>. QED
    BY <2>1, <2>2, <2>3, <2>4, Zenon
<1>13. ASSUME NEW e \in new \ old
       PROVE  \E p, r : e = <<p, r>> /\ r \in worker.group /\ Gave(p, r)
  BY <1>8, Zenon
<1>14. ASSUME NEW p, NEW r \in worker.group, Gave(p, r), NEW f \in new
       PROVE  /\ Lt(f[1], p) <=> f[2] < r
              /\ f[2] = r => f = <<p, r>>
              /\ f \in old => Lt(f[1], p)
  <2>1. PICK i \in DOMAIN worker.placed : worker.placed[i].at = p
    BY <1>14, Zenon DEF Gave
  <2>2. CASE f \in old
    <3>1. PICK q, s : f = <<q, s>> /\ (\A k \in DOMAIN worker.placed : Lt(q, worker.placed[k].at))
                      /\ s \in Nat /\ \A x \in worker.group : s < x
      BY <1>12, <2>2, Zenon
    <3>2. Lt(q, p) /\ s < r
      BY <2>1, <3>1, Zenon
    <3>3. f[1] = q /\ f[2] = s /\ s # r
      <4>1. r \in Nat
        BY DEF StoreInv, Typed, Workers
      <4>. QED
        BY <3>1, <3>2, <4>1
    <3>. QED
      BY <3>2, <3>3
  <2>3. CASE f \notin old
    <3>1. PICK q, s : f = <<q, s>> /\ s \in worker.group /\ Gave(q, s)
      BY <1>13, <2>3, Zenon
    <3>2. (Lt(q, p) <=> s < r) /\ (s = r => q = p)
      BY <1>14, <3>1, GaveOrder, Zenon
    <3>3. f[1] = q /\ f[2] = s
      BY <3>1
    <3>. QED
      BY <2>3, <3>1, <3>2, <3>3
  <2>. QED
    BY <2>2, <2>3, Zenon
<1>15. ASSUME NEW e \in new \ old
       PROVE  /\ e[2] \in DOMAIN reqs /\ reqs[e[2]] = t /\ Statuses[e[2]] = "waiting"
              /\ \A f \in new : (Lt(f[1], e[1]) <=> f[2] < e[2]) /\ (f[2] = e[2] => f = e)
              /\ \A f \in old : Lt(f[1], e[1])
  <2>1. PICK p, r : e = <<p, r>> /\ r \in worker.group /\ Gave(p, r)
    BY <1>13, Zenon
  <2>2. e[1] = p /\ e[2] = r
    BY <2>1
  <2>3. r \in DOMAIN reqs /\ reqs[r] = t
    BY <1>1, <2>1, Zenon
  <2>4. Statuses[r] = "waiting"
    <3>1. answer[r] = Waiting
      BY <2>1, Zenon DEF StoreInv, BatchInv
    <3>2. r \in DOMAIN answer
      BY <2>3 DEF StoreInv, Typed
    <3>. QED
      BY <3>1, <3>2 DEF Statuses, Waiting
  <2>5. \A f \in new : (Lt(f[1], p) <=> f[2] < r) /\ (f[2] = r => f = <<p, r>>)
    BY <1>14, <2>1, Zenon
  <2>6. \A f \in old : Lt(f[1], p)
    BY <1>9, <1>14, <2>1, Zenon
  <2>. QED
    BY <2>1, <2>2, <2>3, <2>4, <2>5, <2>6, Zenon
<1>16. ASSUME NEW u \in Topics \ {t} PROVE Stored(u)' = Stored(u)
  <2>1. \A e : e \in Stored(u) <=>
           \E p \in Entries(infos[u]), r \in DOMAIN reqs : ReadsAs(p, r) /\ e = <<p, r>>
    BY StoredAt, Zenon
  <2>2. \A e : e \in Stored(u)' <=>
           \E p \in Entries(infos[u]), r \in DOMAIN reqs : ReadsAs(p, r)' /\ e = <<p, r>>
    <3>1. \A e : e \in Stored(u)' <=>
             \E p \in Entries(infos'[u]), r \in DOMAIN reqs' : ReadsAs(p, r)' /\ e = <<p, r>>
      BY StoredAtNext
    <3>2. infos'[u] = infos[u] /\ reqs' = reqs
      BY <1>1, <1>2, Zenon
    <3>. QED
      BY <3>1, <3>2
  <2>3. \A p \in Entries(infos[u]) : \A r : ReadsAs(p, r)' <=> ReadsAs(p, r)
    BY <1>1, Zenon
  <2>4. \A e : e \in Stored(u)' <=> e \in Stored(u)
    BY <2>1, <2>2, <2>3, Zenon
  <2>. QED
    BY <2>4, Zenon
<1>17. Statuses' = Statuses
  BY <1>2, Zenon DEF Statuses
<1>18. Logs[t] = old /\ Logs'[t] = new /\ \A u \in Topics \ {t} : Logs'[u] = Logs[u]
  BY <1>0, <1>1, <1>16, Zenon DEF Logs
<1>19. \A p, q : DL!Lt(p, q) <=> Lt(p, q)
  BY Zenon DEF DL!Lt, Lt
<1>20. /\ new # old /\ old \subseteq new
       /\ \A e \in new \ old :
              /\ e[2] \in DOMAIN reqs /\ reqs[e[2]] = t /\ Statuses[e[2]] = "waiting"
              /\ \A f \in new : (DL!Lt(f[1], e[1]) <=> f[2] < e[2]) /\ (f[2] = e[2] => f = e)
              /\ \A f \in old : DL!Lt(f[1], e[1])
  BY <1>9, <1>11, <1>15, <1>19, Zenon
<1>21. \E o \in {Logs[t]}, n \in {Logs'[t]} :
        /\ n # o /\ o \subseteq n
        /\ \A e \in n \ o :
              /\ e[2] \in DOMAIN reqs /\ reqs[e[2]] = t /\ Statuses[e[2]] = "waiting"
              /\ \A f \in n : (DL!Lt(f[1], e[1]) <=> f[2] < e[2]) /\ (f[2] = e[2] => f = e)
              /\ \A f \in o : DL!Lt(f[1], e[1])
        /\ \A u \in Topics \ {t} : Logs'[u] = Logs[u]
        /\ UNCHANGED <<reqs, Statuses>>
  BY <1>2, <1>17, <1>18, <1>20, Zenon
<1>. QED
  BY <1>1, <1>21, Zenon DEF DL!Commit, Logs, Statuses

\* What publishers were told, after an answer.
LEMMA StatusPut ==
    ASSUME NEW a, NEW r \in DOMAIN a, NEW x, a = [s \in DOMAIN a |-> a[s]]
    PROVE  [s \in DOMAIN [a EXCEPT ![r] = x] |-> [a EXCEPT ![r] = x][s].is]
              = [[s \in DOMAIN a |-> a[s].is] EXCEPT ![r] = x.is]
BY Zenon

\* An answer is the abstract one: confirmed if and only if the publish is in the log.
LEMMA AnswersRefine ==
    ASSUME StoreInv, Reply \/ Refuse
    PROVE  \E r \in DOMAIN reqs : DL!Answer(r)
<1>1. PICK r \in worker.group, what \in Told :
         /\ answer' = [answer EXCEPT ![r] = what] /\ what.is # "waiting"
         /\ UNCHANGED <<infos, index, log, files, reqs>>
         /\ \/ what.is = "ok" /\ worker.pc = "reply" /\ \E p : Gave(p, r)
            \/ what.is = "refused" /\ worker.pc = "refuse"
  <2>1. CASE Reply
    <3>1. PICK i \in DOMAIN worker.placed :
             Answers(worker.placed[i].req, [is |-> "ok", at |-> worker.placed[i].at])
      BY <2>1, Zenon DEF Reply
    <3>2. PICK r, p : r = worker.placed[i].req /\ p = worker.placed[i].at
      BY Zenon
    <3>3. worker.placed[i] \in Placing
      BY DEF StoreInv, Typed, Workers
    <3>4. [is |-> "ok", at |-> p] \in Told /\ [is |-> "ok", at |-> p].is = "ok"
      BY <3>2, <3>3 DEF Placing, Told
    <3>5. /\ r \in worker.group /\ answer' = [answer EXCEPT ![r] = [is |-> "ok", at |-> p]]
          /\ UNCHANGED <<infos, index, log, files, reqs>> /\ worker.pc = "reply" /\ Gave(p, r)
      BY <2>1, <3>1, <3>2, Zenon DEF Reply, Answers, Firsts, durable, Gave
    <3>6. "ok" # "waiting"
      OBVIOUS
    <3>. QED
      BY <3>4, <3>5, <3>6, Zenon
  <2>2. CASE Refuse
    <3>1. PICK r \in worker.group : Answers(r, [is |-> "refused", at |-> NoPosition])
      BY <2>2, Zenon DEF Refuse
    <3>2. /\ [is |-> "refused", at |-> NoPosition] \in Told
          /\ [is |-> "refused", at |-> NoPosition].is = "refused"
      BY DEF Told
    <3>3. /\ answer' = [answer EXCEPT ![r] = [is |-> "refused", at |-> NoPosition]]
          /\ UNCHANGED <<infos, index, log, files, reqs>> /\ worker.pc = "refuse"
      BY <2>2, <3>1, Zenon DEF Refuse, Answers, durable
    <3>4. "refused" # "waiting"
      OBVIOUS
    <3>. QED
      BY <3>2, <3>3, <3>4, Zenon
  <2>. QED
    BY <2>1, <2>2
<1>2. /\ r \in 1..Received /\ answer[r] = Waiting /\ reqs[r] = worker.topic /\ worker.topic \in Topics
  <2>1. worker.pc # "recv"
    BY <1>1
  <2>. QED
    BY <2>1, Zenon DEF StoreInv, BatchInv
<1>3. r \in DOMAIN reqs /\ r \in DOMAIN answer /\ answer = [s \in DOMAIN answer |-> answer[s]]
  <2>1. Len(queue) \in Nat /\ Len(reqs) \in Nat /\ DOMAIN reqs = 1..Len(reqs) /\ DOMAIN answer = 1..Len(reqs)
    BY DEF StoreInv, Typed
  <2>2. answer = [s \in DOMAIN answer |-> answer[s]]
    BY DEF StoreInv, Typed
  <2>. QED
    BY <1>2, <2>1, <2>2 DEF Received
<1>4. Logs' = Logs
  <2>1. LogKept
    BY <1>1, LogSame, Zenon DEF StoreInv
  <2>. QED
    BY <2>1, LogsSame, Zenon DEF StoreInv
<1>5. Statuses[r] = "waiting"
  BY <1>2, <1>3 DEF Statuses, Waiting
<1>6. Statuses' = [Statuses EXCEPT ![r] = what.is]
  BY <1>1, <1>3, StatusPut, Zenon DEF Statuses
<1>7. Statuses'[r] # "waiting"
  BY <1>1, <1>3, <1>6 DEF Statuses
<1>8. DL!InLog(r) <=> \E e \in Stored(worker.topic) : e[2] = r
  BY <1>2, Zenon DEF DL!InLog
<1>9. what.is = IF DL!InLog(r) THEN "ok" ELSE "refused"
  <2>1. CASE what.is = "ok" /\ worker.pc = "reply"
    <3>1. PICK p : Gave(p, r)
      BY <1>1, <2>1
    <3>2. Committed
      BY <2>1 DEF Committed
    <3>3. p \in Entries(infos[worker.topic]) /\ ReadsAs(p, r)
      BY <3>1, <3>2, Zenon DEF Gave, StoreInv, CommittedInv
    <3>4. <<p, r>> \in Stored(worker.topic)
      BY <1>3, <3>3, StoredAt, Zenon
    <3>5. <<p, r>>[2] = r
      OBVIOUS
    <3>. QED
      BY <1>8, <2>1, <3>4, <3>5
  <2>2. CASE what.is = "refused" /\ worker.pc = "refuse"
    <3>1. Uncommitted
      BY <2>2 DEF Uncommitted
    <3>2. ASSUME NEW e \in Stored(worker.topic), e[2] = r PROVE FALSE
      <4>1. PICK p \in Entries(infos[worker.topic]), s \in DOMAIN reqs : ReadsAs(p, s) /\ e = <<p, s>>
        BY <3>2, StoredAt
      <4>2. s = r
        BY <3>2, <4>1
      <4>3. r < r
        BY <1>2, <3>1, <4>1, <4>2, Zenon DEF StoreInv, BehindInv
      <4>4. r \in Nat
        BY DEF StoreInv, Typed, Workers
      <4>. QED
        BY <4>3, <4>4
    <3>. QED
      BY <1>8, <2>2, <3>2
  <2>. QED
    BY <1>1, <2>1, <2>2
<1>10. DL!Answer(r)
  BY <1>1, <1>4, <1>5, <1>6, <1>7, <1>9, Zenon DEF DL!Answer, Logs, Statuses
<1>. QED
  BY <1>3, <1>10

\* The stop of the broker is the abstract one.
LEMMA RestartRefines ==
    ASSUME StoreInv, Restart
    PROVE  DL!Stop
<1>1. /\ UNCHANGED <<infos, index, reqs>>
      /\ answer' = [r \in DOMAIN answer |->
                      IF answer[r] = Waiting THEN [Waiting EXCEPT !.is = "lost"] ELSE answer[r]]
  BY DEF Restart
<1>2. Grows(files, files')
  BY RestartFiles, Zenon
<1>3. Logs' = Logs
  <2>1. LogKept
    BY <1>1, <1>2, Zenon DEF LogKept, ReqsKept
  <2>. QED
    BY <2>1, LogsSame, Zenon DEF StoreInv
<1>4. \A r \in DOMAIN answer : answer[r].is = "waiting" <=> answer[r] = Waiting
  <2>1. \A r \in DOMAIN answer : answer[r] \in Told
    BY DEF StoreInv, Typed
  <2>. QED
    BY <2>1 DEF Told, Waiting
<1>5. [Waiting EXCEPT !.is = "lost"].is = "lost"
  BY DEF Waiting
<1>6. DOMAIN answer' = DOMAIN answer
      /\ \A r \in DOMAIN answer : answer'[r].is = IF answer[r].is = "waiting" THEN "lost" ELSE answer[r].is
  BY <1>1, <1>4, <1>5
<1>7. DOMAIN Statuses = DOMAIN answer /\ \A r \in DOMAIN answer : Statuses[r] = answer[r].is
  BY DEF Statuses
<1>8. Statuses' = [r \in DOMAIN Statuses |-> IF Statuses[r] = "waiting" THEN "lost" ELSE Statuses[r]]
  BY <1>6, <1>7 DEF Statuses
<1>. QED
  BY <1>1, <1>3, <1>8, Zenon DEF DL!Stop, Logs, Statuses

\* Every step is a step of DurableLog or leaves its state alone.
LEMMA NextRefines ==
    ASSUME StoreInv, [Next]_vars, LogFaults = FALSE
    PROVE  [DL!Next]_(DL!vars)
<1>1. CASE \E t \in Topics : Submit(t)
  BY <1>1, SubmitRefines, Zenon DEF DL!Next
<1>2. CASE Commit
  BY <1>2, CommitRefines, Zenon DEF DL!Next
<1>3. CASE Reply \/ Refuse
  BY <1>3, AnswersRefine, Zenon DEF DL!Next
<1>4. CASE Restart
  BY <1>4, RestartRefines, Zenon DEF DL!Next
<1>5. ASSUME ~Commit, UNCHANGED <<reqs, answer>> PROVE UNCHANGED DL!vars
  <2>1. Logs' = Logs
    <3>1. LogKept
      BY <1>5, NextKeepsLog, Zenon
    <3>. QED
      BY <3>1, LogsSame, Zenon DEF StoreInv
  <2>2. Statuses' = Statuses
    BY <1>5, Zenon DEF Statuses
  <2>. QED
    BY <1>5, <2>1, <2>2, Zenon DEF DL!vars, Logs, Statuses
<1>6. CASE Work /\ ~Commit /\ ~Reply /\ ~Refuse
  BY <1>5, <1>6 DEF Work, TakeBatch, StartGroup, AssignEntry, RollOver, AppendLog, PublishInfo,
     PublishLac
<1>7. CASE Opens /\ ~Commit
  BY <1>5, <1>7 DEF Opens, open_ledger, OpenAllocates, OpenStores
<1>8. CASE (OpenFails \/ AppendFails \/ DbFails \/ LoadInfo) /\ ~Commit
  BY <1>5, <1>8 DEF OpenFails, AppendFails, DbFails, LoadInfo
<1>9. CASE (\E t \in Topics : LoadLac(t)) /\ ~Commit
  BY <1>5, <1>9 DEF LoadLac
<1>10. CASE UNCHANGED vars /\ ~Commit
  BY <1>5, <1>10 DEF vars
<1>. QED
  BY <1>1, <1>2, <1>3, <1>4, <1>6, <1>7, <1>8, <1>9, <1>10, Zenon DEF Next

\* The write path implements the log it promises: a log for every topic that only
\* grows, in the order of submission, and answers that say what is in it.
THEOREM StoreIsDurableLog == Sound /\ Spec => DurableLogSpec
<1>1. Init => DL!Init
  <2>. SUFFICES ASSUME Init PROVE DL!Init
    OBVIOUS
  <2>1. reqs = <<>> /\ answer = <<>> /\ infos = [t \in Topics |-> <<>>]
    BY DEF Init
  <2>2. DOMAIN reqs = {}
    BY <2>1
  <2>3. ASSUME NEW t \in Topics PROVE Stored(t) = {}
    <3>1. \A e : e \notin Stored(t)
      BY <2>2, StoredAt, Zenon
    <3>. QED
      BY <3>1, Zenon
  <2>4. [r \in DOMAIN answer |-> answer[r].is] = <<>>
    BY <2>1
  <2>. QED
    BY <2>1, <2>3, <2>4, Zenon DEF DL!Init
<1>2. ASSUME Sound PROVE StoreInv /\ [Next]_vars => [DL!Next]_(DL!vars)
  BY <1>2, NextRefines, Zenon DEF Sound
<1>3. ASSUME Sound PROVE Spec => DL!Spec
  BY <1>1, <1>2, <1>3, StoreInvariant, PTL DEF Spec, DL!Spec
<1>. QED
  BY <1>3, Zenon DEF DurableLogSpec

=============================================================================

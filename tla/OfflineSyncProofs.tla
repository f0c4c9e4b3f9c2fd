------------------------ MODULE OfflineSyncProofs ---------------------------
(***************************************************************************)
(* What a technician's intents come to, for any number of intents,         *)
(* requests on their way and sessions. That nothing takes effect twice     *)
(* needs of the device only that its queues are numbered in order          *)
(* (QueuesInv), and holds however many sessions share the storage. The     *)
(* order of the effects, and that nothing is lost, need more: that the     *)
(* queue in memory is the one in storage, that a batch on its way brings   *)
(* with it what was made before its entries (Fits), and that an answer is  *)
(* about what the flush sent (WaitsInv). Two queue objects over one        *)
(* storage key break each of these, so those theorems assume that nobody   *)
(* signs in again while a flush waits. The last part shows each step to be *)
(* a step of IntentLedger, or none.                                        *)
(***************************************************************************)
EXTENDS OfflineSync, ModelLemmas, SequenceTheorems

-----------------------------------------------------------------------------
(***************************************************************************)
(* What the queues, the gateway's record and the requests keep.            *)
(***************************************************************************)

Senders   == {"session", "orphan", "nobody"}
EntryType == [id : Ids, seq : Nat]
Rulings   == Outcomes \ {"duplicate"}

(* A queue or a batch: its entries' numbers rise.                          *)
Queued(q) ==
  /\ q \in Seq(EntryType)
  /\ \A a, b \in DOMAIN q : a < b => q[a].seq < q[b].seq

StartsWith(q, p) ==
  Len(p) <= Len(q) /\ \A k \in DOMAIN p : p[k] = q[k]

(* Every queue there is, in memory, in storage or on its way, is numbered  *)
(* in order, and a flush waits for the front of its queue.                 *)
SessionInv ==
  /\ Queued(pending) /\ Queued(flight) /\ StartsWith(pending, flight)
  /\ seq \in Nat /\ \A k \in DOMAIN pending : pending[k].seq <= seq

StoreInv == DOMAIN store = {"queue", "attention"} /\ Queued(store.queue)

OrphanInv ==
  /\ DOMAIN orphan = {"pending", "attention", "flight"}
  /\ Queued(orphan.pending) /\ Queued(orphan.flight)
  /\ StartsWith(orphan.pending, orphan.flight)

Request == [from : Senders, batch : Seq(EntryType)]

WireInv ==
  requests \in Seq(Request) /\ \A k \in DOMAIN requests : Queued(requests[k].batch)

QueuesInv == SessionInv /\ StoreInv /\ OrphanInv /\ WireInv

(* What the gateway has recorded.                                          *)
RecordInv ==
  /\ intents \in [Ids -> Rulings \cup {None}] /\ moot \subseteq Ids
  /\ applied \in Seq(Ids) /\ AppliedAtMostOnce
  /\ \A i \in Ids : intents[i] = "applied" <=> \E p \in DOMAIN applied : applied[p] = i

OnceInv == QueuesInv /\ RecordInv

-----------------------------------------------------------------------------
MadeInv ==
  /\ made \in Seq(Ids) /\ asks \in [Ids -> Mutations \cup {None}]
  /\ \A p, q \in DOMAIN made : made[p] = made[q] => p = q
  /\ \A i \in Ids : asks[i] # None <=> \E p \in DOMAIN made : made[p] = i
  /\ \A i \in Ids : Settled(i) => asks[i] # None
  /\ \A i, j \in Ids : MadeBefore(i, j) /\ Settled(j) => Settled(i)

(* One queue object, as it is in storage: what is not settled is in it, in *)
(* the order it was made.                                                  *)
PendingInv ==
  /\ orphan = NoOrphan /\ store.queue = pending
  /\ \A k \in DOMAIN pending : asks[pending[k].id] # None
  /\ \A a, b \in DOMAIN pending : a < b => MadeBefore(pending[a].id, pending[b].id)
  /\ UnsettledIsStored

(* What was made before an entry of a batch is settled or before it there. *)
Fits(q) ==
  \A k \in DOMAIN q :
    /\ asks[q[k].id] # None
    /\ \A i \in Ids : MadeBefore(i, q[k].id) =>
         Settled(i) \/ \E l \in DOMAIN q : l < k /\ q[l].id = i

FitInv == \A k \in DOMAIN requests : Fits(requests[k].batch)

(* A flush waits for one answer, to all that it sent.                      *)
WaitsInv ==
  /\ \A k \in DOMAIN requests :
       /\ requests[k].from # "orphan"
       /\ requests[k].from = "session" =>
            /\ requests[k].batch = flight /\ flight # <<>>
            /\ \A l \in DOMAIN requests : requests[l].from = "session" => l = k
            /\ \A p \in responses : p.from # "session"
  /\ \A p \in responses :
       /\ p.from # "orphan"
       /\ p.from = "session" =>
            /\ DOMAIN p.outcomes = IdsOf(flight) /\ flight # <<>>
            /\ \A i \in IdsOf(flight) : Settled(i)
            /\ \A o \in responses : o.from = "session" => o = p

SyncInv ==
  /\ OnceInv /\ MadeInv /\ PendingInv /\ FitInv /\ WaitsInv
  /\ AppliedInDeviceOrder

-----------------------------------------------------------------------------
(* The operators the queue and the batch are built from.                   *)

(* The part of a queue behind its first n entries.                         *)
LEMMA BehindTheFirst ==
  ASSUME NEW T, NEW q \in Seq(T), NEW n \in 0 .. Len(q)
  PROVE  /\ SubSeq(q, n + 1, Len(q)) \in Seq(T)
         /\ Len(SubSeq(q, n + 1, Len(q))) = Len(q) - n
         /\ \A i \in 1 .. (Len(q) - n) : SubSeq(q, n + 1, Len(q))[i] = q[n + i]
<1> DEFINE b == SubSeq(q, n + 1, Len(q))
<1>1. Len(q) \in Nat /\ \A i \in 1 .. Len(q) : q[i] \in T
  OBVIOUS
<1>2. \A i \in (n + 1) .. Len(q) : q[i] \in T
  BY <1>1
<1>3. /\ b \in Seq(T) /\ Len(b) = IF n + 1 <= Len(q) THEN Len(q) - (n + 1) + 1 ELSE 0
      /\ \A i \in 1 .. Len(q) - (n + 1) + 1 : b[i] = q[(n + 1) + i - 1]
  BY <1>1, <1>2, SubSeqProperties
<1> HIDE DEF b
<1>4. b \in Seq(T) /\ Len(b) = Len(q) - n /\ \A i \in 1 .. (Len(q) - n) : b[i] = q[n + i]
  BY <1>1, <1>3
<1> QED
  BY <1>4 DEF b

(* What is left of a queue of which k leaves.                              *)
LEMMA RemoveAtDrops ==
  ASSUME NEW T, NEW q \in Seq(T), NEW k \in DOMAIN q
  PROVE  /\ RemoveAt(q, k) \in Seq(T) /\ Len(RemoveAt(q, k)) = Len(q) - 1
         /\ DOMAIN RemoveAt(q, k) = 1 .. (Len(q) - 1)
         /\ \A n \in 1 .. (Len(q) - 1) :
              RemoveAt(q, k)[n] = q[IF n < k THEN n ELSE n + 1]
<1> DEFINE a == SubSeq(q, 1, k - 1)
           b == SubSeq(q, k + 1, Len(q))
<1>1. /\ DOMAIN q = 1 .. Len(q) /\ Len(q) \in Nat /\ k \in 1 .. Len(q)
      /\ \A i \in 1 .. Len(q) : q[i] \in T
  OBVIOUS
<1>2. /\ a \in Seq(T) /\ Len(a) = k - 1
      /\ \A i \in 1 .. (k - 1) : a[i] = q[i]
  <2>1. \A i \in 1 .. (k - 1) : q[i] \in T
    BY <1>1
  <2>2. /\ a \in Seq(T) /\ Len(a) = IF 1 <= k - 1 THEN k - 1 - 1 + 1 ELSE 0
        /\ \A i \in 1 .. (k - 1) - 1 + 1 : a[i] = q[1 + i - 1]
    BY <1>1, <2>1, SubSeqProperties
  <2> HIDE DEF a
  <2> QED
    BY <1>1, <2>2
<1>3. /\ b \in Seq(T) /\ Len(b) = Len(q) - k
      /\ \A i \in 1 .. (Len(q) - k) : b[i] = q[k + i]
  <2>1. k \in 0 .. Len(q)
    BY <1>1
  <2> HIDE DEF a
  <2> QED
    BY <2>1, BehindTheFirst
<1>4. RemoveAt(q, k) = a \o b
  BY DEF RemoveAt
<1> HIDE DEF a, b
<1> DEFINE c == a \o b
<1>5. /\ c \in Seq(T) /\ Len(c) = Len(a) + Len(b)
      /\ \A i \in 1 .. Len(a) + Len(b) : c[i] = IF i <= Len(a) THEN a[i] ELSE b[i - Len(a)]
  BY <1>2, <1>3, ConcatProperties
<1> HIDE DEF c
<1>6. c \in Seq(T) /\ Len(c) = Len(q) - 1 /\ DOMAIN c = 1 .. (Len(q) - 1)
  BY <1>1, <1>2, <1>3, <1>5
<1>7. ASSUME NEW n \in 1 .. (Len(q) - 1)
      PROVE  c[n] = q[IF n < k THEN n ELSE n + 1]
  <2>1. c[n] = IF n <= k - 1 THEN a[n] ELSE b[n - (k - 1)]
    BY <1>1, <1>2, <1>3, <1>5
  <2>2. CASE n < k
    BY <1>1, <1>2, <2>1, <2>2
  <2>3. CASE ~(n < k)
    <3>1. n - (k - 1) \in 1 .. (Len(q) - k) /\ k + (n - (k - 1)) = n + 1
      BY <1>1, <2>3
    <3>2. b[n - (k - 1)] = q[n + 1]
      BY <1>3, <3>1
    <3> QED
      BY <1>1, <2>1, <2>3, <3>2
  <2> QED
    BY <2>2, <2>3
<1> QED
  BY <1>4, <1>6, <1>7 DEF c

(* A batch is in the device's order as it is sent.                         *)
LEMMA AlreadyInOrder ==
  ASSUME NEW q, Queued(q)
  PROVE  InDeviceOrder(q) = q
<1>1. /\ q \in Seq(EntryType) /\ DOMAIN q = 1 .. Len(q) /\ Len(q) \in Nat
      /\ q = [k \in DOMAIN q |-> q[k]]
  BY DEF Queued
<1>2. \A n \in DOMAIN q : q[n].seq \in Nat
  <2>1. \A n \in DOMAIN q : q[n] \in EntryType
    BY <1>1
  <2> QED
    BY <2>1 DEF EntryType
<1> DEFINE Before(n) == {o \in DOMAIN q :
                           \/ q[o].seq < q[n].seq
                           \/ q[o].seq = q[n].seq /\ o < n}
<1>3. ASSUME NEW n \in DOMAIN q
      PROVE  Cardinality(Before(n)) = n - 1
  <2>1. ASSUME NEW o \in DOMAIN q
        PROVE  o \in Before(n) <=> o < n
    <3>1. o < n => q[o].seq < q[n].seq
      BY DEF Queued
    <3>2. n < o => q[n].seq < q[o].seq
      BY DEF Queued
    <3>3. o < n \/ n < o \/ o = n
      BY <1>1
    <3> QED
      BY <1>1, <1>2, <3>1, <3>2, <3>3
  <2>2. Before(n) = 1 .. (n - 1)
    <3>1. \A o \in 1 .. (n - 1) : o \in DOMAIN q /\ o < n
      BY <1>1
    <3>2. \A o \in DOMAIN q : o < n => o \in 1 .. (n - 1)
      BY <1>1
    <3>3. Before(n) \subseteq DOMAIN q
      OBVIOUS
    <3> HIDE DEF Before
    <3> QED
      BY <2>1, <3>1, <3>2, <3>3
  <2>3. Cardinality(1 .. (n - 1)) = n - 1
    <3>1. n - 1 \in Int /\ n - 1 >= 0
      BY <1>1
    <3>2. Cardinality(1 .. (n - 1)) = IF 1 > n - 1 THEN 0 ELSE (n - 1) - 1 + 1
      BY <3>1, FS_Interval
    <3> QED
      BY <3>1, <3>2
  <2> HIDE DEF Before
  <2> QED
    BY <2>2, <2>3
<1>4. InDeviceOrder(q) =
        [k \in DOMAIN q |-> q[CHOOSE n \in DOMAIN q : k = 1 + Cardinality(Before(n))]]
  BY DEF InDeviceOrder
<1> HIDE DEF Before
<1>5. ASSUME NEW k \in DOMAIN q
      PROVE  (CHOOSE n \in DOMAIN q : k = 1 + Cardinality(Before(n))) = k
  <2>1. \A n \in DOMAIN q : k = 1 + Cardinality(Before(n)) <=> n = k
    BY <1>1, <1>3
  <2> QED
    BY <2>1
<1> QED
  BY <1>1, <1>4, <1>5

(* What is left of a queue whose front was answered.                       *)
LEMMA RemainingIsQueued ==
  ASSUME NEW queue, NEW batch, Queued(queue), Queued(batch), StartsWith(queue, batch),
         NEW outcomes, NEW rest, rest = Remaining(queue, batch, outcomes)
  PROVE  /\ Queued(rest)
         /\ \A a \in DOMAIN rest : \E i \in DOMAIN queue : rest[a] = queue[i]
<1> DEFINE S == {e \in Range(batch) : e.id \notin DOMAIN outcomes}
           k == KeepIn(batch, S)
           b == SubSeq(queue, Len(batch) + 1, Len(queue))
<1>1. /\ batch \in Seq(EntryType) /\ queue \in Seq(EntryType)
      /\ DOMAIN batch = 1 .. Len(batch) /\ DOMAIN queue = 1 .. Len(queue)
      /\ Len(batch) \in 0 .. Len(queue) /\ Len(queue) \in Nat
  BY DEF Queued, StartsWith
<1>2. /\ k \in Seq(EntryType)
      /\ \A a \in DOMAIN k : \E i \in DOMAIN batch : k[a] = batch[i]
      /\ \A a, c \in DOMAIN k : a < c =>
           \E i, j \in DOMAIN batch : i < j /\ k[a] = batch[i] /\ k[c] = batch[j]
  <2>1. k = KeepIn(batch, S)
    OBVIOUS
  <2> HIDE DEF S, k, b
  <2>2. /\ k \in Seq(EntryType)
        /\ \A a \in DOMAIN k : k[a] \in S /\ \E i \in DOMAIN batch : k[a] = batch[i]
        /\ \A i \in DOMAIN batch : batch[i] \in S => \E a \in DOMAIN k : k[a] = batch[i]
        /\ \A a, c \in DOMAIN k : a < c =>
             \E i, j \in DOMAIN batch : i < j /\ k[a] = batch[i] /\ k[c] = batch[j]
    <3>1. batch \in Seq(EntryType)
      BY <1>1
    <3> QED
      BY <2>1, <3>1, KeepInKeeps
  <2> QED
    BY <2>2
<1>3. /\ b \in Seq(EntryType) /\ Len(b) = Len(queue) - Len(batch)
      /\ \A i \in 1 .. (Len(queue) - Len(batch)) : b[i] = queue[Len(batch) + i]
  BY <1>1, BehindTheFirst
<1>4. rest = k \o b
  BY DEF Remaining
<1> HIDE DEF k, b, S
<1>5. /\ rest \in Seq(EntryType) /\ Len(rest) = Len(k) + Len(b) /\ Len(k) \in Nat
      /\ DOMAIN rest = 1 .. Len(k) + Len(b) /\ DOMAIN k = 1 .. Len(k)
      /\ \A i \in 1 .. Len(k) + Len(b) :
           rest[i] = IF i <= Len(k) THEN k[i] ELSE b[i - Len(k)]
  <2>1. /\ rest \in Seq(EntryType) /\ Len(rest) = Len(k) + Len(b)
        /\ \A i \in 1 .. Len(k) + Len(b) :
             rest[i] = IF i <= Len(k) THEN k[i] ELSE b[i - Len(k)]
    <3> DEFINE c == k \o b
    <3>1. /\ c \in Seq(EntryType) /\ Len(c) = Len(k) + Len(b)
          /\ \A i \in 1 .. Len(k) + Len(b) :
               c[i] = IF i <= Len(k) THEN k[i] ELSE b[i - Len(k)]
      BY <1>2, <1>3, ConcatProperties
    <3>2. rest = c
      BY <1>4
    <3> HIDE DEF c
    <3> QED
      BY <3>1, <3>2
  <2>2. Len(k) \in Nat /\ DOMAIN k = 1 .. Len(k) /\ DOMAIN rest = 1 .. Len(rest)
    BY <1>2, <2>1
  <2> QED
    BY <2>1, <2>2
<1>6. \A i \in DOMAIN batch : i \in DOMAIN queue /\ batch[i] = queue[i]
  BY <1>1 DEF StartsWith
<1>7. ASSUME NEW a \in DOMAIN rest, ~(a <= Len(k))
      PROVE  LET i == Len(batch) + (a - Len(k)) IN
             i \in DOMAIN queue /\ i > Len(batch) /\ rest[a] = queue[i]
  <2>1. a - Len(k) \in 1 .. (Len(queue) - Len(batch))
    BY <1>1, <1>3, <1>5, <1>7
  <2>2. rest[a] = b[a - Len(k)]
    BY <1>5, <1>7
  <2> QED
    BY <1>1, <1>3, <2>1, <2>2
<1>8. \A a \in DOMAIN rest : \E i \in DOMAIN queue : rest[a] = queue[i]
  <2>1. ASSUME NEW a \in DOMAIN rest, a <= Len(k)
        PROVE  \E i \in DOMAIN queue : rest[a] = queue[i]
    BY <1>2, <1>5, <1>6, <2>1
  <2> QED
    BY <1>7, <2>1
<1>9. ASSUME NEW a \in DOMAIN rest, NEW c \in DOMAIN rest, a < c
      PROVE  \E i, j \in DOMAIN queue : i < j /\ rest[a] = queue[i] /\ rest[c] = queue[j]
  <2>1. CASE c <= Len(k)
    <3>1. a \in DOMAIN k /\ c \in DOMAIN k /\ rest[a] = k[a] /\ rest[c] = k[c]
      BY <1>5, <1>9, <2>1
    <3> QED
      BY <1>2, <1>6, <1>9, <3>1
  <2>2. CASE a <= Len(k) /\ ~(c <= Len(k))
    <3>1. a \in DOMAIN k /\ rest[a] = k[a]
      BY <1>5, <2>2
    <3>2. PICK i \in DOMAIN batch : rest[a] = batch[i]
      BY <1>2, <3>1
    <3>3. i <= Len(batch) /\ i \in DOMAIN queue /\ rest[a] = queue[i]
      BY <1>1, <1>6, <3>2
    <3>4. PICK j \in DOMAIN queue : j > Len(batch) /\ rest[c] = queue[j]
      BY <1>7, <2>2
    <3> QED
      BY <1>1, <3>3, <3>4
  <2>3. CASE ~(a <= Len(k))
    <3>1. ~(c <= Len(k))
      BY <1>5, <1>9, <2>3
    <3> DEFINE i == Len(batch) + (a - Len(k))
               j == Len(batch) + (c - Len(k))
    <3>2. i \in DOMAIN queue /\ rest[a] = queue[i]
      BY <1>7, <2>3
    <3>3. j \in DOMAIN queue /\ rest[c] = queue[j]
      BY <1>7, <3>1
    <3>4. i < j
      BY <1>1, <1>5, <1>9
    <3> QED
      BY <3>2, <3>3, <3>4
  <2> QED
    BY <2>1, <2>2, <2>3
<1>10. \A a, c \in DOMAIN rest : a < c => rest[a].seq < rest[c].seq
  BY <1>9 DEF Queued
<1> QED
  BY <1>5, <1>8, <1>10 DEF Queued

-----------------------------------------------------------------------------
(* A batch that is replayed, entry by entry.                               *)

IsReplay(f, N, batch, start) ==
  f = [n \in 0 .. N |-> IF n = 0 THEN {start} ELSE After(f[n - 1], batch[n])]

(* A batch of any length has a replay.                                     *)
LEMMA ReplayExists ==
  ASSUME NEW N \in Nat, NEW batch, NEW start
  PROVE  \E f : IsReplay(f, N, batch, start)
<1> DEFINE Ok(n) == \E f : IsReplay(f, n, batch, start)
           Bad == {n \in Nat : ~Ok(n)}
<1>1. SUFFICES ASSUME Bad # {} PROVE FALSE
  OBVIOUS
<1>2. PICK n \in Bad : \A m \in Bad : n <= m
  <2> HIDE DEF Ok
  <2> QED
    BY <1>1, LeastNatural
<1>3. CASE n = 0
  <2> DEFINE f == [k \in 0 .. 0 |-> {start}]
  <2>1. IsReplay(f, n, batch, start)
    BY <1>3 DEF IsReplay
  <2> QED
    BY <2>1
<1>4. CASE n # 0
  <2>1. n - 1 \in Nat /\ Ok(n - 1)
    <3> HIDE DEF Ok
    <3> QED
      BY <1>2, <1>4
  <2>2. PICK s : IsReplay(s, n - 1, batch, start)
    BY <2>1
  <2> DEFINE last == After(s[n - 1], batch[n])
             f == [k \in 0 .. n |-> IF k = n THEN last ELSE s[k]]
  <2>3. \A k \in 0 .. (n - 1) : s[k] =
          IF k = 0 THEN {start} ELSE After(s[k - 1], batch[k])
    BY <2>2 DEF IsReplay
  <2>4. \A k \in 0 .. n : f[k] =
          IF k = 0 THEN {start} ELSE After(f[k - 1], batch[k])
    <3>1. f[n] = last /\ \A k \in 0 .. (n - 1) : f[k] = s[k]
      BY <1>4, <2>1
    <3>2. \A k \in 0 .. n : k = n \/ k \in 0 .. (n - 1)
      BY <2>1
    <3>3. n - 1 \in 0 .. (n - 1) /\ \A k \in 0 .. (n - 1) : k # 0 => k - 1 \in 0 .. (n - 1)
      BY <2>1
    <3> HIDE DEF f
    <3> QED
      BY <1>4, <2>3, <3>1, <3>2, <3>3
  <2>5. IsReplay(f, n, batch, start)
    <3>1. DOMAIN f = 0 .. n /\ f = [k \in 0 .. n |-> f[k]]
      OBVIOUS
    <3> HIDE DEF f, last
    <3> QED
      BY <2>4, <3>1 DEF IsReplay
  <2> QED
    BY <2>5
<1> QED
  BY <1>3, <1>4

(* What a batch leaves behind comes about one entry at a time.             *)
LEMMA ReplayedIsLast ==
  ASSUME NEW batch, Queued(batch)
  PROVE  \E f : /\ IsReplay(f, Len(batch), batch, Begin(batch))
                /\ Replayed(batch) = f[Len(batch)]
<1>1. InDeviceOrder(batch) = batch /\ Len(batch) \in Nat
  BY AlreadyInOrder DEF Queued
<1>2. PICK f : IsReplay(f, Len(batch), batch, Begin(batch))
  BY <1>1, ReplayExists
<1>3. f = [n \in 0 .. Len(batch) |->
             IF n = 0 THEN {Begin(batch)} ELSE After(f[n - 1], batch[n])]
  BY <1>2 DEF IsReplay
<1>4. PICK g : /\ g = [n \in 0 .. Len(batch) |->
                        IF n = 0 THEN {Begin(batch)} ELSE After(g[n - 1], batch[n])]
               /\ Replayed(batch) = g[Len(batch)]
  BY <1>1, <1>3 DEF Replayed
<1> QED
  BY <1>4 DEF IsReplay

-----------------------------------------------------------------------------
(* The state of the tables part of the way through a batch.                *)
SettledIn(s, i) == s.intents[i] # None \/ i \in s.moot

Recorded(s) ==
  /\ s.intents \in [Ids -> Rulings \cup {None}] /\ s.moot \subseteq Ids
  /\ s.applied \in Seq(Ids)
  /\ \A p, q \in DOMAIN s.applied : s.applied[p] = s.applied[q] => p = q
  /\ \A i \in Ids : s.intents[i] = "applied" <=>
                      \E p \in DOMAIN s.applied : s.applied[p] = i

(* The intent is known, or asks for what is so already.                    *)
Passes(s, i, t) ==
  /\ DOMAIN t.outcomes = DOMAIN s.outcomes
  /\ s.intents[i] # None \/ i \in t.moot
  /\ t.intents = s.intents /\ t.applied = s.applied
  /\ t.moot = s.moot \/ t.moot = s.moot \cup {i}

(* It is ruled on.                                                         *)
Rules(s, i, t) ==
  /\ DOMAIN t.outcomes = DOMAIN s.outcomes
  /\ s.intents[i] = None /\ t.moot = s.moot
  /\ \E o \in Rulings :
       /\ t.intents = [s.intents EXCEPT ![i] = o]
       /\ t.applied = IF o = "applied" THEN Append(s.applied, i) ELSE s.applied

(* One intent is ruled on once; what was ruled on is let alone.            *)
LEMMA IngestOneRules ==
  ASSUME NEW s, Recorded(s), NEW i \in Ids, NEW refused, NEW t, t = ingestOne(s, i, refused)
  PROVE  Passes(s, i, t) \/ Rules(s, i, t)
<1> DEFINE decided == Outcome(s, i)
           outcome == IF decided = "applied" /\ refused THEN "rejected" ELSE decided
<1>1. outcome \in Outcomes
  BY DEF Outcome, Outcomes, resolveMutation, ResolveTransition
<1>2. s.intents[i] # None => outcome = "duplicate"
  BY DEF Outcome
<1>3. /\ t.intents = IF outcome = "duplicate" THEN s.intents
                     ELSE [s.intents EXCEPT ![i] = outcome]
      /\ t.applied = IF outcome = "applied" THEN Append(s.applied, i) ELSE s.applied
      /\ t.moot = IF outcome = "duplicate" /\ s.intents[i] = None
                  THEN s.moot \cup {i} ELSE s.moot
      /\ t.outcomes = [s.outcomes EXCEPT ![i] = outcome]
  BY DEF ingestOne
<1> HIDE DEF outcome
<1>4. DOMAIN t.outcomes = DOMAIN s.outcomes
  BY <1>3
<1>5. CASE outcome = "duplicate"
  BY <1>3, <1>4, <1>5 DEF Passes
<1>6. CASE outcome # "duplicate"
  <2>1. outcome \in Rulings /\ s.intents[i] = None
    BY <1>1, <1>2, <1>6 DEF Rulings
  <2> QED
    BY <1>3, <1>4, <1>6, <2>1 DEF Rules
<1> QED
  BY <1>5, <1>6

(* One mutation of a batch is ruled on once, and nothing that was ruled on *)
(* changes.                                                                *)
LEMMA IngestOneRecords ==
  ASSUME NEW s, Recorded(s), NEW i \in Ids, NEW refused, NEW t, t = ingestOne(s, i, refused)
  PROVE  /\ Recorded(t) /\ DOMAIN t.outcomes = DOMAIN s.outcomes
         /\ s.moot \subseteq t.moot
         /\ \A j \in Ids : s.intents[j] # None => t.intents[j] = s.intents[j]
         /\ \A j \in Ids : SettledIn(t, j) <=> SettledIn(s, j) \/ j = i
<1>1. None \notin Rulings
  BY OfflineAssumption DEF Rulings
<1>2. CASE Passes(s, i, t)
  BY <1>2 DEF Passes, Recorded, SettledIn
<1>3. ASSUME s.intents[i] = None, t.moot = s.moot, NEW o \in Rulings,
             t.intents = [s.intents EXCEPT ![i] = o],
             t.applied = IF o = "applied" THEN Append(s.applied, i) ELSE s.applied,
             DOMAIN t.outcomes = DOMAIN s.outcomes
      PROVE  /\ Recorded(t) /\ DOMAIN t.outcomes = DOMAIN s.outcomes
             /\ s.moot \subseteq t.moot
             /\ \A j \in Ids : s.intents[j] # None => t.intents[j] = s.intents[j]
             /\ \A j \in Ids : SettledIn(t, j) <=> SettledIn(s, j) \/ j = i
  <2>1. /\ t.intents \in [Ids -> Rulings \cup {None}] /\ t.intents[i] = o
        /\ \A j \in Ids \ {i} : t.intents[j] = s.intents[j]
    BY <1>3 DEF Recorded
  <2>2. /\ \A j \in Ids : s.intents[j] # None => t.intents[j] = s.intents[j]
        /\ \A j \in Ids : SettledIn(t, j) <=> SettledIn(s, j) \/ j = i
    BY <1>1, <1>3, <2>1 DEF SettledIn
  <2>3. CASE o # "applied"
    <3>1. t.applied = s.applied
      BY <1>3, <2>3
    <3>2. "applied" # None
      BY OfflineAssumption DEF Outcomes
    <3>3. \A j \in Ids : t.intents[j] = "applied" <=> s.intents[j] = "applied"
      BY <1>3, <2>1, <2>3, <3>2
    <3>4. Recorded(t)
      <4>1. t.applied \in Seq(Ids) /\ t.moot \subseteq Ids
        BY <1>3, <3>1 DEF Recorded
      <4>2. \A p, q \in DOMAIN t.applied : t.applied[p] = t.applied[q] => p = q
        BY <3>1 DEF Recorded
      <4>3. \A j \in Ids : t.intents[j] = "applied" <=>
                            \E p \in DOMAIN t.applied : t.applied[p] = j
        BY <3>1, <3>3 DEF Recorded
      <4> QED
        BY <2>1, <4>1, <4>2, <4>3 DEF Recorded
    <3> QED
      BY <1>3, <2>2, <3>4
  <2>4. CASE o = "applied"
    <3>1. /\ t.applied = Append(s.applied, i) /\ s.applied \in Seq(Ids)
          /\ Len(s.applied) \in Nat /\ DOMAIN s.applied = 1 .. Len(s.applied)
      BY <1>3, <2>4 DEF Recorded
    <3>2. /\ t.applied \in Seq(Ids) /\ DOMAIN t.applied = 1 .. (Len(s.applied) + 1)
          /\ t.applied[Len(s.applied) + 1] = i
          /\ \A p \in DOMAIN s.applied : t.applied[p] = s.applied[p] /\ p \in DOMAIN t.applied
          /\ \A p \in DOMAIN t.applied : p \in DOMAIN s.applied \/ p = Len(s.applied) + 1
          /\ Len(s.applied) + 1 \in DOMAIN t.applied
      BY <3>1
    <3>3. \A p \in DOMAIN s.applied : s.applied[p] # i
      <4>1. "applied" # None
        BY OfflineAssumption DEF Outcomes
      <4> QED
        BY <1>3, <4>1 DEF Recorded
    <3>4. \A p, q \in DOMAIN t.applied : t.applied[p] = t.applied[q] => p = q
      BY <3>2, <3>3 DEF Recorded
    <3>5. \A j \in Ids : t.intents[j] = "applied" <=>
                          \E p \in DOMAIN t.applied : t.applied[p] = j
      <4>1. ASSUME NEW j \in Ids \ {i}
            PROVE  t.intents[j] = "applied" <=>
                     \E p \in DOMAIN t.applied : t.applied[p] = j
        <5>1. t.intents[j] = "applied" <=> \E p \in DOMAIN s.applied : s.applied[p] = j
          BY <2>1 DEF Recorded
        <5> QED
          BY <3>2, <5>1
      <4> QED
        BY <2>1, <2>4, <3>2, <4>1
    <3>6. Recorded(t)
      BY <1>3, <2>1, <3>2, <3>4, <3>5 DEF Recorded
    <3> QED
      BY <1>3, <2>2, <3>6
  <2> QED
    BY <2>3, <2>4
<1>4. CASE Rules(s, i, t)
  <2>1. PICK o \in Rulings : /\ t.intents = [s.intents EXCEPT ![i] = o]
                             /\ t.applied = IF o = "applied"
                                            THEN Append(s.applied, i)
                                            ELSE s.applied
    BY <1>4 DEF Rules
  <2> QED
    BY <1>3, <1>4, <2>1 DEF Rules
<1> QED
  BY <1>2, <1>4, IngestOneRules

InOrder(s) ==
  \A p, q \in DOMAIN s.applied :
    p < q => ~MadeBefore(s.applied[q], s.applied[p]) \/ s.applied[q] \in s.moot

(* An intent that takes effect comes after what was made before it, for    *)
(* that is settled already.                                                *)
LEMMA IngestOneInOrder ==
  ASSUME NEW s, Recorded(s), InOrder(s), NEW i \in Ids, NEW refused,
         NEW t, t = ingestOne(s, i, refused),
         \A j \in Ids : MadeBefore(i, j) /\ SettledIn(s, j) => SettledIn(s, i)
  PROVE  InOrder(t)
<1>1. Passes(s, i, t) \/ Rules(s, i, t)
  BY IngestOneRules
<1>2. CASE t.applied = s.applied /\ (t.moot = s.moot \/ t.moot = s.moot \cup {i})
  BY <1>2 DEF InOrder
<1>3. CASE s.intents[i] = None /\ t.moot = s.moot /\ t.applied = Append(s.applied, i)
  <2>1. /\ s.applied \in Seq(Ids) /\ Len(s.applied) \in Nat
        /\ DOMAIN s.applied = 1 .. Len(s.applied)
    BY DEF Recorded
  <2>2. /\ DOMAIN t.applied = 1 .. (Len(s.applied) + 1)
        /\ t.applied[Len(s.applied) + 1] = i
        /\ \A p \in DOMAIN s.applied : t.applied[p] = s.applied[p]
    BY <1>3, <2>1
  <2>3. ASSUME NEW p \in DOMAIN s.applied
        PROVE  ~MadeBefore(i, s.applied[p]) \/ i \in s.moot
    <3>1. s.applied[p] \in Ids
      BY <2>1
    <3>2. s.intents[s.applied[p]] = "applied" /\ "applied" # None
      BY <3>1, OfflineAssumption DEF Recorded, Outcomes
    <3>3. SettledIn(s, s.applied[p])
      BY <3>2 DEF SettledIn
    <3> QED
      BY <1>3, <3>1, <3>3 DEF SettledIn
  <2>4. ASSUME NEW p \in DOMAIN t.applied, NEW q \in DOMAIN t.applied, p < q
        PROVE  ~MadeBefore(t.applied[q], t.applied[p]) \/ t.applied[q] \in t.moot
    <3>1. p \in DOMAIN s.applied
      BY <2>1, <2>2, <2>4
    <3>2. CASE q \in DOMAIN s.applied
      BY <1>3, <2>2, <2>4, <3>1, <3>2 DEF InOrder
    <3>3. CASE q = Len(s.applied) + 1
      BY <1>3, <2>2, <2>3, <3>1, <3>3
    <3> QED
      BY <2>1, <2>2, <3>2, <3>3
  <2> QED
    BY <2>4 DEF InOrder
<1> QED
  BY <1>1, <1>2, <1>3 DEF Passes, Rules

(* What the first n entries of a batch have left behind.                   *)
Ruled(s, batch, n) ==
  /\ Recorded(s) /\ DOMAIN s.outcomes = IdsOf(batch) /\ moot \subseteq s.moot
  /\ \A j \in Ids : intents[j] # None => s.intents[j] = intents[j]
  /\ \A j \in Ids : SettledIn(s, j) <=> Settled(j) \/ \E m \in 1 .. n : batch[m].id = j

Orderly(batch) ==
  /\ Fits(batch) /\ AppliedInDeviceOrder
  /\ \A i, j \in Ids : MadeBefore(i, j) /\ Settled(j) => Settled(i)

(* What was made before an entry is settled when its turn comes.           *)
LEMMA EarlierIsSettled ==
  ASSUME NEW batch, Queued(batch), Orderly(batch), NEW n \in 1 .. Len(batch),
         NEW s, Ruled(s, batch, n - 1), NEW j \in Ids,
         MadeBefore(batch[n].id, j), SettledIn(s, j)
  PROVE  SettledIn(s, batch[n].id)
<1>1. /\ DOMAIN batch = 1 .. Len(batch) /\ Len(batch) \in Nat
      /\ batch[n].id \in Ids
  <2>1. batch \in Seq(EntryType)
    BY DEF Queued
  <2>2. batch[n] \in EntryType
    BY <2>1
  <2> QED
    BY <2>1, <2>2 DEF EntryType
<1>2. CASE Settled(j)
  BY <1>1, <1>2 DEF Orderly, Ruled
<1>3. ASSUME NEW m \in 1 .. (n - 1), batch[m].id = j
      PROVE  SettledIn(s, batch[n].id)
  <2>1. m \in DOMAIN batch
    BY <1>1
  <2>2. Settled(batch[n].id) \/ \E l \in DOMAIN batch : l < m /\ batch[l].id = batch[n].id
    BY <1>1, <1>3, <2>1 DEF Orderly, Fits
  <2>3. \A l \in DOMAIN batch : l < m => l \in 1 .. (n - 1)
    BY <1>1
  <2> QED
    BY <1>1, <2>2, <2>3 DEF Ruled
<1> QED
  BY <1>2, <1>3 DEF Ruled

(* A replay rules on all of its batch, in the order of the batch; in one   *)
(* that brings what was made before its entries, in the order things were  *)
(* made.                                                                   *)
LEMMA ReplayRules ==
  ASSUME RecordInv, NEW batch, Queued(batch), NEW s \in Replayed(batch)
  PROVE  Ruled(s, batch, Len(batch)) /\ (Orderly(batch) => InOrder(s))
<1>1. PICK f : IsReplay(f, Len(batch), batch, Begin(batch)) /\ Replayed(batch) = f[Len(batch)]
  BY ReplayedIsLast
<1>2. \A n \in 0 .. Len(batch) : f[n] = IF n = 0 THEN {Begin(batch)} ELSE After(f[n - 1], batch[n])
  BY <1>1 DEF IsReplay
<1>3. Len(batch) \in Nat /\ \A n \in 1 .. Len(batch) : batch[n].id \in Ids
  <2>1. batch \in Seq(EntryType)
    BY DEF Queued
  <2>2. \A n \in 1 .. Len(batch) : batch[n] \in EntryType
    BY <2>1
  <2> QED
    BY <2>1, <2>2 DEF EntryType
<1> DEFINE Ok(n) == \A t \in f[n] : Ruled(t, batch, n) /\ (Orderly(batch) => InOrder(t))
           Bad == {n \in 0 .. Len(batch) : ~Ok(n)}
<1>4. SUFFICES ASSUME Bad # {} PROVE FALSE
  <2>1. Len(batch) \in 0 .. Len(batch)
    BY <1>3
  <2>2. Bad = {} => Ok(Len(batch))
    <3> HIDE DEF Ok
    <3> QED
      BY <2>1
  <2> QED
    BY <1>1, <2>2
<1>5. PICK n \in Bad : \A m \in Bad : n <= m
  <2> HIDE DEF Ok
  <2>1. Bad \in SUBSET Nat
    OBVIOUS
  <2> QED
    BY <1>4, <2>1, LeastNatural
<1>6. CASE n = 0
  <2> DEFINE b == Begin(batch)
  <2>1. /\ b.intents = intents /\ b.applied = applied /\ b.moot = moot
        /\ DOMAIN b.outcomes = IdsOf(batch)
    BY DEF Begin
  <2>2. f[n] = {b}
    BY <1>2, <1>3, <1>6
  <2> HIDE DEF b
  <2>3. Recorded(b)
    BY <2>1 DEF Recorded, RecordInv, AppliedAtMostOnce
  <2>4. Ruled(b, batch, 0)
    BY <2>1, <2>3 DEF Ruled, SettledIn, Settled
  <2>5. Orderly(batch) => InOrder(b)
    BY <2>1 DEF Orderly, AppliedInDeviceOrder, InOrder
  <2> QED
    BY <1>5, <1>6, <2>2, <2>4, <2>5
<1>7. CASE n # 0
  <2>1. /\ n \in 1 .. Len(batch) /\ n - 1 \in 0 .. Len(batch) /\ Ok(n - 1)
        /\ batch[n].id \in Ids
    <3> HIDE DEF Ok
    <3> QED
      BY <1>3, <1>5, <1>7
  <2>2. ASSUME NEW t \in f[n]
        PROVE  Ruled(t, batch, n) /\ (Orderly(batch) => InOrder(t))
    <3>0. t \in After(f[n - 1], batch[n])
      <4> HIDE DEF Ok
      <4> QED
        BY <1>2, <1>7, <2>1, <2>2
    <3>1. PICK u \in f[n - 1], refused \in MayBeRefused(batch[n].id) :
            t = ingestOne(u, batch[n].id, refused)
      <4> HIDE DEF Ok
      <4> QED
        BY <3>0 DEF After
    <3>2. Ruled(u, batch, n - 1) /\ (Orderly(batch) => InOrder(u))
      BY <2>1
    <3>3. Recorded(u)
      BY <3>2 DEF Ruled
    <3>4. /\ Recorded(t) /\ DOMAIN t.outcomes = DOMAIN u.outcomes
          /\ u.moot \subseteq t.moot
          /\ \A j \in Ids : u.intents[j] # None => t.intents[j] = u.intents[j]
          /\ \A j \in Ids : SettledIn(t, j) <=> SettledIn(u, j) \/ j = batch[n].id
      BY <2>1, <3>1, <3>3, IngestOneRecords
    <3>5. \A m \in 1 .. n : m = n \/ m \in 1 .. (n - 1)
      BY <1>3, <2>1
    <3>a. n \in 1 .. n /\ \A m \in 1 .. (n - 1) : m \in 1 .. n
      BY <2>1
    <3>6. Ruled(t, batch, n)
      BY <3>2, <3>4, <3>5, <3>a DEF Ruled
    <3>7. ASSUME Orderly(batch) PROVE InOrder(t)
      <4>1. \A j \in Ids : MadeBefore(batch[n].id, j) /\ SettledIn(u, j) => SettledIn(u, batch[n].id)
        BY <2>1, <3>2, <3>7, EarlierIsSettled
      <4> QED
        BY <2>1, <3>1, <3>2, <3>3, <3>7, <4>1, IngestOneInOrder
    <3> QED
      BY <3>6, <3>7
  <2> QED
    BY <1>5, <2>2
<1> QED
  BY <1>6, <1>7

-----------------------------------------------------------------------------
(* The queues, step by step.                                               *)

(* The empty queue is in order, and the front of any.                      *)
LEMMA NoneQueued ==
  ASSUME NEW q, Queued(q)
  PROVE  Queued(<<>>) /\ StartsWith(q, <<>>) /\ StartsWith(q, q)
BY DEF Queued, StartsWith

(* A queue goes on from the highest number in it.                          *)
LEMMA LastSeqIsLast ==
  ASSUME NEW q, Queued(q)
  PROVE  LastSeq(q) \in Nat /\ \A k \in DOMAIN q : q[k].seq <= LastSeq(q)
<1>1. /\ q \in Seq(EntryType) /\ Len(q) \in Nat /\ DOMAIN q = 1 .. Len(q)
      /\ \A a, b \in DOMAIN q : a < b => q[a].seq < q[b].seq
  BY DEF Queued
<1>2. \A k \in DOMAIN q : q[k].seq \in Nat
  <2>1. \A k \in DOMAIN q : q[k] \in EntryType
    BY <1>1
  <2> QED
    BY <2>1 DEF EntryType
<1>3. CASE q = <<>>
  BY <1>3 DEF LastSeq
<1>4. CASE q # <<>>
  <2> DEFINE S == {q[k].seq : k \in DOMAIN q}
             m == q[Len(q)].seq
  <2>1. Len(q) \in DOMAIN q
    BY <1>1, <1>4
  <2>2. \A k \in DOMAIN q : k < Len(q) \/ k = Len(q)
    BY <1>1
  <2>3. \A k \in DOMAIN q : q[k].seq <= m
    BY <1>1, <1>2, <2>1, <2>2
  <2>4. m \in S /\ \A x \in S : m >= x
    BY <1>2, <2>1, <2>3
  <2>5. LastSeq(q) = Max(S)
    BY <1>4 DEF LastSeq
  <2>6. S \subseteq Nat
    BY <1>2
  <2> HIDE DEF S, m
  <2>7. Max(S) \in S /\ \A x \in S : Max(S) >= x
    BY <2>4 DEF Max
  <2>8. \A k \in DOMAIN q : q[k].seq \in S
    BY DEF S
  <2> QED
    BY <1>2, <2>5, <2>6, <2>7, <2>8
<1> QED
  BY <1>3, <1>4

(* enqueue numbers its entry past all the others.                          *)
LEMMA EnqueueQueues ==
  ASSUME QueuesInv, NEW i \in Ids, NEW m \in Mutations, enqueue(i, m)
  PROVE  /\ QueuesInv' /\ DOMAIN pending' = 1 .. (Len(pending) + 1)
         /\ DOMAIN pending = 1 .. Len(pending) /\ Len(pending) \in Nat
         /\ pending'[Len(pending) + 1].id = i
         /\ \A k \in DOMAIN pending : pending'[k] = pending[k]
         /\ pending' = store'.queue
<1> DEFINE e == [id |-> i, seq |-> seq + 1]
<1>1. /\ pending' = Append(pending, e) /\ seq' = seq + 1
      /\ store' = [queue |-> pending', attention |-> store.attention]
      /\ UNCHANGED <<flight, orphan, requests>>
  BY DEF enqueue, persist
<1>2. /\ pending \in Seq(EntryType) /\ Len(pending) \in Nat
      /\ DOMAIN pending = 1 .. Len(pending) /\ seq \in Nat
      /\ \A k \in DOMAIN pending : pending[k].seq <= seq
      /\ \A a, b \in DOMAIN pending : a < b => pending[a].seq < pending[b].seq
  BY DEF QueuesInv, SessionInv, Queued
<1>3. e \in EntryType /\ e.id = i /\ e.seq = seq + 1
  BY <1>2 DEF EntryType
<1> HIDE DEF e
<1>4. /\ pending' \in Seq(EntryType) /\ DOMAIN pending' = 1 .. (Len(pending) + 1)
      /\ Len(pending') = Len(pending) + 1
      /\ pending'[Len(pending) + 1] = e
      /\ \A k \in DOMAIN pending : pending'[k] = pending[k]
  BY <1>1, <1>2, <1>3
<1>5. \A k \in DOMAIN pending' : k = Len(pending) + 1 \/ k \in DOMAIN pending
  BY <1>2, <1>4
<1>6. \A k \in DOMAIN pending : pending[k].seq \in Nat
  <2>1. \A k \in DOMAIN pending : pending[k] \in EntryType
    BY <1>2
  <2> QED
    BY <2>1 DEF EntryType
<1>7. Queued(pending')
  <2>1. ASSUME NEW a \in DOMAIN pending', NEW b \in DOMAIN pending', a < b
        PROVE  pending'[a].seq < pending'[b].seq
    <3>1. a \in DOMAIN pending
      BY <1>2, <1>4, <2>1
    <3>2. CASE b \in DOMAIN pending
      BY <1>2, <1>4, <2>1, <3>1, <3>2
    <3>3. CASE b = Len(pending) + 1
      BY <1>2, <1>3, <1>4, <1>6, <3>1, <3>3
    <3> QED
      BY <1>5, <3>2, <3>3
  <2> QED
    BY <1>4, <2>1 DEF Queued
<1>8. \A k \in DOMAIN pending' : pending'[k].seq <= seq'
  BY <1>1, <1>2, <1>3, <1>4, <1>5, <1>6
<1>9. StartsWith(pending', flight')
  <2>1. flight \in Seq(EntryType) /\ Len(flight) \in Nat /\ DOMAIN flight = 1 .. Len(flight)
    BY DEF QueuesInv, SessionInv, Queued
  <2>2. Len(flight) <= Len(pending) /\ \A k \in DOMAIN flight : flight[k] = pending[k]
    BY DEF QueuesInv, SessionInv, StartsWith
  <2>3. \A k \in DOMAIN flight : k \in DOMAIN pending
    BY <1>2, <2>1, <2>2
  <2>4. Len(flight') <= Len(pending')
    BY <1>1, <1>2, <1>4, <2>1, <2>2
  <2>5. \A k \in DOMAIN flight' : flight'[k] = pending'[k]
    BY <1>1, <1>4, <2>2, <2>3
  <2> QED
    BY <2>4, <2>5 DEF StartsWith
<1>10. SessionInv'
  BY <1>1, <1>2, <1>7, <1>8, <1>9 DEF QueuesInv, SessionInv
<1>11. StoreInv'
  BY <1>1, <1>7 DEF StoreInv
<1>12. OrphanInv' /\ WireInv'
  BY <1>1 DEF QueuesInv, OrphanInv, WireInv
<1> QED
  BY <1>1, <1>2, <1>3, <1>4, <1>10, <1>11, <1>12 DEF QueuesInv

(* A flush sends the whole queue, and waits for all of it.                 *)
LEMMA FlushSendQueues ==
  ASSUME QueuesInv, FlushSend
  PROVE  /\ QueuesInv' /\ DOMAIN requests' = 1 .. (Len(requests) + 1)
         /\ DOMAIN requests = 1 .. Len(requests) /\ Len(requests) \in Nat
         /\ requests'[Len(requests) + 1] = [from |-> "session", batch |-> pending]
         /\ \A k \in DOMAIN requests : requests'[k] = requests[k]
<1> DEFINE r == [from |-> "session", batch |-> pending]
<1>1. /\ flight' = pending /\ requests' = Append(requests, r)
      /\ UNCHANGED <<pending, seq, orphan, store>>
  BY DEF FlushSend
<1>2. /\ requests \in Seq(Request) /\ Len(requests) \in Nat
      /\ DOMAIN requests = 1 .. Len(requests) /\ Queued(pending)
  BY DEF QueuesInv, WireInv, SessionInv
<1>3. r \in Request /\ r.batch = pending
  BY <1>2 DEF Request, Senders, Queued
<1>a. r = [from |-> "session", batch |-> pending]
  OBVIOUS
<1> HIDE DEF r
<1>4. /\ requests' \in Seq(Request) /\ DOMAIN requests' = 1 .. (Len(requests) + 1)
      /\ requests'[Len(requests) + 1] = r
      /\ \A k \in DOMAIN requests : requests'[k] = requests[k]
  BY <1>1, <1>2, <1>3
<1>5. WireInv'
  <2>1. \A k \in DOMAIN requests' : k = Len(requests) + 1 \/ k \in DOMAIN requests
    BY <1>2, <1>4
  <2>2. \A k \in DOMAIN requests' : Queued(requests'[k].batch)
    BY <1>2, <1>3, <1>4, <2>1 DEF QueuesInv, WireInv
  <2> QED
    BY <1>4, <2>2 DEF WireInv
<1>6. SessionInv' /\ StoreInv' /\ OrphanInv'
  BY <1>1, NoneQueued DEF QueuesInv, SessionInv, StoreInv, OrphanInv
<1> QED
  BY <1>2, <1>4, <1>5, <1>6, <1>a DEF QueuesInv

(* Who sent a request is forgotten, and what is in it stays.               *)
Forgotten(from, to) ==
  /\ DOMAIN requests' = DOMAIN requests
  /\ \A k \in DOMAIN requests :
       /\ requests'[k].batch = requests[k].batch
       /\ requests'[k].from = IF requests[k].from = from THEN to ELSE requests[k].from
  /\ \A p \in responses' : p.from = to \/ (p \in responses /\ p.from # from)

(* Requests whose sender has gone are nobody's, and their batches stay.    *)
LEMMA RelabelQueues ==
  ASSUME WireInv, NEW from \in Senders, NEW to \in {"orphan", "nobody"}, from # to,
         Relabel(from, to)
  PROVE  WireInv' /\ Forgotten(from, to)
<1>1. /\ requests \in Seq(Request) /\ DOMAIN requests = 1 .. Len(requests)
      /\ Len(requests) \in Nat
      /\ \A k \in DOMAIN requests : requests[k] \in Request
  BY DEF WireInv
<1> DEFINE new(k) == IF requests[k].from = from
                     THEN [from |-> to, batch |-> requests[k].batch] ELSE requests[k]
<1>2. requests' = [k \in DOMAIN requests |-> new(k)]
  BY DEF Relabel
<1>3. \A k \in DOMAIN requests :
        /\ new(k) \in Request /\ new(k).batch = requests[k].batch
        /\ new(k).from = IF requests[k].from = from THEN to ELSE requests[k].from
  BY <1>1 DEF Request, Senders
<1> HIDE DEF new
<1>4. /\ requests' \in Seq(Request) /\ DOMAIN requests' = DOMAIN requests
      /\ \A k \in DOMAIN requests : requests'[k] = new(k)
  <2>1. requests' \in [1 .. Len(requests) -> Request]
    BY <1>1, <1>2, <1>3
  <2> QED
    BY <1>1, <1>2, <2>1
<1>5. WireInv'
  BY <1>3, <1>4 DEF WireInv
<1>6. \A p \in responses' : p.from = to \/ (p \in responses /\ p.from # from)
  BY DEF Relabel
<1>7. \A k \in DOMAIN requests :
        /\ requests'[k].batch = requests[k].batch
        /\ requests'[k].from = IF requests[k].from = from THEN to ELSE requests[k].from
  BY <1>3, <1>4
<1> QED
  BY <1>4, <1>5, <1>6, <1>7 DEF Forgotten

(* A flush that gives up keeps its queue.                                  *)
LEMMA FlushFailQueues ==
  ASSUME QueuesInv, FlushFail
  PROVE  QueuesInv' /\ Forgotten("session", "nobody")
<1>1. /\ flight' = <<>> /\ Relabel("session", "nobody")
      /\ UNCHANGED <<pending, seq, orphan, store>>
  BY DEF FlushFail
<1>2. WireInv' /\ Forgotten("session", "nobody")
  BY <1>1, RelabelQueues DEF QueuesInv, Senders
<1>3. SessionInv' /\ StoreInv' /\ OrphanInv'
  BY <1>1, NoneQueued DEF QueuesInv, SessionInv, StoreInv, OrphanInv
<1> QED
  BY <1>2, <1>3 DEF QueuesInv

(* What is left after an answer is in order, and is what is stored.        *)
LEMMA FlushDoneQueues ==
  ASSUME QueuesInv, NEW p \in responses, FlushDone(p)
  PROVE  QueuesInv' /\ store'.queue = pending'
<1> DEFINE next == Remaining(pending, flight, p.outcomes)
<1>1. /\ pending' = next /\ flight' = <<>>
      /\ DOMAIN store' = {"queue", "attention"} /\ store'.queue = next
      /\ UNCHANGED <<seq, orphan, requests>>
  BY DEF FlushDone
<1>2. /\ Queued(next)
      /\ \A a \in DOMAIN next : \E i \in DOMAIN pending : next[a] = pending[i]
  BY RemainingIsQueued DEF QueuesInv, SessionInv
<1> HIDE DEF next
<1>3. SessionInv'
  BY <1>1, <1>2, NoneQueued DEF QueuesInv, SessionInv
<1>4. StoreInv' /\ OrphanInv' /\ WireInv'
  BY <1>1, <1>2 DEF QueuesInv, StoreInv, OrphanInv, WireInv
<1> QED
  BY <1>1, <1>3, <1>4 DEF QueuesInv

(* No earlier session waits for a flush.                                   *)
LEMMA NoOrphanQueues == DOMAIN NoOrphan = {"pending", "attention", "flight"} /\
                        Queued(NoOrphan.pending) /\ Queued(NoOrphan.flight) /\
                        StartsWith(NoOrphan.pending, NoOrphan.flight)
BY DEF NoOrphan, Queued, StartsWith

(* A queue object that is read back from storage.                          *)
LEMMA CreatedQueue ==
  ASSUME StoreInv, createOfflineQueue
  PROVE  SessionInv' /\ StoreInv' /\ pending' = store.queue /\ flight' = <<>> /\ store' = store
<1>1. /\ pending' = store.queue /\ seq' = LastSeq(store.queue) /\ flight' = <<>>
      /\ store' = store
  BY DEF createOfflineQueue
<1>2. Queued(pending')
  BY <1>1 DEF StoreInv
<1>3. SessionInv'
  BY <1>1, <1>2, NoneQueued, LastSeqIsLast DEF SessionInv, StoreInv
<1>4. StoreInv'
  BY <1>1 DEF StoreInv
<1> QED
  BY <1>1, <1>3, <1>4

(* A reload reads the stored queue, and awaits nothing.                    *)
LEMMA ReloadQueues ==
  ASSUME QueuesInv, Reload
  PROVE  /\ QueuesInv' /\ DOMAIN requests' = DOMAIN requests
         /\ \A k \in DOMAIN requests : /\ requests'[k].batch = requests[k].batch
                                       /\ requests'[k].from = "nobody"
         /\ \A p \in responses' : p.from = "nobody"
<1>1. /\ createOfflineQueue /\ orphan' = NoOrphan
      /\ requests' = [k \in DOMAIN requests |->
                        [from |-> "nobody", batch |-> requests[k].batch]]
      /\ \A p \in responses' : p.from = "nobody"
  BY DEF Reload
<1>2. SessionInv' /\ StoreInv'
  BY <1>1, CreatedQueue DEF QueuesInv
<1>3. OrphanInv'
  BY <1>1, NoOrphanQueues DEF OrphanInv
<1>4. /\ DOMAIN requests' = DOMAIN requests
      /\ \A k \in DOMAIN requests : /\ requests'[k].batch = requests[k].batch
                                    /\ requests'[k].from = "nobody"
  BY <1>1
<1>5. WireInv'
  <2>1. /\ requests \in Seq(Request) /\ DOMAIN requests = 1 .. Len(requests)
        /\ Len(requests) \in Nat
        /\ \A k \in DOMAIN requests : requests[k] \in Request /\ Queued(requests[k].batch)
    BY DEF QueuesInv, WireInv
  <2>2. \A k \in DOMAIN requests : [from |-> "nobody", batch |-> requests[k].batch] \in Request
    BY <2>1 DEF Request, Senders
  <2>3. requests' \in [1 .. Len(requests) -> Request]
    BY <1>1, <2>1, <2>2
  <2>4. requests' \in Seq(Request)
    BY <2>1, <2>3
  <2> QED
    BY <1>4, <2>1, <2>4 DEF WireInv
<1> QED
  BY <1>1, <1>2, <1>3, <1>4, <1>5 DEF QueuesInv

(* A sign-in leaves the old queue object to the flush that holds it.       *)
LEMMA SignInQueues ==
  ASSUME QueuesInv, SignInAgain
  PROVE  QueuesInv'
<1>1. /\ createOfflineQueue /\ Relabel("session", "orphan")
      /\ orphan' = [pending |-> pending, attention |-> attention, flight |-> flight]
  BY DEF SignInAgain
<1>2. SessionInv' /\ StoreInv'
  BY <1>1, CreatedQueue DEF QueuesInv
<1>3. OrphanInv'
  BY <1>1 DEF QueuesInv, SessionInv, OrphanInv
<1>4. WireInv'
  BY <1>1, RelabelQueues DEF QueuesInv, Senders
<1> QED
  BY <1>2, <1>3, <1>4 DEF QueuesInv

(* The old queue object writes a queue that is in order, too.              *)
LEMMA OrphanQueues ==
  ASSUME QueuesInv, OrphanFail \/ \E p \in responses : OrphanDone(p)
  PROVE  QueuesInv'
<1>1. orphan' = NoOrphan /\ UNCHANGED <<pending, seq, flight>>
  BY DEF OrphanFail, OrphanDone
<1>2. SessionInv' /\ OrphanInv'
  BY <1>1, NoOrphanQueues DEF QueuesInv, SessionInv, OrphanInv
<1>3. CASE OrphanFail
  <2>1. Relabel("orphan", "nobody") /\ store' = store
    BY <1>3 DEF OrphanFail
  <2>2. WireInv'
    BY <2>1, RelabelQueues DEF QueuesInv, Senders
  <2>3. StoreInv'
    BY <2>1 DEF QueuesInv, StoreInv
  <2> QED
    BY <1>2, <2>2, <2>3 DEF QueuesInv
<1>4. ASSUME NEW p \in responses, OrphanDone(p)
      PROVE  QueuesInv'
  <2> DEFINE next == Remaining(orphan.pending, orphan.flight, p.outcomes)
  <2>1. /\ DOMAIN store' = {"queue", "attention"} /\ store'.queue = next
        /\ requests' = requests
    BY <1>4 DEF OrphanDone
  <2>2. Queued(next)
    BY RemainingIsQueued DEF QueuesInv, OrphanInv
  <2> HIDE DEF next
  <2>3. StoreInv' /\ WireInv'
    BY <2>1, <2>2 DEF QueuesInv, StoreInv, WireInv
  <2> QED
    BY <1>2, <2>3 DEF QueuesInv
<1> QED
  BY <1>3, <1>4

(* A request that is served or lost leaves the others.                     *)
LEMMA TakenRequest ==
  ASSUME WireInv, NEW k \in DOMAIN requests, requests' = RemoveAt(requests, k)
  PROVE  /\ WireInv'
         /\ \A n \in DOMAIN requests' : \E m \in DOMAIN requests \ {k} :
              m = (IF n < k THEN n ELSE n + 1) /\ requests'[n] = requests[m]
<1>1. /\ requests \in Seq(Request) /\ DOMAIN requests = 1 .. Len(requests)
      /\ Len(requests) \in Nat
  BY DEF WireInv
<1>2. /\ requests' \in Seq(Request) /\ DOMAIN requests' = 1 .. (Len(requests) - 1)
      /\ \A n \in 1 .. (Len(requests) - 1) :
           requests'[n] = requests[IF n < k THEN n ELSE n + 1]
  BY <1>1, RemoveAtDrops
<1>3. ASSUME NEW n \in DOMAIN requests'
      PROVE  \E m \in DOMAIN requests \ {k} :
               m = (IF n < k THEN n ELSE n + 1) /\ requests'[n] = requests[m]
  BY <1>1, <1>2
<1>4. WireInv'
  BY <1>2, <1>3 DEF WireInv
<1> QED
  BY <1>3, <1>4

-----------------------------------------------------------------------------
(* An intent takes effect once.                                            *)

(* What one served batch leaves behind.                                    *)
LEMMA ServedBatch ==
  ASSUME QueuesInv, RecordInv, NEW k \in DOMAIN requests, ingestSync(k)
  PROVE  \E end \in Replayed(requests[k].batch) :
           /\ Queued(requests[k].batch)
           /\ Ruled(end, requests[k].batch, Len(requests[k].batch))
           /\ Orderly(requests[k].batch) => InOrder(end)
           /\ intents' = end.intents /\ applied' = end.applied /\ moot' = end.moot
           /\ responses' = IF requests[k].from = "nobody" THEN responses
                           ELSE responses \cup
                             {[from |-> requests[k].from, outcomes |-> end.outcomes]}
           /\ requests' = RemoveAt(requests, k)
           /\ UNCHANGED <<made, asks, device>>
<1>1. PICK end \in Replayed(requests[k].batch) :
        /\ intents' = end.intents /\ applied' = end.applied /\ moot' = end.moot
        /\ responses' = IF requests[k].from = "nobody" THEN responses
                        ELSE responses \cup
                          {[from |-> requests[k].from, outcomes |-> end.outcomes]}
        /\ requests' = RemoveAt(requests, k)
        /\ UNCHANGED <<made, asks, device>>
  BY DEF ingestSync
<1>2. Queued(requests[k].batch)
  BY DEF QueuesInv, WireInv
<1>3. /\ Ruled(end, requests[k].batch, Len(requests[k].batch))
      /\ Orderly(requests[k].batch) => InOrder(end)
  BY <1>2, ReplayRules
<1> QED
  BY <1>1, <1>2, <1>3

(* A served batch has each of its intents take effect at most once.        *)
LEMMA ServedOnce ==
  ASSUME QueuesInv, RecordInv, NEW k \in DOMAIN requests, ingestSync(k)
  PROVE  QueuesInv' /\ RecordInv'
<1>1. PICK end : /\ Recorded(end)
                 /\ intents' = end.intents /\ applied' = end.applied /\ moot' = end.moot
                 /\ requests' = RemoveAt(requests, k)
                 /\ UNCHANGED <<made, asks, device>>
  BY ServedBatch DEF Ruled
<1>2. RecordInv'
  BY <1>1 DEF Recorded, RecordInv, AppliedAtMostOnce
<1>3. WireInv'
  BY <1>1, TakenRequest DEF QueuesInv
<1>4. SessionInv' /\ StoreInv' /\ OrphanInv'
  BY <1>1 DEF QueuesInv, SessionInv, StoreInv, OrphanInv, device
<1> QED
  BY <1>2, <1>3, <1>4 DEF QueuesInv

(* Nothing is queued or recorded.                                          *)
LEMMA OnceInit == Init => OnceInv
<1> SUFFICES ASSUME Init PROVE OnceInv
  OBVIOUS
<1>1. Queued(<<>>) /\ StartsWith(<<>>, <<>>)
  BY DEF Queued, StartsWith
<1>2. SessionInv /\ StoreInv
  BY <1>1 DEF Init, SessionInv, StoreInv
<1>3. OrphanInv
  BY NoOrphanQueues DEF Init, OrphanInv
<1>4. WireInv
  BY DEF Init, WireInv
<1>5. RecordInv
  <2>1. "applied" # None
    BY OfflineAssumption DEF Outcomes
  <2> QED
    BY <2>1 DEF Init, RecordInv, AppliedAtMostOnce
<1> QED
  BY <1>2, <1>3, <1>4, <1>5 DEF OnceInv, QueuesInv

(* Every step keeps the queues in order and the effects single.            *)
LEMMA OnceNext == OnceInv /\ [Next]_vars => OnceInv'
<1> SUFFICES ASSUME OnceInv, [Next]_vars PROVE OnceInv'
  OBVIOUS
<1>1. QueuesInv /\ RecordInv
  BY DEF OnceInv
<1>a. UNCHANGED <<intents, applied, moot>> => RecordInv'
  BY <1>1 DEF RecordInv, AppliedAtMostOnce
<1>b. UNCHANGED <<pending, seq, flight, orphan, requests>> /\ store'.queue = store.queue
        /\ DOMAIN store' = {"queue", "attention"} => QueuesInv'
  BY <1>1 DEF QueuesInv, SessionInv, StoreInv, OrphanInv, WireInv
<1>2. ASSUME NEW i \in Ids, NEW m \in Mutations, enqueue(i, m)
      PROVE  OnceInv'
  <2>1. UNCHANGED <<intents, applied, moot>>
    BY <1>2 DEF enqueue, server
  <2> QED
    BY <1>1, <1>2, <1>a, <2>1, EnqueueQueues DEF OnceInv
<1>3. CASE FlushSend
  <2>1. UNCHANGED <<intents, applied, moot>>
    BY <1>3 DEF FlushSend, server
  <2> QED
    BY <1>1, <1>3, <1>a, <2>1, FlushSendQueues DEF OnceInv
<1>4. CASE FlushFail
  <2>1. UNCHANGED <<intents, applied, moot>>
    BY <1>4 DEF FlushFail, server
  <2> QED
    BY <1>1, <1>4, <1>a, <2>1, FlushFailQueues DEF OnceInv
<1>5. ASSUME NEW p \in responses, FlushDone(p)
      PROVE  OnceInv'
  <2>1. UNCHANGED <<intents, applied, moot>>
    BY <1>5 DEF FlushDone, server
  <2> QED
    BY <1>1, <1>5, <1>a, <2>1, FlushDoneQueues DEF OnceInv
<1>6. ASSUME NEW i \in Ids, dismissAttention(i)
      PROVE  OnceInv'
  <2>1. /\ UNCHANGED <<intents, applied, moot, pending, seq, flight, orphan, requests>>
        /\ store'.queue = store.queue /\ DOMAIN store' = {"queue", "attention"}
    BY <1>6 DEF dismissAttention, server
  <2> QED
    BY <1>a, <1>b, <2>1 DEF OnceInv
<1>7. CASE Reload
  <2>1. UNCHANGED <<intents, applied, moot>>
    BY <1>7 DEF Reload, createOfflineQueue, server
  <2> QED
    BY <1>1, <1>7, <1>a, <2>1, ReloadQueues DEF OnceInv
<1>8. CASE SignInAgain
  <2>1. UNCHANGED <<intents, applied, moot>>
    BY <1>8 DEF SignInAgain, createOfflineQueue, server
  <2> QED
    BY <1>1, <1>8, <1>a, <2>1, SignInQueues DEF OnceInv
<1>9. CASE OrphanFail \/ \E p \in responses : OrphanDone(p)
  <2>1. UNCHANGED <<intents, applied, moot>>
    BY <1>9 DEF OrphanFail, OrphanDone, server
  <2> QED
    BY <1>1, <1>9, <1>a, <2>1, OrphanQueues DEF OnceInv
<1>10. ASSUME NEW k \in DOMAIN requests, ingestSync(k)
       PROVE  OnceInv'
  BY <1>1, <1>10, ServedOnce DEF OnceInv
<1>11. ASSUME NEW k \in DOMAIN requests, LoseRequest(k)
       PROVE  OnceInv'
  <2>1. /\ requests' = RemoveAt(requests, k)
        /\ UNCHANGED <<intents, applied, moot, pending, seq, flight, orphan, store>>
    BY <1>11 DEF LoseRequest, server, device
  <2>2. WireInv'
    BY <1>1, <2>1, TakenRequest DEF QueuesInv
  <2>3. SessionInv' /\ StoreInv' /\ OrphanInv'
    BY <1>1, <2>1 DEF QueuesInv, SessionInv, StoreInv, OrphanInv
  <2> QED
    BY <1>a, <2>1, <2>2, <2>3 DEF OnceInv, QueuesInv
<1>12. CASE \/ \E p \in responses : LoseResponse(p)
            \/ \E to \in JobStateWire : OfficeTransitions(to)
            \/ OfficeReleases \/ UNCHANGED vars
  <2>1. UNCHANGED <<intents, applied, moot, pending, seq, flight, orphan, store, requests>>
    BY <1>12 DEF LoseResponse, OfficeTransitions, OfficeReleases, vars, server, device
  <2> QED
    BY <1>1, <1>a, <1>b, <2>1 DEF OnceInv, QueuesInv, StoreInv
<1> QED
  BY <1>2, <1>3, <1>4, <1>5, <1>6, <1>7, <1>8, <1>9, <1>10, <1>11, <1>12
     DEF Next, Answer, Serve

(* No intent takes effect twice, whatever the number of intents, of        *)
(* requests on their way, and of sessions that share the browser's         *)
(* storage.                                                                *)
THEOREM IntentsTakeEffectOnce == Spec => []AppliedAtMostOnce
<1>1. OnceInv => AppliedAtMostOnce
  BY DEF OnceInv, RecordInv
<1> QED
  BY OnceInit, OnceNext, <1>1, PTL DEF Spec

-----------------------------------------------------------------------------
(* What reaches the gateway in the order it was made takes effect in that  *)
(* order, and nothing is lost, while the page is one session's.            *)

(* An id in a queue is an intent's.                                        *)
LEMMA QueuedIds ==
  ASSUME NEW q, Queued(q)
  PROVE  \A k \in DOMAIN q : q[k].id \in Ids
<1>1. q \in Seq(EntryType)
  BY DEF Queued
<1>2. \A k \in DOMAIN q : q[k] \in EntryType
  BY <1>1
<1> QED
  BY <1>2 DEF EntryType

(* An answer to all of a batch takes all of it out of the queue.           *)
LEMMA AllAnswered ==
  ASSUME NEW queue, NEW batch, Queued(queue), Queued(batch), StartsWith(queue, batch),
         NEW outcomes, DOMAIN outcomes = IdsOf(batch),
         NEW rest, rest = Remaining(queue, batch, outcomes)
  PROVE  /\ DOMAIN rest = 1 .. (Len(queue) - Len(batch))
         /\ Len(queue) \in Nat /\ Len(batch) \in 0 .. Len(queue)
         /\ DOMAIN queue = 1 .. Len(queue) /\ DOMAIN batch = 1 .. Len(batch)
         /\ \A a \in DOMAIN rest : rest[a] = queue[Len(batch) + a]
<1> DEFINE S == {e \in Range(batch) : e.id \notin DOMAIN outcomes}
           k == KeepIn(batch, S)
           b == SubSeq(queue, Len(batch) + 1, Len(queue))
<1>1. /\ batch \in Seq(EntryType) /\ queue \in Seq(EntryType)
      /\ DOMAIN batch = 1 .. Len(batch) /\ DOMAIN queue = 1 .. Len(queue)
      /\ Len(batch) \in 0 .. Len(queue) /\ Len(queue) \in Nat
  BY DEF Queued, StartsWith
<1>2. S = {}
  BY DEF IdsOf, Range
<1>3. k = <<>>
  <2>1. k = KeepIn(batch, S)
    OBVIOUS
  <2> HIDE DEF S, k, b
  <2>2. batch \in Seq(EntryType)
    BY <1>1
  <2>3. k \in Seq(EntryType) /\ \A a \in DOMAIN k : k[a] \in S
    BY <2>1, <2>2, KeepInKeeps
  <2>4. DOMAIN k = {}
    BY <1>2, <2>3
  <2> QED
    BY <2>3, <2>4
<1>4. /\ b \in Seq(EntryType) /\ Len(b) = Len(queue) - Len(batch)
      /\ \A i \in 1 .. (Len(queue) - Len(batch)) : b[i] = queue[Len(batch) + i]
  BY <1>1, BehindTheFirst
<1>5. rest = k \o b
  BY DEF Remaining
<1> HIDE DEF k, b, S
<1>6. rest = b
  <2>1. <<>> \o b = b
    BY <1>4, ConcatEmptySeq
  <2> QED
    BY <1>3, <1>5, <2>1
<1> QED
  BY <1>1, <1>4, <1>6

(* What is settled stays settled, and nothing is made before what was      *)
(* there already.                                                          *)
Onward ==
  /\ \A i \in Ids : asks[i] # None => asks'[i] # None
  /\ \A i \in Ids : Settled(i) => Settled(i)'
  /\ \A i, j \in Ids : asks[j] # None => (MadeBefore(i, j)' <=> MadeBefore(i, j))

(* So a batch that fitted goes on fitting.                                 *)
LEMMA FitsOn ==
  ASSUME NEW q, Queued(q), Fits(q), Onward
  PROVE  Fits(q)'
<1>1. \A k \in DOMAIN q : q[k].id \in Ids
  BY QueuedIds
<1> QED
  BY <1>1 DEF Fits, Onward

(* Nothing is made, and the tables stay.                                   *)
LEMMA StaysOnward ==
  ASSUME UNCHANGED <<made, asks, intents, moot>>
  PROVE  /\ Onward /\ \A i : Settled(i)' <=> Settled(i)
         /\ \A i, j : MadeBefore(i, j)' <=> MadeBefore(i, j)
         /\ MadeInv => MadeInv'
         /\ UNCHANGED applied => (AppliedInDeviceOrder => AppliedInDeviceOrder')
<1>1. /\ \A i : Settled(i)' <=> Settled(i)
      /\ \A i, j : MadeBefore(i, j)' <=> MadeBefore(i, j)
  BY DEF Settled, MadeBefore
<1>2. Onward
  BY <1>1 DEF Onward
<1>3. MadeInv => MadeInv'
  BY <1>1 DEF MadeInv
<1>4. UNCHANGED applied => (AppliedInDeviceOrder => AppliedInDeviceOrder')
  BY <1>1 DEF AppliedInDeviceOrder
<1> QED
  BY <1>1, <1>2, <1>3, <1>4

(* A new intent comes after all there are.                                 *)
LEMMA EnqueueMade ==
  ASSUME MadeInv, NEW i \in Ids, NEW m \in Mutations, enqueue(i, m)
  PROVE  /\ MadeInv' /\ Onward
         /\ \A j \in Ids : asks'[j] # None <=> asks[j] # None \/ j = i
         /\ \A j : Settled(j)' <=> Settled(j)
         /\ \A j \in Ids : asks[j] # None => MadeBefore(j, i)'
<1> DEFINE n == Len(made)
<1>1. /\ asks[i] = None /\ made' = Append(made, i) /\ asks' = [asks EXCEPT ![i] = m]
      /\ UNCHANGED <<intents, moot>>
  BY DEF enqueue, server
<1>2. /\ made \in Seq(Ids) /\ n \in Nat /\ DOMAIN made = 1 .. n
      /\ asks \in [Ids -> Mutations \cup {None}]
      /\ \A j \in Ids : asks[j] # None <=> \E p \in DOMAIN made : made[p] = j
      /\ \A p, q \in DOMAIN made : made[p] = made[q] => p = q
  BY DEF MadeInv
<1>3. /\ made' \in Seq(Ids) /\ DOMAIN made' = 1 .. (n + 1) /\ made'[n + 1] = i
      /\ \A p \in DOMAIN made : made'[p] = made[p] /\ p \in DOMAIN made'
      /\ n + 1 \in DOMAIN made'
      /\ \A p \in DOMAIN made' : p = n + 1 \/ p \in DOMAIN made
  BY <1>1, <1>2
<1>4. m # None
  BY OfflineAssumption
<1>5. /\ asks' \in [Ids -> Mutations \cup {None}]
      /\ \A j \in Ids : asks'[j] # None <=> asks[j] # None \/ j = i
  BY <1>1, <1>2, <1>4
<1>6. \A j : Settled(j)' <=> Settled(j)
  BY <1>1 DEF Settled
<1>7. \A p \in DOMAIN made : made[p] # i /\ p < n + 1
  BY <1>1, <1>2
<1>8. ASSUME NEW a \in Ids, NEW b \in Ids, b # i
      PROVE  MadeBefore(a, b)' <=> MadeBefore(a, b)
  <2>1. ASSUME NEW p \in DOMAIN made', NEW q \in DOMAIN made', p < q,
               made'[p] = a, made'[q] = b
        PROVE  p \in DOMAIN made /\ q \in DOMAIN made
    <3>1. q \in DOMAIN made
      BY <1>3, <1>8, <2>1
    <3> QED
      BY <1>2, <1>3, <2>1, <3>1
  <2> QED
    BY <1>3, <2>1 DEF MadeBefore
<1>9. \A j \in Ids : asks[j] # None => MadeBefore(j, i)'
  BY <1>2, <1>3, <1>7 DEF MadeBefore
<1>10. \A j \in Ids : ~Settled(i) /\ (asks[j] # None => j # i)
  BY <1>1 DEF MadeInv
<1>11. Onward
  BY <1>5, <1>6, <1>8, <1>10 DEF Onward
<1>12. MadeInv'
  <2>1. \A p, q \in DOMAIN made' : made'[p] = made'[q] => p = q
    BY <1>2, <1>3, <1>7
  <2>2. \A j \in Ids : asks'[j] # None <=> \E p \in DOMAIN made' : made'[p] = j
    BY <1>2, <1>3, <1>5
  <2>3. \A j \in Ids : Settled(j)' => asks'[j] # None
    BY <1>5, <1>6 DEF MadeInv
  <2>4. \A a, b \in Ids : MadeBefore(a, b)' /\ Settled(b)' => Settled(a)'
    BY <1>6, <1>8, <1>10 DEF MadeInv
  <2> QED
    BY <1>3, <1>5, <2>1, <2>2, <2>3, <2>4 DEF MadeInv
<1> QED
  BY <1>5, <1>6, <1>9, <1>11, <1>12

(* A new entry was made after all that wait before it.                     *)
LEMMA EnqueueSync ==
  ASSUME SyncInv, NEW i \in Ids, NEW m \in Mutations, enqueue(i, m)
  PROVE  SyncInv'
<1>1. /\ UNCHANGED <<flight, orphan, requests, responses, intents, applied, moot>>
      /\ asks[i] = None
  BY DEF enqueue, server
<1>2. QueuesInv /\ RecordInv /\ MadeInv
  BY DEF SyncInv, OnceInv
<1>3. /\ MadeInv' /\ Onward
      /\ \A j \in Ids : asks'[j] # None <=> asks[j] # None \/ j = i
      /\ \A j : Settled(j)' <=> Settled(j)
      /\ \A j \in Ids : asks[j] # None => MadeBefore(j, i)'
  BY <1>2, EnqueueMade
<1>4. /\ QueuesInv' /\ DOMAIN pending' = 1 .. (Len(pending) + 1)
      /\ DOMAIN pending = 1 .. Len(pending) /\ Len(pending) \in Nat
      /\ pending'[Len(pending) + 1].id = i
      /\ \A k \in DOMAIN pending : pending'[k] = pending[k]
      /\ pending' = store'.queue
  BY <1>2, EnqueueQueues
<1>5. OnceInv'
  BY <1>1, <1>2, <1>4 DEF OnceInv, RecordInv, AppliedAtMostOnce
<1>6. \A k \in DOMAIN pending : pending[k].id \in Ids /\ asks[pending[k].id] # None
  BY <1>2, QueuedIds DEF QueuesInv, SessionInv, SyncInv, PendingInv
<1>7. \A k \in DOMAIN pending' : k = Len(pending) + 1 \/ k \in DOMAIN pending
  BY <1>4
<1>8. PendingInv'
  <2>1. \A k \in DOMAIN pending' : asks'[pending'[k].id] # None
    BY <1>3, <1>4, <1>6, <1>7
  <2>2. ASSUME NEW a \in DOMAIN pending', NEW b \in DOMAIN pending', a < b
        PROVE  MadeBefore(pending[a].id, pending[b].id)'
    <3>1. a \in DOMAIN pending /\ pending'[a].id = pending[a].id
      BY <1>4, <1>7, <2>2
    <3>2. CASE b \in DOMAIN pending
      <4>1. MadeBefore(pending[a].id, pending[b].id)
        BY <2>2, <3>1, <3>2 DEF SyncInv, PendingInv
      <4>2. pending'[b].id = pending[b].id
        BY <1>4, <3>2
      <4> DEFINE x == pending[a].id
                 y == pending[b].id
      <4>3. x \in Ids /\ y \in Ids /\ asks[y] # None /\ MadeBefore(x, y)
        BY <1>6, <3>1, <3>2, <4>1
      <4>4. PICK c \in Ids, d \in Ids : c = x /\ d = y
        BY <4>3
      <4>5. MadeBefore(c, d)'
        BY <1>3, <4>3, <4>4 DEF Onward
      <4> QED
        BY <3>1, <4>2, <4>4, <4>5 DEF MadeBefore
    <3>3. CASE b = Len(pending) + 1
      <4>1. PICK c \in Ids : c = pending[a].id
        BY <1>6, <3>1
      <4>2. MadeBefore(c, i)'
        BY <1>3, <1>6, <3>1, <4>1
      <4> QED
        BY <1>4, <3>1, <3>3, <4>1, <4>2 DEF MadeBefore
    <3> QED
      BY <1>7, <3>2, <3>3
  <2>3. UnsettledIsStored'
    <3>1. ASSUME NEW j \in Ids, asks'[j] # None, ~Settled(j)'
          PROVE  \E k \in DOMAIN pending' : pending'[k].id = j
      <4>1. CASE j = i
        BY <1>4, <4>1
      <4>2. CASE j # i
        <5>1. asks[j] # None /\ ~Settled(j)
          BY <1>3, <3>1, <4>2
        <5>2. PICK k \in DOMAIN pending : pending[k].id = j
          BY <5>1 DEF SyncInv, PendingInv, UnsettledIsStored, IdsOf
        <5> QED
          BY <1>4, <5>2
      <4> QED
        BY <4>1, <4>2
    <3> QED
      BY <1>4, <3>1 DEF UnsettledIsStored, IdsOf
  <2> QED
    BY <1>1, <1>4, <2>1, <2>2, <2>3 DEF SyncInv, PendingInv
<1>9. FitInv'
  <2>1. ASSUME NEW k \in DOMAIN requests
        PROVE  Fits(requests[k].batch)'
    <3>1. PICK q : q = requests[k].batch
      OBVIOUS
    <3>2. Queued(q) /\ Fits(q)
      BY <1>2, <3>1 DEF QueuesInv, WireInv, SyncInv, FitInv
    <3>3. Fits(q)'
      BY <1>3, <3>2, FitsOn
    <3> QED
      BY <1>1, <3>1, <3>3 DEF Fits
  <2> QED
    BY <1>1, <2>1 DEF FitInv
<1>10. WaitsInv'
  BY <1>1, <1>3 DEF SyncInv, WaitsInv
<1>11. AppliedInDeviceOrder'
  <2>1. \A p \in DOMAIN applied : applied[p] \in Ids /\ asks[applied[p]] # None
    <3>1. \A p \in DOMAIN applied : applied[p] \in Ids /\ intents[applied[p]] = "applied"
      BY <1>2 DEF RecordInv
    <3>2. "applied" # None
      BY OfflineAssumption DEF Outcomes
    <3> QED
      BY <1>2, <3>1, <3>2 DEF MadeInv, Settled
  <2>2. \A p, q \in DOMAIN applied :
          MadeBefore(applied[q], applied[p])' => MadeBefore(applied[q], applied[p])
    <3>1. ASSUME NEW p \in DOMAIN applied, NEW q \in DOMAIN applied,
                 MadeBefore(applied[q], applied[p])'
          PROVE  MadeBefore(applied[q], applied[p])
      <4>1. PICK c \in Ids, d \in Ids : c = applied[q] /\ d = applied[p]
        BY <2>1
      <4>2. MadeBefore(c, d)'
        BY <1>1, <3>1, <4>1 DEF MadeBefore
      <4> QED
        BY <1>3, <2>1, <4>1, <4>2 DEF Onward
    <3> QED
      BY <3>1
  <2> QED
    BY <1>1, <2>2 DEF SyncInv, AppliedInDeviceOrder
<1> QED
  BY <1>3, <1>5, <1>8, <1>9, <1>10, <1>11 DEF SyncInv

-----------------------------------------------------------------------------
(***************************************************************************)
(* The device's steps, and the order of what it makes.                     *)
(***************************************************************************)

(* Of two intents one was made before the other, and not the other way.    *)
LEMMA MadeInTurn ==
  ASSUME MadeInv, NEW i \in Ids, NEW j \in Ids, MadeBefore(i, j)
  PROVE  asks[i] # None /\ asks[j] # None /\ i # j /\ ~MadeBefore(j, i)
<1>1. /\ made \in Seq(Ids) /\ DOMAIN made = 1 .. Len(made) /\ Len(made) \in Nat
      /\ \A p, q \in DOMAIN made : made[p] = made[q] => p = q
      /\ \A l \in Ids : asks[l] # None <=> \E p \in DOMAIN made : made[p] = l
  BY DEF MadeInv
<1>2. PICK p \in DOMAIN made, q \in DOMAIN made : p < q /\ made[p] = i /\ made[q] = j
  BY DEF MadeBefore
<1>3. i # j
  BY <1>1, <1>2
<1>4. ~MadeBefore(j, i)
  <2>1. ASSUME NEW a \in DOMAIN made, NEW b \in DOMAIN made, a < b,
               made[a] = j, made[b] = i
        PROVE  FALSE
    <3>1. a = q /\ b = p
      BY <1>1, <1>2, <2>1
    <3> QED
      BY <1>1, <1>2, <2>1, <3>1
  <2> QED
    BY <2>1 DEF MadeBefore
<1> QED
  BY <1>1, <1>2, <1>3, <1>4

(* Nothing is made.                                                        *)
LEMMA SyncInit == Init => SyncInv
<1> SUFFICES ASSUME Init PROVE SyncInv
  OBVIOUS
<1>1. OnceInv
  BY OnceInit
<1>2. /\ made = <<>> /\ asks = [i \in Ids |-> None] /\ pending = <<>> /\ orphan = NoOrphan
      /\ store.queue = <<>> /\ requests = <<>> /\ responses = {}
      /\ intents = [i \in Ids |-> None] /\ moot = {} /\ applied = <<>>
  BY DEF Init
<1>3. MadeInv
  BY <1>2 DEF MadeInv, Settled, MadeBefore
<1>4. PendingInv
  BY <1>2 DEF PendingInv, UnsettledIsStored
<1>5. FitInv /\ WaitsInv /\ AppliedInDeviceOrder
  BY <1>2 DEF FitInv, WaitsInv, AppliedInDeviceOrder
<1> QED
  BY <1>1, <1>3, <1>4, <1>5 DEF SyncInv

(* All that a queue holds fits: what is not settled is in it, in order.    *)
LEMMA PendingFits ==
  ASSUME SyncInv
  PROVE  Fits(pending)
<1>1. MadeInv /\ PendingInv /\ Queued(pending)
  BY DEF SyncInv, OnceInv, QueuesInv, SessionInv
<1>2. DOMAIN pending = 1 .. Len(pending) /\ Len(pending) \in Nat
  BY <1>1 DEF Queued
<1>3. \A k \in DOMAIN pending : pending[k].id \in Ids
  BY <1>1, QueuedIds
<1>4. ASSUME NEW k \in DOMAIN pending, NEW i \in Ids, MadeBefore(i, pending[k].id), ~Settled(i)
      PROVE  \E l \in DOMAIN pending : l < k /\ pending[l].id = i
  <2>1. asks[i] # None /\ i # pending[k].id /\ ~MadeBefore(pending[k].id, i)
    BY <1>1, <1>3, <1>4, MadeInTurn
  <2>2. PICK l \in DOMAIN pending : pending[l].id = i
    BY <1>1, <1>4, <2>1 DEF PendingInv, UnsettledIsStored, IdsOf
  <2>3. ~(k < l)
    BY <1>1, <2>1, <2>2 DEF PendingInv
  <2>4. l < k
    BY <1>2, <2>1, <2>2, <2>3
  <2> QED
    BY <2>2, <2>4
<1> QED
  BY <1>1, <1>4 DEF Fits, PendingInv

(* Nothing is made, nothing recorded: the batches that fitted still do.    *)
LEMMA FitsStay ==
  ASSUME UNCHANGED <<made, asks, intents, moot>>, NEW q
  PROVE  Fits(q) => Fits(q)'
<1>1. /\ \A i : Settled(i)' <=> Settled(i)
      /\ \A i, j : MadeBefore(i, j)' <=> MadeBefore(i, j)
  BY StaysOnward
<1> QED
  BY <1>1 DEF Fits

(* What a flush sends is all there is to settle, in the order it was made. *)
LEMMA FlushSendSync ==
  ASSUME SyncInv, FlushSend
  PROVE  SyncInv'
<1>1. /\ UNCHANGED <<made, asks, pending, orphan, store, responses, intents, applied, moot>>
      /\ flight = <<>> /\ pending # <<>> /\ flight' = pending
  BY DEF FlushSend, server
<1>2. QueuesInv /\ RecordInv /\ MadeInv /\ PendingInv /\ FitInv /\ WaitsInv /\ AppliedInDeviceOrder
  BY DEF SyncInv, OnceInv
<1>3. /\ QueuesInv' /\ DOMAIN requests' = 1 .. (Len(requests) + 1)
      /\ DOMAIN requests = 1 .. Len(requests) /\ Len(requests) \in Nat
      /\ requests'[Len(requests) + 1] = [from |-> "session", batch |-> pending]
      /\ \A k \in DOMAIN requests : requests'[k] = requests[k]
  BY <1>2, FlushSendQueues
<1>4. \A k \in DOMAIN requests' : k = Len(requests) + 1 \/ k \in DOMAIN requests
  BY <1>3
<1>5. MadeInv' /\ AppliedInDeviceOrder'
  BY <1>1, <1>2, StaysOnward
<1>6. PendingInv'
  BY <1>1, <1>2 DEF PendingInv, UnsettledIsStored, Settled, MadeBefore
<1>7. FitInv'
  <2>1. ASSUME NEW k \in DOMAIN requests'
        PROVE  Fits(requests[k].batch)'
    <3>1. PICK q : q = requests'[k].batch
      OBVIOUS
    <3>2. Fits(q)
      <4>1. k \in DOMAIN requests => q = requests[k].batch
        BY <1>3, <3>1
      <4>2. k = Len(requests) + 1 => q = pending
        BY <1>3, <3>1
      <4> QED
        BY <1>2, <1>4, <4>1, <4>2, PendingFits DEF FitInv
    <3>3. Fits(q)'
      BY <1>1, <3>2, FitsStay
    <3> QED
      BY <3>1, <3>3 DEF Fits
  <2> QED
    BY <2>1 DEF FitInv
<1>8. WaitsInv'
  <2>1. \A k \in DOMAIN requests : requests[k].from \notin {"session", "orphan"}
    BY <1>1, <1>2 DEF WaitsInv
  <2>2. \A p \in responses : p.from \notin {"session", "orphan"}
    BY <1>1, <1>2 DEF WaitsInv
  <2>3. ASSUME NEW k \in DOMAIN requests'
        PROVE  /\ requests'[k].from # "orphan"
               /\ requests'[k].from = "session" =>
                    /\ requests'[k].batch = flight' /\ flight' # <<>>
                    /\ k = Len(requests) + 1
    BY <1>1, <1>3, <1>4, <2>1
  <2>4. \A k \in DOMAIN requests' :
          /\ requests'[k].from # "orphan"
          /\ requests'[k].from = "session" =>
               /\ requests'[k].batch = flight' /\ flight' # <<>>
               /\ \A l \in DOMAIN requests' : requests'[l].from = "session" => l = k
               /\ \A p \in responses' : p.from # "session"
    BY <1>1, <2>2, <2>3
  <2> QED
    BY <1>1, <2>2, <2>4 DEF WaitsInv
<1>9. OnceInv'
  BY <1>1, <1>2, <1>3 DEF OnceInv, RecordInv, AppliedAtMostOnce
<1> QED
  BY <1>5, <1>6, <1>7, <1>8, <1>9 DEF SyncInv

(* Nothing is made and nothing recorded, every batch on its way was on     *)
(* its way before, and the queue is the one in storage and goes without    *)
(* nothing that is not settled.                                            *)
Quiet ==
  /\ UNCHANGED <<made, asks, intents, applied, moot>>
  /\ \A n \in DOMAIN requests' : \E k \in DOMAIN requests :
       requests'[n].batch = requests[k].batch

(* Steps that make nothing, send nothing and serve nothing.                *)
LEMMA QuietSync ==
  ASSUME SyncInv, Quiet, QueuesInv', PendingInv', WaitsInv'
  PROVE  SyncInv'
<1>1. UNCHANGED <<made, asks, intents, applied, moot>>
  BY DEF Quiet
<1>2. MadeInv' /\ AppliedInDeviceOrder'
  BY <1>1, StaysOnward DEF SyncInv
<1>3. OnceInv'
  BY <1>1 DEF SyncInv, OnceInv, RecordInv, AppliedAtMostOnce
<1>4. ASSUME NEW n \in DOMAIN requests'
      PROVE  Fits(requests[n].batch)'
  <2>1. PICK k \in DOMAIN requests : requests'[n].batch = requests[k].batch
    BY DEF Quiet
  <2>2. PICK q : q = requests[k].batch
    OBVIOUS
  <2>3. Fits(q)'
    BY <1>1, <2>2, FitsStay DEF SyncInv, FitInv
  <2> QED
    BY <2>1, <2>2, <2>3 DEF Fits
<1>5. FitInv'
  BY <1>4 DEF FitInv
<1> QED
  BY <1>2, <1>3, <1>5 DEF SyncInv

(* What is unsettled is stored as long as neither changes.                 *)
LEMMA PendingStays ==
  ASSUME PendingInv, UNCHANGED <<made, asks, pending, orphan, intents, moot>>,
         store'.queue = store.queue
  PROVE  PendingInv'
BY DEF PendingInv, UnsettledIsStored, Settled, MadeBefore

(* A flush that gives up forgets its request, which is served all the      *)
(* same.                                                                   *)
LEMMA FlushFailSync ==
  ASSUME SyncInv, FlushFail
  PROVE  SyncInv'
<1>1. UNCHANGED <<made, asks, pending, orphan, store, intents, applied, moot>>
  BY DEF FlushFail, server
<1>2. QueuesInv' /\ Forgotten("session", "nobody")
  BY FlushFailQueues DEF SyncInv, OnceInv
<1>3. PendingInv'
  BY <1>1, PendingStays DEF SyncInv
<1>4. WaitsInv'
  BY <1>2 DEF Forgotten, SyncInv, WaitsInv
<1>5. Quiet
  BY <1>1, <1>2 DEF Quiet, Forgotten
<1> QED
  BY <1>2, <1>3, <1>4, <1>5, QuietSync

(* A reload finds in storage the queue that was in memory.                 *)
LEMMA ReloadSync ==
  ASSUME SyncInv, Reload
  PROVE  SyncInv'
<1>1. /\ UNCHANGED <<made, asks, store, intents, applied, moot>>
      /\ orphan' = NoOrphan /\ pending' = store.queue
  BY DEF Reload, createOfflineQueue, server
<1>2. /\ QueuesInv' /\ DOMAIN requests' = DOMAIN requests
      /\ \A k \in DOMAIN requests : /\ requests'[k].batch = requests[k].batch
                                    /\ requests'[k].from = "nobody"
      /\ \A p \in responses' : p.from = "nobody"
  BY ReloadQueues DEF SyncInv, OnceInv
<1>3. PendingInv'
  <2>1. UNCHANGED <<pending, orphan>>
    BY <1>1 DEF SyncInv, PendingInv
  <2> QED
    BY <1>1, <2>1, PendingStays DEF SyncInv
<1>4. WaitsInv'
  BY <1>2 DEF WaitsInv
<1>5. Quiet
  BY <1>1, <1>2 DEF Quiet
<1> QED
  BY <1>2, <1>3, <1>4, <1>5, QuietSync

-----------------------------------------------------------------------------
(***************************************************************************)
(* The answers.                                                            *)
(***************************************************************************)

(* An answer takes off the queue what it settled, and nothing else.        *)
LEMMA FlushDoneSync ==
  ASSUME SyncInv, NEW p \in responses, FlushDone(p)
  PROVE  SyncInv'
<1>1. /\ UNCHANGED <<made, asks, orphan, requests, intents, applied, moot>>
      /\ p.from = "session" /\ flight' = <<>> /\ responses' = responses \ {p}
      /\ pending' = Remaining(pending, flight, p.outcomes)
  BY DEF FlushDone, server
<1>2. MadeInv /\ PendingInv /\ WaitsInv /\ QueuesInv
  BY DEF SyncInv, OnceInv
<1>3. QueuesInv' /\ store'.queue = pending'
  BY <1>2, FlushDoneQueues
<1>4. /\ DOMAIN p.outcomes = IdsOf(flight) /\ \A i \in IdsOf(flight) : Settled(i)
      /\ \A k \in DOMAIN requests : requests[k].from \notin {"session", "orphan"}
      /\ \A o \in responses \ {p} : o.from \notin {"session", "orphan"}
  BY <1>1, <1>2 DEF WaitsInv
<1>5. Queued(pending) /\ Queued(flight) /\ StartsWith(pending, flight)
  BY <1>2 DEF QueuesInv, SessionInv
<1>6. /\ DOMAIN pending' = 1 .. (Len(pending) - Len(flight))
      /\ Len(pending) \in Nat /\ Len(flight) \in 0 .. Len(pending)
      /\ DOMAIN pending = 1 .. Len(pending) /\ DOMAIN flight = 1 .. Len(flight)
      /\ \A a \in DOMAIN pending' : pending'[a] = pending[Len(flight) + a]
  BY <1>1, <1>4, <1>5, AllAnswered
<1>7. \A a \in DOMAIN pending' : Len(flight) + a \in DOMAIN pending
  BY <1>6
<1>8. /\ \A i : Settled(i)' <=> Settled(i)
      /\ \A i, j : MadeBefore(i, j)' <=> MadeBefore(i, j)
  BY <1>1, StaysOnward
<1>9. PendingInv'
  <2>1. \A k \in DOMAIN pending' : asks'[pending'[k].id] # None
    BY <1>1, <1>2, <1>6, <1>7 DEF PendingInv
  <2>2. ASSUME NEW a \in DOMAIN pending', NEW b \in DOMAIN pending', a < b
        PROVE  MadeBefore(pending[a].id, pending[b].id)'
    <3>1. Len(flight) + a < Len(flight) + b
      BY <1>6, <2>2
    <3>2. PICK c, d : c = pending'[a].id /\ d = pending'[b].id
      OBVIOUS
    <3>3. MadeBefore(c, d)
      BY <1>2, <1>6, <1>7, <3>1, <3>2 DEF PendingInv
    <3>4. MadeBefore(c, d)'
      BY <1>8, <3>3
    <3> QED
      BY <3>2, <3>4 DEF MadeBefore
  <2>3. ASSUME NEW j \in Ids, asks'[j] # None, ~Settled(j)'
        PROVE  \E k \in DOMAIN pending' : pending'[k].id = j
    <3>1. asks[j] # None /\ ~Settled(j)
      BY <1>1, <1>8, <2>3
    <3>2. PICK k \in DOMAIN pending : pending[k].id = j
      BY <1>2, <3>1 DEF PendingInv, UnsettledIsStored, IdsOf
    <3>3. ~(k <= Len(flight))
      <4>1. k <= Len(flight) => k \in DOMAIN flight /\ flight[k].id = j
        BY <1>5, <1>6, <3>2 DEF StartsWith
      <4>2. k <= Len(flight) => j \in IdsOf(flight)
        BY <4>1 DEF IdsOf
      <4> QED
        BY <1>4, <3>1, <4>2
    <3>4. k - Len(flight) \in DOMAIN pending' /\ Len(flight) + (k - Len(flight)) = k
      BY <1>6, <3>3
    <3> QED
      BY <1>6, <3>2, <3>4
  <2>4. UnsettledIsStored'
    BY <1>3, <2>3 DEF UnsettledIsStored, IdsOf
  <2> QED
    BY <1>1, <1>2, <1>3, <2>1, <2>2, <2>4 DEF PendingInv
<1>10. WaitsInv'
  BY <1>1, <1>4 DEF WaitsInv
<1>11. Quiet
  BY <1>1 DEF Quiet
<1> QED
  BY <1>3, <1>9, <1>10, <1>11, QuietSync

(* Of the requests that are left when one is taken, no two were one.       *)
LEMMA TakenWaits ==
  ASSUME WireInv, NEW k \in DOMAIN requests, requests' = RemoveAt(requests, k)
  PROVE  \A n \in DOMAIN requests', l \in DOMAIN requests' :
           \E a \in DOMAIN requests \ {k}, b \in DOMAIN requests \ {k} :
             /\ requests'[n] = requests[a] /\ requests'[l] = requests[b]
             /\ a = b => n = l
<1>1. \A n \in DOMAIN requests' : \E m \in DOMAIN requests \ {k} :
        m = (IF n < k THEN n ELSE n + 1) /\ requests'[n] = requests[m]
  BY TakenRequest
<1>2. /\ DOMAIN requests = 1 .. Len(requests) /\ Len(requests) \in Nat
      /\ DOMAIN requests' = 1 .. Len(requests') /\ Len(requests') \in Nat
  BY TakenRequest DEF WireInv
<1>3. ASSUME NEW n \in DOMAIN requests', NEW l \in DOMAIN requests'
      PROVE  \E a \in DOMAIN requests \ {k}, b \in DOMAIN requests \ {k} :
               /\ requests'[n] = requests[a] /\ requests'[l] = requests[b]
               /\ a = b => n = l
  <2>1. PICK a \in DOMAIN requests \ {k} :
          a = (IF n < k THEN n ELSE n + 1) /\ requests'[n] = requests[a]
    BY <1>1
  <2>2. PICK b \in DOMAIN requests \ {k} :
          b = (IF l < k THEN l ELSE l + 1) /\ requests'[l] = requests[b]
    BY <1>1
  <2>3. a = b => n = l
    BY <1>2, <2>1, <2>2
  <2> QED
    BY <2>1, <2>2, <2>3
<1> QED
  BY <1>3

(* A lost request takes nothing of the device's with it.                   *)
LEMMA LoseRequestSync ==
  ASSUME SyncInv, NEW k \in DOMAIN requests, LoseRequest(k)
  PROVE  SyncInv'
<1>1. /\ requests' = RemoveAt(requests, k)
      /\ UNCHANGED <<made, asks, intents, applied, moot, pending, seq, flight, orphan, store,
                     responses>>
  BY DEF LoseRequest, server, device
<1>2. QueuesInv
  BY DEF SyncInv, OnceInv
<1>3. \A n \in DOMAIN requests', l \in DOMAIN requests' :
        \E a \in DOMAIN requests \ {k}, b \in DOMAIN requests \ {k} :
          /\ requests'[n] = requests[a] /\ requests'[l] = requests[b]
          /\ a = b => n = l
  BY <1>1, <1>2, TakenWaits DEF QueuesInv
<1>4. WireInv'
  BY <1>1, <1>2, TakenRequest DEF QueuesInv
<1>5. QueuesInv'
  BY <1>1, <1>2, <1>4 DEF QueuesInv, SessionInv, StoreInv, OrphanInv
<1>6. WaitsInv'
  <2>1. ASSUME NEW n \in DOMAIN requests'
        PROVE  /\ requests'[n].from # "orphan"
               /\ requests'[n].from = "session" =>
                    /\ requests'[n].batch = flight /\ flight # <<>>
                    /\ \A p \in responses : p.from # "session"
    BY <1>3 DEF SyncInv, WaitsInv
  <2>2. ASSUME NEW n \in DOMAIN requests', NEW l \in DOMAIN requests',
               requests'[n].from = "session", requests'[l].from = "session"
        PROVE  n = l
    BY <1>3, <2>2 DEF SyncInv, WaitsInv
  <2>3. /\ \A i : Settled(i)' <=> Settled(i)
    BY <1>1, StaysOnward
  <2>4. \A p \in responses :
          /\ p.from # "orphan"
          /\ p.from = "session" =>
               /\ DOMAIN p.outcomes = IdsOf(flight) /\ flight # <<>>
               /\ \A i \in IdsOf(flight) : Settled(i)
               /\ \A o \in responses : o.from = "session" => o = p
    BY DEF SyncInv, WaitsInv
  <2>5. UNCHANGED <<flight, responses>> /\ IdsOf(flight)' = IdsOf(flight)
    BY <1>1 DEF IdsOf
  <2> QED
    BY <2>1, <2>2, <2>3, <2>4, <2>5 DEF WaitsInv
<1>7. PendingInv'
  BY <1>1, PendingStays DEF SyncInv
<1>8. Quiet
  BY <1>1, <1>3 DEF Quiet
<1> QED
  BY <1>5, <1>6, <1>7, <1>8, QuietSync

(* An answer that is lost, an item that is dismissed, what the office does *)
LEMMA ElsewhereSync ==
  ASSUME SyncInv,
         UNCHANGED <<made, asks, intents, applied, moot, pending, seq, flight, orphan, requests>>,
         DOMAIN store' = {"queue", "attention"}, store'.queue = store.queue,
         responses' \subseteq responses
  PROVE  SyncInv'
<1>1. QueuesInv'
  BY DEF SyncInv, OnceInv, QueuesInv, SessionInv, StoreInv, OrphanInv, WireInv
<1>2. PendingInv'
  BY PendingStays DEF SyncInv
<1>3. WaitsInv'
  <2>1. \A i : Settled(i)' <=> Settled(i)
    BY StaysOnward
  <2> QED
    BY <2>1 DEF SyncInv, WaitsInv, IdsOf
<1>4. Quiet
  BY DEF Quiet
<1> QED
  BY <1>1, <1>2, <1>3, <1>4, QuietSync

-----------------------------------------------------------------------------
(***************************************************************************)
(* The gateway serves a batch; the theorems.                               *)
(***************************************************************************)

(* What a served batch settles is what is in it.                           *)
LEMMA ServedSettles ==
  ASSUME SyncInv, NEW k \in DOMAIN requests, ingestSync(k)
  PROVE  /\ \A j \in Ids : Settled(j)' <=> Settled(j) \/ j \in IdsOf(requests[k].batch)
         /\ AppliedInDeviceOrder'
         /\ \E outcomes :
              /\ DOMAIN outcomes = IdsOf(requests[k].batch)
              /\ responses' = IF requests[k].from = "nobody" THEN responses
                              ELSE responses \cup
                                {[from |-> requests[k].from, outcomes |-> outcomes]}
         /\ requests' = RemoveAt(requests, k)
         /\ UNCHANGED <<made, asks, device>>
<1>1. QueuesInv /\ RecordInv /\ MadeInv /\ FitInv /\ AppliedInDeviceOrder
  BY DEF SyncInv, OnceInv
<1>2. PICK batch : batch = requests[k].batch
  OBVIOUS
<1>3. PICK end \in Replayed(batch) :
        /\ Queued(batch) /\ Ruled(end, batch, Len(batch))
        /\ Orderly(batch) => InOrder(end)
        /\ intents' = end.intents /\ applied' = end.applied /\ moot' = end.moot
        /\ responses' = IF requests[k].from = "nobody" THEN responses
                        ELSE responses \cup
                          {[from |-> requests[k].from, outcomes |-> end.outcomes]}
        /\ requests' = RemoveAt(requests, k)
        /\ UNCHANGED <<made, asks, device>>
  BY <1>1, <1>2, ServedBatch
<1>4. Orderly(batch)
  BY <1>1, <1>2 DEF Orderly, FitInv, MadeInv
<1>5. DOMAIN batch = 1 .. Len(batch)
  BY <1>3 DEF Queued
<1>6. \A j \in Ids : Settled(j)' <=> Settled(j) \/ j \in IdsOf(batch)
  <2>1. \A j \in Ids : Settled(j)' <=> SettledIn(end, j)
    BY <1>3 DEF Settled, SettledIn
  <2>2. \A j \in Ids : SettledIn(end, j) <=> Settled(j) \/ \E m \in 1 .. Len(batch) : batch[m].id = j
    BY <1>3 DEF Ruled
  <2>3. \A j : j \in IdsOf(batch) <=> \E m \in 1 .. Len(batch) : batch[m].id = j
    BY <1>5 DEF IdsOf
  <2> QED
    BY <2>1, <2>2, <2>3
<1>7. AppliedInDeviceOrder'
  <2>1. InOrder(end)
    BY <1>3, <1>4
  <2>2. \A i, j : MadeBefore(i, j)' <=> MadeBefore(i, j)
    BY <1>3 DEF MadeBefore
  <2> QED
    BY <1>3, <2>1, <2>2 DEF InOrder, AppliedInDeviceOrder
<1>8. DOMAIN end.outcomes = IdsOf(batch)
  BY <1>3 DEF Ruled
<1> QED
  BY <1>2, <1>3, <1>6, <1>7, <1>8

(* A served batch settles what is in it, in order.                         *)
LEMMA ServedSync ==
  ASSUME SyncInv, NEW k \in DOMAIN requests, ingestSync(k)
  PROVE  SyncInv'
<1>1. QueuesInv /\ RecordInv /\ MadeInv /\ PendingInv /\ FitInv /\ WaitsInv
  BY DEF SyncInv, OnceInv
<1>2. PICK batch, from : batch = requests[k].batch /\ from = requests[k].from
  OBVIOUS
<1>3. /\ \A j \in Ids : Settled(j)' <=> Settled(j) \/ j \in IdsOf(batch)
      /\ AppliedInDeviceOrder' /\ requests' = RemoveAt(requests, k)
      /\ UNCHANGED <<made, asks, device>>
  BY <1>2, ServedSettles
<1>4. PICK outcomes :
        /\ DOMAIN outcomes = IdsOf(batch)
        /\ responses' = IF from = "nobody" THEN responses
                        ELSE responses \cup {[from |-> from, outcomes |-> outcomes]}
  BY <1>2, ServedSettles
<1>5. UNCHANGED <<made, asks, pending, attention, seq, flight, orphan, store>>
  BY <1>3 DEF device
<1>6. Queued(batch) /\ Fits(batch)
  BY <1>1, <1>2 DEF QueuesInv, WireInv, FitInv
<1>7. DOMAIN batch = 1 .. Len(batch) /\ Len(batch) \in Nat /\ \A m \in DOMAIN batch : batch[m].id \in Ids
  BY <1>6, QueuedIds DEF Queued
<1>8. \A i, j : MadeBefore(i, j)' <=> MadeBefore(i, j)
  BY <1>5 DEF MadeBefore
<1>9. Onward
  BY <1>3, <1>5, <1>8 DEF Onward
<1>10. QueuesInv' /\ RecordInv'
  BY <1>1, ServedOnce
<1>11. MadeInv'
  <2>1. ASSUME NEW i \in Ids, Settled(i)'
        PROVE  asks'[i] # None
    <3>1. i \in IdsOf(batch) => asks[i] # None
      BY <1>6 DEF Fits, IdsOf
    <3> QED
      BY <1>1, <1>3, <1>5, <2>1, <3>1 DEF MadeInv
  <2>2. ASSUME NEW i \in Ids, NEW j \in Ids, MadeBefore(i, j)', Settled(j)'
        PROVE  Settled(i)'
    <3>1. MadeBefore(i, j)
      BY <1>8, <2>2
    <3>2. CASE Settled(j)
      BY <1>1, <1>3, <3>1, <3>2 DEF MadeInv
    <3>3. CASE j \in IdsOf(batch)
      <4>1. PICK m \in DOMAIN batch : batch[m].id = j
        BY <3>3 DEF IdsOf
      <4>2. Settled(i) \/ \E l \in DOMAIN batch : l < m /\ batch[l].id = i
        BY <1>6, <3>1, <4>1 DEF Fits
      <4>3. Settled(i) \/ i \in IdsOf(batch)
        BY <4>2 DEF IdsOf
      <4> QED
        BY <1>3, <4>3
    <3> QED
      BY <1>3, <2>2, <3>2, <3>3
  <2> QED
    BY <1>1, <1>5, <2>1, <2>2 DEF MadeInv
<1>12. PendingInv'
  <2>1. \A j \in Ids : asks'[j] # None /\ ~Settled(j)' => j \in IdsOf(store'.queue)
    BY <1>1, <1>3, <1>5 DEF PendingInv, UnsettledIsStored
  <2>2. \A a, b \in DOMAIN pending : a < b => MadeBefore(pending[a].id, pending[b].id)'
    <3>1. \A a, b \in DOMAIN pending : a < b => MadeBefore(pending[a].id, pending[b].id)
      BY <1>1 DEF PendingInv
    <3> QED
      BY <1>5, <3>1 DEF MadeBefore
  <2>3. UnsettledIsStored'
    BY <2>1 DEF UnsettledIsStored, IdsOf
  <2> QED
    BY <1>1, <1>5, <2>2, <2>3 DEF PendingInv
<1>13. \A n \in DOMAIN requests', l \in DOMAIN requests' :
         \E a \in DOMAIN requests \ {k}, b \in DOMAIN requests \ {k} :
           /\ requests'[n] = requests[a] /\ requests'[l] = requests[b]
           /\ a = b => n = l
  BY <1>1, <1>3, TakenWaits DEF QueuesInv
<1>14. FitInv'
  <2>1. ASSUME NEW n \in DOMAIN requests'
        PROVE  Fits(requests[n].batch)'
    <3>1. PICK a \in DOMAIN requests : requests'[n] = requests[a]
      BY <1>13
    <3>2. PICK q : q = requests[a].batch
      OBVIOUS
    <3>3. Queued(q) /\ Fits(q)
      BY <1>1, <3>2 DEF QueuesInv, WireInv, FitInv
    <3>4. Fits(q)'
      BY <1>9, <3>3, FitsOn
    <3> QED
      BY <3>1, <3>2, <3>4 DEF Fits
  <2> QED
    BY <2>1 DEF FitInv
<1>15. from = "nobody" \/ from = "session"
  <2>1. from \in Senders /\ from # "orphan"
    <3>1. requests \in Seq(Request)
      BY <1>1 DEF QueuesInv, WireInv
    <3>2. requests[k] \in Request
      BY <3>1
    <3> QED
      BY <1>1, <1>2, <3>2 DEF Request, WaitsInv
  <2> QED
    BY <2>1 DEF Senders
<1>16. IdsOf(flight)' = IdsOf(flight) /\ flight' = flight
  BY <1>5 DEF IdsOf
<1>17. \A i \in Ids : Settled(i) => Settled(i)'
  BY <1>3
<1>18. Queued(flight) /\ \A i \in IdsOf(flight) : i \in Ids
  <2>1. Queued(flight)
    BY <1>1 DEF QueuesInv, SessionInv
  <2>2. \A m \in DOMAIN flight : flight[m].id \in Ids
    BY <2>1, QueuedIds
  <2> QED
    BY <2>1, <2>2 DEF IdsOf
<1>19. ASSUME NEW n \in DOMAIN requests', NEW l \in DOMAIN requests',
              requests'[n].from = "session"
       PROVE  /\ from = "nobody" /\ requests'[n].batch = flight /\ flight # <<>>
              /\ requests'[l].from = "session" => l = n
              /\ \A p \in responses : p.from # "session"
  <2>1. PICK a \in DOMAIN requests \ {k}, b \in DOMAIN requests \ {k} :
          /\ requests'[n] = requests[a] /\ requests'[l] = requests[b]
          /\ a = b => n = l
    BY <1>13
  <2>2. from # "session"
    BY <1>1, <1>2, <1>19, <2>1 DEF WaitsInv
  <2> QED
    BY <1>1, <1>15, <1>19, <2>1, <2>2 DEF WaitsInv
<1>20. \A n \in DOMAIN requests' : requests'[n].from # "orphan"
  BY <1>1, <1>13 DEF WaitsInv
<1>21. ASSUME NEW p \in responses'
       PROVE  /\ p.from # "orphan"
              /\ p.from = "session" =>
                   /\ DOMAIN p.outcomes = IdsOf(flight) /\ flight # <<>>
                   /\ \A i \in IdsOf(flight) : Settled(i)'
                   /\ \A o \in responses' : o.from = "session" => o = p
  <2>1. CASE from = "nobody"
    <3>1. responses' = responses
      BY <1>4, <2>1
    <3> QED
      BY <1>1, <1>17, <1>18, <1>21, <3>1 DEF WaitsInv
  <2>2. CASE from = "session"
    <3>1. PICK new : /\ new.from = "session" /\ new.outcomes = outcomes
                     /\ responses' = responses \cup {new}
      BY <1>4, <2>2
    <3>2. batch = flight /\ flight # <<>> /\ \A o \in responses : o.from \notin {"session", "orphan"}
      BY <1>1, <1>2, <2>2 DEF WaitsInv
    <3>3. \A i \in IdsOf(flight) : Settled(i)'
      BY <1>3, <1>18, <3>2
    <3> QED
      BY <1>4, <1>21, <3>1, <3>2, <3>3
  <2> QED
    BY <1>15, <2>1, <2>2
<1>22. WaitsInv'
  <2>1. (\A n \in DOMAIN requests' : requests'[n].from = "session" => responses' = responses)
    BY <1>4, <1>19
  <2>2. \A n \in DOMAIN requests' :
          /\ requests'[n].from # "orphan"
          /\ requests'[n].from = "session" =>
               /\ requests'[n].batch = flight' /\ flight' # <<>>
               /\ \A l \in DOMAIN requests' : requests'[l].from = "session" => l = n
               /\ \A p \in responses' : p.from # "session"
    BY <1>16, <1>19, <1>20, <2>1
  <2> QED
    BY <1>16, <1>21, <2>2 DEF WaitsInv
<1> QED
  BY <1>3, <1>10, <1>11, <1>12, <1>14, <1>22 DEF SyncInv, OnceInv

(* Every step of one session keeps the order and loses nothing.            *)
LEMMA SyncNext == ~SignsInAgain /\ SyncInv /\ [Next]_vars => SyncInv'
<1> SUFFICES ASSUME ~SignsInAgain, SyncInv, [Next]_vars PROVE SyncInv'
  OBVIOUS
<1>1. ASSUME NEW i \in Ids, NEW m \in Mutations, enqueue(i, m)
      PROVE  SyncInv'
  BY <1>1, EnqueueSync
<1>2. CASE FlushSend
  BY <1>2, FlushSendSync
<1>3. CASE FlushFail
  BY <1>3, FlushFailSync
<1>4. ASSUME NEW p \in responses, FlushDone(p)
      PROVE  SyncInv'
  BY <1>4, FlushDoneSync
<1>5. ASSUME NEW i \in Ids, dismissAttention(i)
      PROVE  SyncInv'
  <2>1. /\ UNCHANGED <<made, asks, intents, applied, moot, pending, seq, flight, orphan, requests,
                       responses>>
        /\ DOMAIN store' = {"queue", "attention"} /\ store'.queue = store.queue
    BY <1>5 DEF dismissAttention, server
  <2>2. responses' \subseteq responses
    BY <2>1
  <2> QED
    BY <2>1, <2>2, ElsewhereSync
<1>6. CASE Reload
  BY <1>6, ReloadSync
<1>7. CASE SignInAgain
  BY <1>7 DEF SignInAgain
<1>8. CASE OrphanFail
  BY <1>8 DEF OrphanFail, SyncInv, PendingInv
<1>9. ASSUME NEW p \in responses, OrphanDone(p)
      PROVE  SyncInv'
  BY <1>9 DEF OrphanDone, SyncInv, WaitsInv
<1>10. ASSUME NEW k \in DOMAIN requests, ingestSync(k)
       PROVE  SyncInv'
  BY <1>10, ServedSync
<1>11. ASSUME NEW k \in DOMAIN requests, LoseRequest(k)
       PROVE  SyncInv'
  BY <1>11, LoseRequestSync
<1>12. CASE \/ \E p \in responses : LoseResponse(p)
            \/ \E to \in JobStateWire : OfficeTransitions(to)
            \/ OfficeReleases \/ UNCHANGED vars
  <2>1. /\ UNCHANGED <<made, asks, intents, applied, moot, pending, seq, flight, orphan, requests, store>>
        /\ responses' \subseteq responses
    BY <1>12 DEF LoseResponse, OfficeTransitions, OfficeReleases, vars, server, device
  <2>2. DOMAIN store' = {"queue", "attention"} /\ store'.queue = store.queue
    BY <2>1 DEF SyncInv, OnceInv, QueuesInv, StoreInv
  <2> QED
    BY <2>1, <2>2, ElsewhereSync
<1> QED
  BY <1>1, <1>2, <1>3, <1>4, <1>5, <1>6, <1>7, <1>8, <1>9, <1>10, <1>11, <1>12
     DEF Next, Answer, Serve

(* Intents take effect in the order they were made, through every reload   *)
(* and however requests overtake each other, as long as no two sessions'   *)
(* queues write the same storage.                                          *)
THEOREM EffectsFollowTheDevice ==
  ASSUME ~SignsInAgain PROVE Spec => []AppliedInDeviceOrder
<1>1. SyncInv => AppliedInDeviceOrder
  BY DEF SyncInv
<1> QED
  BY SyncInit, SyncNext, <1>1, PTL DEF Spec

(* No reload loses an intent the gateway has not settled.                  *)
THEOREM NothingUnsettledIsLost ==
  ASSUME ~SignsInAgain PROVE Spec => []UnsettledIsStored
<1>1. SyncInv => UnsettledIsStored
  BY DEF SyncInv, PendingInv
<1> QED
  BY SyncInit, SyncNext, <1>1, PTL DEF Spec

-----------------------------------------------------------------------------
(***************************************************************************)
(* The steps of the ledger.                                                *)
(***************************************************************************)

(* The ledger's variables, as the device and the gateway have them.        *)
LedgerStays == UNCHANGED <<made, pending, moot, intents>>

(* Nothing is in the ledger.                                               *)
LEMMA LedgerInit == Init => Ledger!Init
BY DEF Init, Ledger!Init, ToSet, IdsOf

(* An intent is in the ledger once it asks for something.                  *)
LEMMA InTheLedger ==
  ASSUME MadeInv
  PROVE  \A i \in Ids : asks[i] # None <=> i \in ToSet(made)
BY DEF MadeInv, ToSet

(* enqueue makes an intent.                                                *)
LEMMA MakeInLedger ==
  ASSUME SyncInv, NEW i \in Ids, NEW m \in Mutations, enqueue(i, m)
  PROVE  Ledger!Make(i)
<1>1. /\ asks[i] = None /\ made' = Append(made, i) /\ UNCHANGED <<intents, moot>>
  BY DEF enqueue, server
<1>2. MadeInv /\ QueuesInv
  BY DEF SyncInv, OnceInv
<1>3. i \notin ToSet(made)
  BY <1>1, <1>2, InTheLedger
<1>4. ToSet(made)' = ToSet(made) \cup {i}
  <2>1. /\ made \in Seq(Ids) /\ DOMAIN made = 1 .. Len(made) /\ Len(made) \in Nat
    BY <1>2 DEF MadeInv
  <2>2. /\ DOMAIN made' = 1 .. (Len(made) + 1) /\ made'[Len(made) + 1] = i
        /\ \A p \in DOMAIN made : made'[p] = made[p]
    BY <1>1, <2>1
  <2>3. /\ DOMAIN made' = DOMAIN made \cup {Len(made) + 1}
    BY <2>1, <2>2
  <2> QED
    BY <2>2, <2>3 DEF ToSet
<1>5. IdsOf(pending)' = IdsOf(pending) \cup {i}
  <2>1. /\ DOMAIN pending' = 1 .. (Len(pending) + 1)
        /\ DOMAIN pending = 1 .. Len(pending) /\ Len(pending) \in Nat
        /\ pending'[Len(pending) + 1].id = i
        /\ \A k \in DOMAIN pending : pending'[k] = pending[k]
    BY <1>2, EnqueueQueues
  <2>2. /\ DOMAIN pending' = DOMAIN pending \cup {Len(pending) + 1}
    BY <2>1
  <2> QED
    BY <2>1, <2>2 DEF IdsOf
<1> QED
  BY <1>1, <1>3, <1>4, <1>5 DEF Ledger!Make

(* A served batch rules on some intents that had no ruling.                *)
LEMMA RuleInLedger ==
  ASSUME SyncInv, SyncInv', NEW k \in DOMAIN requests, ingestSync(k)
  PROVE  Ledger!Rule
<1>1. QueuesInv /\ RecordInv /\ MadeInv /\ RecordInv' /\ MadeInv'
  BY DEF SyncInv, OnceInv
<1>2. /\ \A j \in Ids : intents[j] # None => intents'[j] = intents[j]
      /\ moot \subseteq moot'
      /\ UNCHANGED <<made, asks, pending>>
  BY <1>1, ServedBatch DEF Ruled, device
<1>3. intents' \in [Ids -> Rulings \cup {None}] /\ moot' \subseteq Ids
  BY <1>1 DEF RecordInv
<1>4. \A i \in Ids : intents'[i] # None \/ i \in moot' => i \in ToSet(made)
  <2>1. \A i \in Ids : intents'[i] # None \/ i \in moot' => asks'[i] # None
    BY <1>1 DEF MadeInv, Settled
  <2> QED
    BY <1>1, <1>2, <2>1, InTheLedger
<1>5. ASSUME NEW i \in Ids, intents'[i] # intents[i]
      PROVE  i \in ToSet(made) /\ intents[i] = None /\ intents'[i] \in Rulings
  BY <1>2, <1>3, <1>4, <1>5
<1>6. moot' \in SUBSET ToSet(made)
  BY <1>3, <1>4
<1>7. ToSet(made)' = ToSet(made) /\ IdsOf(pending)' = IdsOf(pending)
  BY <1>2 DEF ToSet, IdsOf
<1> QED
  BY <1>2, <1>3, <1>5, <1>6, <1>7 DEF Ledger!Rule, Rulings

(* An answer lets the device forget what is ruled on.                      *)
LEMMA ForgetInLedger ==
  ASSUME SyncInv, SyncInv', NEW p \in responses, FlushDone(p)
  PROVE  Ledger!Forget
<1>1. /\ UNCHANGED <<made, asks, intents, moot>>
      /\ pending' = Remaining(pending, flight, p.outcomes)
  BY DEF FlushDone, server
<1>2. /\ Queued(pending) /\ PendingInv /\ PendingInv'
      /\ \A a \in DOMAIN pending' : \E i \in DOMAIN pending : pending'[a] = pending[i]
  BY <1>1, RemainingIsQueued DEF SyncInv, OnceInv, QueuesInv, SessionInv
<1>3. IdsOf(pending)' \subseteq IdsOf(pending)
  BY <1>2 DEF IdsOf
<1>4. ASSUME NEW i \in IdsOf(pending), i \notin IdsOf(pending)'
      PROVE  intents[i] # None \/ i \in moot
  <2>1. i \in Ids /\ asks[i] # None
    BY <1>2, <1>4, QueuedIds DEF IdsOf, PendingInv
  <2>2. asks'[i] # None /\ ~Settled(i)' => i \in IdsOf(store.queue)'
    BY <1>2, <2>1 DEF PendingInv, UnsettledIsStored
  <2>3. IdsOf(store.queue)' = IdsOf(pending)'
    BY <1>2 DEF PendingInv
  <2>4. Settled(i)'
    BY <1>1, <1>4, <2>1, <2>2, <2>3
  <2> QED
    BY <1>1, <2>4 DEF Settled
<1>5. ToSet(made)' = ToSet(made)
  BY <1>1 DEF ToSet
<1> QED
  BY <1>1, <1>3, <1>4, <1>5 DEF Ledger!Forget

(* Every step is a step of the ledger, or none.                            *)
LEMMA LedgerNext ==
  ~SignsInAgain /\ SyncInv /\ SyncInv' /\ [Next]_vars => [Ledger!Next]_(Ledger!vars)
<1> SUFFICES ASSUME ~SignsInAgain, SyncInv, SyncInv', [Next]_vars
             PROVE  Ledger!Next \/ UNCHANGED Ledger!vars
  OBVIOUS
<1>a. LedgerStays => UNCHANGED Ledger!vars
  BY DEF LedgerStays, Ledger!vars, ToSet, IdsOf
<1>1. ASSUME NEW i \in Ids, NEW m \in Mutations, enqueue(i, m)
      PROVE  Ledger!Next
  BY <1>1, MakeInLedger DEF Ledger!Next
<1>2. ASSUME NEW p \in responses, FlushDone(p)
      PROVE  Ledger!Next
  BY <1>2, ForgetInLedger DEF Ledger!Next
<1>3. ASSUME NEW k \in DOMAIN requests, ingestSync(k)
      PROVE  Ledger!Next
  BY <1>3, RuleInLedger DEF Ledger!Next
<1>4. CASE Reload
  BY <1>4, <1>a DEF Reload, createOfflineQueue, server, LedgerStays, SyncInv, PendingInv
<1>5. CASE \/ SignInAgain \/ OrphanFail
           \/ \E p \in responses : OrphanDone(p)
  BY <1>5 DEF SignInAgain, OrphanFail, OrphanDone, SyncInv, PendingInv, WaitsInv
<1>6. CASE \/ FlushSend \/ FlushFail
           \/ \E i \in Ids : dismissAttention(i)
           \/ \E k \in DOMAIN requests : LoseRequest(k)
           \/ \E p \in responses : LoseResponse(p)
           \/ \E to \in JobStateWire : OfficeTransitions(to)
           \/ OfficeReleases \/ UNCHANGED vars
  BY <1>6, <1>a DEF FlushSend, FlushFail, dismissAttention, LoseRequest, LoseResponse,
       OfficeTransitions, OfficeReleases, vars, server, device, LedgerStays
<1> QED
  BY <1>1, <1>2, <1>3, <1>4, <1>5, <1>6 DEF Next, Answer, Serve

(* The device and the gateway together keep the ledger's promise: one      *)
(* ruling on each intent, never changed, and no intent forgotten that was  *)
(* not ruled on.                                                           *)
THEOREM DeviceAndGatewayKeepTheLedger ==
  ASSUME ~SignsInAgain PROVE Spec => ImplementsLedger
BY SyncInit, SyncNext, LedgerInit, LedgerNext, PTL DEF Spec, ImplementsLedger, Ledger!Spec
=============================================================================

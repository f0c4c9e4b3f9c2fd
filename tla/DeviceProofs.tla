--------------------------- MODULE DeviceProofs -----------------------------
(***************************************************************************)
(* The device's completion outbox, and what a surface holds of a read, for *)
(* any number of jobs, photos, submissions, reloads and fetches.           *)
(***************************************************************************)
EXTENDS WrapUps, ResourceStore, ModelLemmas

-----------------------------------------------------------------------------
(***************************************************************************)
(* WrapUps. A flush works through a list it made when it began, while      *)
(* entries come and go: what is still on it waits in the outbox under the  *)
(* same number (TodoWaits), and the call it waits for is about the head of *)
(* it (CallIsTheHeads).                                                    *)
(***************************************************************************)

EntryType == [job : Works, no : Nat \ {0}, sent : SUBSET Shots,
              refused : {"no", "lost", "refused", "storage_unavailable"}]

TodoType == [job : Works, no : Nat \ {0}]

DeviceTyped ==
  /\ entries \in Seq(EntryType) /\ submits \in [Works -> Nat]
  /\ draft \in [Works -> BOOLEAN]
  /\ DOMAIN flush = {"on", "todo", "call", "answer"}
  /\ flush.todo \in Seq(TodoType)

GatewayTyped ==
  /\ DOMAIN office = {"got", "report", "held"}
  /\ office.report \in [Works -> Nat]
  /\ \A c \in wire : /\ c.op = "wrap" => c.job \in Works /\ c.no \in Nat \ {0}
                     /\ c.op = "attach" => c.shot \in Shots
                     /\ c.op \in {"attach", "wrap"}

(* A report the office has is there with all it names.                     *)
ReportedIsWhole ==
  \A j \in Works : office.report[j] > 0 => ShotsOf[j] \subseteq office.got

(* A job has one entry, and none while it has a draft.                     *)
OneEntryEach ==
  \A a, b \in DOMAIN entries : entries[a].job = entries[b].job => a = b

DraftOrEntry ==
  \A a \in DOMAIN entries : ~draft[entries[a].job]

(* What a flush has still to send waits in the outbox.                     *)
TodoWaits ==
  \A n \in DOMAIN flush.todo : \E a \in DOMAIN entries :
    /\ entries[a].job = flush.todo[n].job /\ entries[a].no = flush.todo[n].no
    /\ entries[a].refused = "no"

TodoDiffers ==
  \A m, n \in DOMAIN flush.todo : flush.todo[m].job = flush.todo[n].job => m = n

(* The call a flush waits for is about the first of them, and one that is  *)
(* answered well was done.                                                 *)
CallIsTheHeads ==
  /\ ~Awaits => flush.answer = "none"
  /\ Awaits =>
       /\ flush.todo # <<>> /\ flush.call.job = Head(flush.todo).job
       /\ flush.call.op \in {"attach", "wrap"}
       /\ flush.call.op = "attach" => flush.call.shot \in Shots
       /\ flush.answer \in {"none", "ok", "refused", "storage_unavailable"}
       /\ flush.call.op = "wrap" /\ flush.answer = "ok" =>
            office.report[flush.call.job] > 0

WrapInv ==
  /\ DeviceTyped /\ GatewayTyped /\ ReportedIsWhole /\ OneEntryEach /\ DraftOrEntry
  /\ TodoWaits /\ TodoDiffers /\ CallIsTheHeads /\ CompletionIsKept

(* Nothing is submitted.                                                   *)
LEMMA WrapInitInv == WrapInit => WrapInv
BY DEF WrapInit, WrapInv, DeviceTyped, GatewayTyped, ReportedIsWhole, OneEntryEach,
   DraftOrEntry, TodoWaits, TodoDiffers, CallIsTheHeads, CompletionIsKept, Awaits,
   NotFlushing, NoCall

(* What an entry holds.                                                    *)
LEMMA EntryFields ==
  ASSUME WrapInv
  PROVE  /\ DOMAIN entries = 1 .. Len(entries) /\ Len(entries) \in Nat
         /\ \A i \in DOMAIN entries : entries[i] \in EntryType /\ entries[i].job \in Works
<1>1. entries \in Seq(EntryType)
  BY DEF WrapInv, DeviceTyped
<1>2. \A i \in DOMAIN entries : entries[i] \in EntryType
  BY <1>1
<1> QED
  BY <1>1, <1>2 DEF EntryType

(* What is left of the outbox when it is filtered.                         *)
LEMMA KeptEntries ==
  ASSUME WrapInv, NEW S, NEW rest, rest = KeepIn(entries, S)
  PROVE  /\ rest \in Seq(EntryType) /\ Len(rest) \in Nat /\ DOMAIN rest = 1 .. Len(rest)
         /\ \A a \in DOMAIN rest :
              rest[a] \in S /\ \E i \in DOMAIN entries : rest[a] = entries[i]
         /\ \A i \in DOMAIN entries : entries[i] \in S =>
              \E a \in DOMAIN rest : rest[a] = entries[i]
         /\ \A a, b \in DOMAIN rest : rest[a].job = rest[b].job => a = b
<1>1. entries \in Seq(EntryType)
  BY DEF WrapInv, DeviceTyped
<1>2. rest \in Seq(EntryType) /\ Len(rest) \in Nat /\ DOMAIN rest = 1 .. Len(rest)
  BY <1>1, KeepInKeeps
<1>3. /\ \A a \in DOMAIN rest :
           rest[a] \in S /\ \E i \in DOMAIN entries : rest[a] = entries[i]
      /\ \A i \in DOMAIN entries : entries[i] \in S =>
           \E a \in DOMAIN rest : rest[a] = entries[i]
  BY <1>1, KeepInKeeps
<1>4. \A a, b \in DOMAIN rest : a < b =>
        \E i, k \in DOMAIN entries :
          i < k /\ rest[a] = entries[i] /\ rest[b] = entries[k]
  BY <1>1, KeepInKeeps
<1>5. ASSUME NEW a \in DOMAIN rest, NEW b \in DOMAIN rest, a < b
      PROVE  rest[a].job # rest[b].job
  <2>1. PICK i \in DOMAIN entries, k \in DOMAIN entries :
          i < k /\ rest[a] = entries[i] /\ rest[b] = entries[k]
    BY <1>4, <1>5
  <2>2. i # k
    BY <1>1, <2>1
  <2> QED
    BY <2>1, <2>2 DEF WrapInv, OneEntryEach
<1>6. \A a, b \in DOMAIN rest : rest[a].job = rest[b].job => a = b
  <2>1. \A a, b \in DOMAIN rest : a < b \/ b < a \/ a = b
    BY <1>2
  <2> QED
    BY <1>5, <2>1
<1> QED
  BY <1>2, <1>3, <1>6

(* Taking out the entries of a job takes out no other.                     *)
LEMMA WithoutKeeps ==
  ASSUME WrapInv, NEW j \in Works, NEW rest, rest = Without(j)
  PROVE  /\ rest \in Seq(EntryType) /\ Len(rest) \in Nat /\ DOMAIN rest = 1 .. Len(rest)
         /\ \A a \in DOMAIN rest :
              rest[a].job # j /\ \E i \in DOMAIN entries : rest[a] = entries[i]
         /\ \A i \in DOMAIN entries : entries[i].job # j =>
              \E a \in DOMAIN rest : rest[a] = entries[i]
         /\ \A a, b \in DOMAIN rest : rest[a].job = rest[b].job => a = b
<1> DEFINE S == {e \in Range(entries) : e.job # j}
<1>1. rest = KeepIn(entries, S)
  BY DEF Without
<1>2. /\ \A e \in S : e.job # j
      /\ \A i \in DOMAIN entries : entries[i].job # j => entries[i] \in S
  BY DEF Range
<1> HIDE DEF S
<1> QED
  BY <1>1, <1>2, KeptEntries

-----------------------------------------------------------------------------
(* The technician's steps.                                                 *)
LEMMA SubmitInv ==
  ASSUME WrapInv, NEW j \in Works, submit(j)
  PROVE  WrapInv'
<1> DEFINE new == [job |-> j, no |-> submits[j] + 1, sent |-> {}, refused |-> "no"]
           rest == Without(j)
<1>1. /\ draft[j] /\ draft' = [draft EXCEPT ![j] = FALSE]
      /\ submits' = [submits EXCEPT ![j] = @ + 1]
      /\ entries' = Append(rest, new)
      /\ UNCHANGED <<media, flush, reloads, wire, office>>
  BY DEF submit
<1>2. new \in EntryType /\ new.job = j
  BY DEF EntryType, WrapInv, DeviceTyped
<1>3. /\ rest \in Seq(EntryType) /\ Len(rest) \in Nat /\ DOMAIN rest = 1 .. Len(rest)
      /\ \A a \in DOMAIN rest : rest[a].job # j /\ \E i \in DOMAIN entries : rest[a] = entries[i]
      /\ \A i \in DOMAIN entries : entries[i].job # j =>
           \E a \in DOMAIN rest : rest[a] = entries[i]
      /\ \A a, b \in DOMAIN rest : rest[a].job = rest[b].job => a = b
  BY WithoutKeeps
<1> HIDE DEF new, rest
<1>4. /\ entries' \in Seq(EntryType)
      /\ DOMAIN entries' = 1 .. (Len(rest) + 1)
      /\ \A a \in DOMAIN rest : a \in DOMAIN entries' /\ entries'[a] = rest[a]
      /\ \A a \in DOMAIN entries' : a \in DOMAIN rest \/ a = Len(rest) + 1
      /\ Len(rest) + 1 \in DOMAIN entries' /\ entries'[Len(rest) + 1] = new
  BY <1>1, <1>2, <1>3
<1>5. DeviceTyped' /\ GatewayTyped' /\ ReportedIsWhole'
  BY <1>1, <1>4 DEF WrapInv, DeviceTyped, GatewayTyped, ReportedIsWhole
<1>6. OneEntryEach'
  BY <1>2, <1>3, <1>4 DEF OneEntryEach
<1>7. \A k \in Works \ {j} : draft'[k] = draft[k]
  BY <1>1 DEF WrapInv, DeviceTyped
<1>8. DraftOrEntry'
  <2>1. \A i \in DOMAIN entries : entries[i].job \in Works
    BY EntryFields
  <2> QED
    BY <1>1, <1>2, <1>3, <1>4, <1>7, <2>1 DEF WrapInv, DraftOrEntry, DeviceTyped
<1>9. TodoWaits'
  <2>1. \A i \in DOMAIN entries : entries[i].job # j
    BY <1>1 DEF WrapInv, DraftOrEntry
  <2>2. \A i \in DOMAIN entries : \E a \in DOMAIN entries' : entries'[a] = entries[i]
    BY <1>3, <1>4, <2>1
  <2> QED
    BY <1>1, <2>2 DEF WrapInv, TodoWaits
<1>10. TodoDiffers' /\ CallIsTheHeads'
  BY <1>1 DEF WrapInv, TodoDiffers, CallIsTheHeads, Awaits
<1>11. CompletionIsKept'
  <2>1. ASSUME NEW k \in Works, submits'[k] > 0
        PROVE  \/ draft'[k] \/ \E e \in Range(entries') : e.job = k
               \/ office'.report[k] > 0 /\ ShotsOf[k] \subseteq office'.got
    <3>1. CASE k = j
      BY <1>2, <1>4, <3>1 DEF Range
    <3>2. CASE k # j
      <4>1. submits[k] > 0 /\ draft'[k] = draft[k]
        BY <1>1, <1>7, <2>1, <3>2 DEF WrapInv, DeviceTyped
      <4>2. ASSUME NEW e \in Range(entries), e.job = k
            PROVE  e \in Range(entries')
        BY <1>3, <1>4, <3>2, <4>2 DEF Range
      <4> QED
        BY <1>1, <4>1, <4>2 DEF WrapInv, CompletionIsKept
    <3> QED
      BY <3>1, <3>2
  <2> QED
    BY <2>1 DEF CompletionIsKept
<1> QED
  BY <1>5, <1>6, <1>8, <1>9, <1>10, <1>11 DEF WrapInv

(* Only a refused entry is reopened, and none of those is to be sent.      *)
LEMMA ReopenInv ==
  ASSUME WrapInv, NEW j \in Works, reopen(j)
  PROVE  WrapInv'
<1>1. /\ \E e \in Range(entries) : e.job = j /\ e.refused # "no"
      /\ draft' = [draft EXCEPT ![j] = TRUE]
      /\ entries' = Without(j)
      /\ UNCHANGED <<submits, media, flush, reloads, wire, office>>
  BY DEF reopen
<1>2. /\ entries' \in Seq(EntryType) /\ DOMAIN entries' = 1 .. Len(entries')
      /\ \A a \in DOMAIN entries' :
           entries'[a].job # j /\ \E i \in DOMAIN entries : entries'[a] = entries[i]
      /\ \A i \in DOMAIN entries : entries[i].job # j =>
           \E a \in DOMAIN entries' : entries'[a] = entries[i]
      /\ \A a, b \in DOMAIN entries' : entries'[a].job = entries'[b].job => a = b
  BY <1>1, WithoutKeeps
<1>3. DeviceTyped' /\ GatewayTyped' /\ ReportedIsWhole' /\ OneEntryEach'
  BY <1>1, <1>2 DEF WrapInv, DeviceTyped, GatewayTyped, ReportedIsWhole, OneEntryEach
<1>4. draft'[j] /\ \A k \in Works \ {j} : draft'[k] = draft[k]
  BY <1>1 DEF WrapInv, DeviceTyped
<1>5. DraftOrEntry'
  <2>1. \A i \in DOMAIN entries : entries[i].job \in Works
    BY EntryFields
  <2> QED
    BY <1>2, <1>4, <2>1 DEF WrapInv, DraftOrEntry
<1>6. TodoWaits'
  <2>1. \A i \in DOMAIN entries : entries[i].refused = "no" => entries[i].job # j
    BY <1>1 DEF WrapInv, OneEntryEach, Range
  <2> QED
    BY <1>1, <1>2, <2>1 DEF WrapInv, TodoWaits
<1>7. TodoDiffers' /\ CallIsTheHeads'
  BY <1>1 DEF WrapInv, TodoDiffers, CallIsTheHeads, Awaits
<1>8. CompletionIsKept'
  <2>1. ASSUME NEW e \in Range(entries), e.job # j
        PROVE  e \in Range(entries')
    BY <1>2, <2>1 DEF Range
  <2> QED
    BY <1>1, <1>4, <2>1 DEF WrapInv, CompletionIsKept
<1> QED
  BY <1>3, <1>5, <1>6, <1>7, <1>8 DEF WrapInv

-----------------------------------------------------------------------------
(* The flush.                                                              *)

(* The entry at the head of what is to be sent.                            *)
LEMMA EntryIsTheHeads ==
  ASSUME WrapInv, flush.todo # <<>>
  PROVE  /\ \E a \in DOMAIN entries : Entry = entries[a]
         /\ Entry \in EntryType /\ Entry.job = Head(flush.todo).job
         /\ Entry.refused = "no"
<1>1. /\ flush.todo \in Seq(TodoType) /\ 1 \in DOMAIN flush.todo
      /\ Head(flush.todo) = flush.todo[1] /\ Head(flush.todo) \in TodoType
  BY DEF WrapInv, DeviceTyped
<1>2. PICK a \in DOMAIN entries :
        /\ entries[a].job = Head(flush.todo).job /\ entries[a].no = Head(flush.todo).no
        /\ entries[a].refused = "no"
  BY <1>1 DEF WrapInv, TodoWaits
<1>3. [job |-> entries[a].job, no |-> entries[a].no] = Head(flush.todo)
  BY <1>1, <1>2 DEF TodoType
<1>4. /\ Entry \in Range(entries)
      /\ [job |-> Entry.job, no |-> Entry.no] = Head(flush.todo)
  BY <1>3 DEF Entry, Range
<1>5. PICK b \in DOMAIN entries : Entry = entries[b]
  BY <1>4 DEF Range
<1>6. Entry.job = Head(flush.todo).job
  BY <1>4
<1>7. a = b
  BY <1>2, <1>5, <1>6 DEF WrapInv, OneEntryEach
<1> QED
  BY <1>2, <1>5, <1>6, <1>7, EntryFields

(* An entry is replaced by one of the same job, and the others stay.       *)
LEMMA ReplaceKeeps ==
  ASSUME WrapInv, NEW a \in DOMAIN entries, NEW to \in EntryType,
         to.job = entries[a].job, entries' = Replace(entries[a], to)
  PROVE  /\ entries' \in Seq(EntryType) /\ DOMAIN entries' = DOMAIN entries
         /\ entries'[a] = to
         /\ \A i \in DOMAIN entries \ {a} : entries'[i] = entries[i]
         /\ \A i \in DOMAIN entries : entries'[i].job = entries[i].job
<1>1. /\ DOMAIN entries = 1 .. Len(entries) /\ Len(entries) \in Nat
      /\ \A i \in DOMAIN entries : entries[i] \in EntryType
  BY EntryFields
<1>2. entries' = [i \in 1 .. Len(entries) |->
                    IF entries[i] = entries[a] THEN to ELSE entries[i]]
  BY DEF Replace
<1>3. \A i \in DOMAIN entries \ {a} : entries[i] # entries[a]
  BY DEF WrapInv, OneEntryEach
<1>4. entries' \in Seq(EntryType)
  <2>1. entries' \in [1 .. Len(entries) -> EntryType]
    BY <1>1, <1>2
  <2> QED
    BY <1>1, <2>1
<1> QED
  BY <1>1, <1>2, <1>3, <1>4

(* The flush goes on to the next entry, and the outbox keeps all but what  *)
(* was at the head.                                                        *)
LEMMA GoesOnInv ==
  ASSUME WrapInv, flush.todo # <<>>, Goes(Tail(flush.todo)),
         UNCHANGED <<draft, submits, wire, office>>,
         entries' \in Seq(EntryType),
         \A b \in DOMAIN entries' : \E i \in DOMAIN entries : entries'[b].job = entries[i].job,
         \A i \in DOMAIN entries : entries[i].job # Head(flush.todo).job =>
           \E b \in DOMAIN entries' : entries'[b] = entries[i],
         OneEntryEach', CompletionIsKept'
  PROVE  WrapInv'
<1> DEFINE todo == flush.todo
<1>1. /\ todo \in Seq(TodoType) /\ Len(todo) \in Nat /\ Len(todo) # 0
      /\ Tail(todo) \in Seq(TodoType)
      /\ DOMAIN todo = 1 .. Len(todo) /\ DOMAIN Tail(todo) = 1 .. Len(todo) - 1
      /\ \A n \in 1 .. Len(todo) - 1 : n + 1 \in DOMAIN todo /\ Tail(todo)[n] = todo[n + 1]
      /\ Head(todo) = todo[1] /\ 1 \in DOMAIN todo
  BY DEF WrapInv, DeviceTyped
<1>2. /\ DOMAIN flush' = {"on", "todo", "call", "answer"}
      /\ flush'.todo = Tail(todo) /\ flush'.call = NoCall /\ flush'.answer = "none"
  BY DEF Goes, WrapInv, DeviceTyped
<1> HIDE DEF todo
<1>3. DeviceTyped' /\ GatewayTyped' /\ ReportedIsWhole' /\ CallIsTheHeads'
  BY <1>1, <1>2 DEF WrapInv, DeviceTyped, GatewayTyped, ReportedIsWhole,
     CallIsTheHeads, Awaits
<1>4. DraftOrEntry'
  BY DEF WrapInv, DraftOrEntry
<1>5. \A m, n \in 1 .. Len(todo) - 1 : todo[m + 1].job = todo[n + 1].job => m = n
  <2>1. \A m, n \in 1 .. Len(todo) - 1 : todo[m + 1].job = todo[n + 1].job => m + 1 = n + 1
    BY <1>1 DEF WrapInv, TodoDiffers, todo
  <2> QED
    BY <2>1
<1>6. TodoDiffers'
  <2>1. /\ DOMAIN flush'.todo = 1 .. Len(todo) - 1
        /\ \A n \in 1 .. Len(todo) - 1 : flush'.todo[n] = todo[n + 1]
    BY <1>1, <1>2
  <2> QED
    BY <1>5, <2>1 DEF TodoDiffers
<1>7. TodoWaits'
  <2>1. ASSUME NEW n \in 1 .. Len(todo) - 1
        PROVE  \E b \in DOMAIN entries' :
                 /\ entries'[b].job = todo[n + 1].job /\ entries'[b].no = todo[n + 1].no
                 /\ entries'[b].refused = "no"
    <3>1. PICK i \in DOMAIN entries :
            /\ entries[i].job = todo[n + 1].job /\ entries[i].no = todo[n + 1].no
            /\ entries[i].refused = "no"
      BY <1>1 DEF WrapInv, TodoWaits, todo
    <3>2. todo[n + 1].job # Head(todo).job
      <4>1. n + 1 # 1
        OBVIOUS
      <4> QED
        BY <1>1, <4>1 DEF WrapInv, TodoDiffers, todo
    <3> QED
      BY <3>1, <3>2 DEF todo
  <2> QED
    BY <1>1, <1>2, <2>1 DEF TodoWaits
<1> QED
  BY <1>3, <1>4, <1>6, <1>7 DEF WrapInv

(* What refuses the entry at the head.                                     *)
LEMMA RefusedInv ==
  ASSUME WrapInv, flush.todo # <<>>, Goes(Tail(flush.todo)),
         UNCHANGED <<draft, submits, wire, office>>,
         NEW why \in {"lost", "refused", "storage_unavailable"},
         entries' = Replace(Entry, [Entry EXCEPT !.refused = why])
  PROVE  WrapInv'
<1>1. PICK a \in DOMAIN entries :
        /\ Entry = entries[a] /\ entries[a] \in EntryType
        /\ entries[a].job = Head(flush.todo).job
  BY EntryIsTheHeads
<1> DEFINE to == [entries[a] EXCEPT !.refused = why]
<1>2. to \in EntryType /\ to.job = entries[a].job
  BY <1>1 DEF EntryType
<1>3. entries' = Replace(entries[a], to)
  BY <1>1
<1> HIDE DEF to
<1>4. /\ entries' \in Seq(EntryType) /\ DOMAIN entries' = DOMAIN entries
      /\ \A i \in DOMAIN entries \ {a} : entries'[i] = entries[i]
      /\ \A i \in DOMAIN entries : entries'[i].job = entries[i].job
  BY <1>2, <1>3, ReplaceKeeps
<1>5. OneEntryEach'
  BY <1>4 DEF WrapInv, OneEntryEach
<1>6. CompletionIsKept'
  BY <1>4 DEF WrapInv, CompletionIsKept, Range
<1> QED
  BY <1>1, <1>4, <1>5, <1>6, GoesOnInv

(* The report has been taken: its entry leaves, and the office has it.     *)
LEMMA SettledInv ==
  ASSUME WrapInv, flush.todo # <<>>, Awaits, flush.call.op = "wrap", flush.answer = "ok",
         Goes(Tail(flush.todo)), UNCHANGED <<draft, submits, wire, office>>,
         NEW S, \A e : e \in S <=> e \in Range(entries) /\ e # Entry,
         NEW rest, rest = KeepIn(entries, S), entries' = rest
  PROVE  WrapInv'
<1>1. PICK a \in DOMAIN entries :
        Entry = entries[a] /\ entries[a].job = Head(flush.todo).job
  BY EntryIsTheHeads
<1>b. /\ rest \in Seq(EntryType)
      /\ \A b \in DOMAIN rest :
           /\ rest[b] \in S
           /\ \E i \in DOMAIN entries : rest[b] = entries[i]
      /\ \A i \in DOMAIN entries : entries[i] \in S =>
           \E b \in DOMAIN rest : rest[b] = entries[i]
      /\ \A b, c \in DOMAIN rest : rest[b].job = rest[c].job => b = c
  BY KeptEntries
<1>2. /\ entries' \in Seq(EntryType)
      /\ \A b \in DOMAIN entries' : \E i \in DOMAIN entries : entries'[b] = entries[i]
      /\ \A i \in DOMAIN entries : entries[i] \in S =>
           \E b \in DOMAIN entries' : entries'[b] = entries[i]
      /\ \A b, c \in DOMAIN entries' : entries'[b].job = entries'[c].job => b = c
  BY <1>b
<1>3. ASSUME NEW i \in DOMAIN entries, entries[i].job # Head(flush.todo).job
      PROVE  \E b \in DOMAIN entries' : entries'[b] = entries[i]
  <2>1. entries[i] # Entry
    BY <1>1, <1>3
  <2>2. entries[i] \in S
    BY <2>1 DEF Range
  <2> QED
    BY <1>2, <2>2
<1>4. OneEntryEach'
  BY <1>2 DEF OneEntryEach
<1>5. office.report[Head(flush.todo).job] > 0
  BY DEF WrapInv, CallIsTheHeads
<1>6. CompletionIsKept'
  <2>1. ASSUME NEW j \in Works, j # Head(flush.todo).job, NEW e \in Range(entries), e.job = j
        PROVE  \E d \in Range(entries') : d.job = j
    BY <1>3, <2>1 DEF Range
  <2> QED
    BY <1>5, <2>1 DEF WrapInv, CompletionIsKept, ReportedIsWhole
<1> QED
  BY <1>2, <1>3, <1>4, <1>6, GoesOnInv

(* A photo has been taken: the entry remembers it.                         *)
LEMMA SentInv ==
  ASSUME WrapInv, flush.todo # <<>>, Goes(flush.todo),
         UNCHANGED <<draft, submits, wire, office>>,
         NEW to \in EntryType, to.job = Entry.job, to.no = Entry.no,
         to.refused = Entry.refused, entries' = Replace(Entry, to)
  PROVE  WrapInv'
<1>1. PICK a \in DOMAIN entries : Entry = entries[a] /\ entries[a] \in EntryType
  BY EntryIsTheHeads
<1>2. /\ to \in EntryType /\ to.job = entries[a].job
      /\ to.no = entries[a].no /\ to.refused = entries[a].refused
  BY <1>1
<1>3. entries' = Replace(entries[a], to)
  BY <1>1
<1>4. /\ entries' \in Seq(EntryType) /\ DOMAIN entries' = DOMAIN entries
      /\ \A i \in DOMAIN entries \ {a} : entries'[i] = entries[i]
      /\ \A i \in DOMAIN entries : entries'[i].job = entries[i].job
  BY <1>2, <1>3, ReplaceKeeps
<1>a. entries'[a] = to
  BY <1>2, <1>3, ReplaceKeeps
<1>5. /\ DOMAIN flush' = {"on", "todo", "call", "answer"}
      /\ flush'.todo = flush.todo /\ flush'.call = NoCall /\ flush'.answer = "none"
  BY DEF Goes, WrapInv, DeviceTyped
<1>6. DeviceTyped' /\ GatewayTyped' /\ ReportedIsWhole' /\ CallIsTheHeads'
  BY <1>4, <1>5 DEF WrapInv, DeviceTyped, GatewayTyped, ReportedIsWhole,
     CallIsTheHeads, Awaits
<1>7. OneEntryEach' /\ DraftOrEntry'
  BY <1>4 DEF WrapInv, OneEntryEach, DraftOrEntry
<1>b. TodoDiffers'
  BY <1>5 DEF WrapInv, TodoDiffers
<1>8. \A i \in DOMAIN entries :
        entries'[i].no = entries[i].no /\ entries'[i].refused = entries[i].refused
  BY <1>2, <1>4, <1>a
<1>9. TodoWaits'
  BY <1>4, <1>5, <1>8 DEF WrapInv, TodoWaits
<1>10. CompletionIsKept'
  BY <1>4 DEF WrapInv, CompletionIsKept, Range
<1> QED
  BY <1>6, <1>7, <1>b, <1>9, <1>10 DEF WrapInv

(* A good answer takes the entry off, once the report is with the office;  *)
(* a refusal leaves it to the technician.                                  *)
LEMMA TakeAnswerInv ==
  ASSUME WrapInv, takeAnswer
  PROVE  WrapInv'
<1>1. /\ Awaits /\ flush.answer # "none" /\ flush.todo # <<>>
      /\ UNCHANGED <<draft, submits, wire, office>>
      /\ flush.call.op \in {"attach", "wrap"}
      /\ flush.call.op = "attach" => flush.call.shot \in Shots
      /\ flush.answer \in {"none", "ok", "refused", "storage_unavailable"}
  BY DEF takeAnswer, WrapInv, CallIsTheHeads
<1>2. CASE Settled(Entry) /\ entries' = KeepIn(entries, Range(entries) \ {Entry})
           /\ Goes(Tail(flush.todo))
  <2> DEFINE S == Range(entries) \ {Entry}
             rest == KeepIn(entries, S)
  <2>1. \A e : e \in S <=> e \in Range(entries) /\ e # Entry
    OBVIOUS
  <2>2. entries' = rest /\ flush.call.op = "wrap" /\ flush.answer = "ok"
    BY <1>2 DEF Settled
  <2>3. rest = KeepIn(entries, S)
    OBVIOUS
  <2> HIDE DEF S, rest
  <2> QED
    BY <1>1, <1>2, <2>1, <2>2, <2>3, SettledInv
<1>3. CASE /\ ~Settled(Entry) /\ flush.answer = "ok"
           /\ entries' = Replace(Entry, [Entry EXCEPT !.sent = @ \cup {flush.call.shot}])
           /\ Goes(flush.todo)
  <2>1. flush.call.shot \in Shots
    BY <1>1, <1>3 DEF Settled
  <2> DEFINE to == [Entry EXCEPT !.sent = @ \cup {flush.call.shot}]
  <2>2. Entry \in EntryType
    BY <1>1, EntryIsTheHeads
  <2>3. /\ to \in EntryType /\ to.job = Entry.job /\ to.no = Entry.no
        /\ to.refused = Entry.refused
    BY <2>1, <2>2 DEF EntryType
  <2>4. entries' = Replace(Entry, to)
    BY <1>3
  <2> HIDE DEF to
  <2> QED
    BY <1>1, <1>3, <2>3, <2>4, SentInv
<1>4. CASE /\ ~Settled(Entry) /\ flush.answer # "ok"
           /\ entries' = Replace(Entry, [Entry EXCEPT !.refused = flush.answer])
           /\ Goes(Tail(flush.todo))
  <2>1. flush.answer \in {"lost", "refused", "storage_unavailable"}
    BY <1>1, <1>4
  <2> QED
    BY <1>1, <1>4, <2>1, RefusedInv
<1> QED
  BY <1>2, <1>3, <1>4 DEF takeAnswer

(* A photo that is not on the device any more is marked, and its entry     *)
(* stays.                                                                  *)
LEMMA LostShotInv ==
  ASSUME WrapInv, NEW s \in Shots, lostShot(s)
  PROVE  WrapInv'
<1>1. /\ flush.todo # <<>> /\ Goes(Tail(flush.todo))
      /\ UNCHANGED <<draft, submits, wire, office>>
      /\ entries' = Replace(Entry, [Entry EXCEPT !.refused = "lost"])
  BY DEF lostShot
<1> QED
  BY <1>1, RefusedInv

(* A flush that starts sends every entry that waits.                       *)
LEMMA FlushStartInv ==
  ASSUME WrapInv, flushStart
  PROVE  WrapInv'
<1> DEFINE S == {e \in Range(entries) : e.refused = "no"}
           waiting == KeepIn(entries, S)
           todo == [i \in 1 .. Len(waiting) |-> [job |-> waiting[i].job, no |-> waiting[i].no]]
<1>1. /\ flush' = [NotFlushing EXCEPT !.on = TRUE, !.todo = todo]
      /\ UNCHANGED <<device, reloads, wire, office>>
  BY DEF flushStart
<1>2. \A e \in S : e.refused = "no"
  OBVIOUS
<1>3. /\ waiting \in Seq(EntryType) /\ Len(waiting) \in Nat
      /\ DOMAIN waiting = 1 .. Len(waiting)
      /\ \A a \in DOMAIN waiting :
           waiting[a] \in S /\ \E i \in DOMAIN entries : waiting[a] = entries[i]
      /\ \A a, b \in DOMAIN waiting : waiting[a].job = waiting[b].job => a = b
  <2> HIDE DEF S
  <2> QED
    BY KeptEntries
<1> HIDE DEF S, waiting
<1>4. todo \in Seq(TodoType) /\ DOMAIN todo = 1 .. Len(waiting)
  <2>1. \A i \in 1 .. Len(waiting) : waiting[i] \in EntryType
    BY <1>3
  <2>2. \A i \in 1 .. Len(waiting) : todo[i] \in TodoType
    BY <2>1 DEF TodoType, EntryType
  <2> HIDE DEF todo
  <2>3. todo \in [1 .. Len(waiting) -> TodoType]
    <3>1. DOMAIN todo = 1 .. Len(waiting) /\ todo = [i \in 1 .. Len(waiting) |-> todo[i]]
      BY DEF todo
    <3> QED
      BY <2>2, <3>1
  <2> QED
    BY <1>3, <2>3
<1>5. \A n \in 1 .. Len(waiting) : todo[n].job = waiting[n].job /\ todo[n].no = waiting[n].no
  OBVIOUS
<1> HIDE DEF todo
<1>6. /\ DOMAIN flush' = {"on", "todo", "call", "answer"}
      /\ flush'.todo = todo /\ flush'.call = NoCall /\ flush'.answer = "none"
  BY <1>1 DEF NotFlushing
<1>7. UNCHANGED <<entries, draft, submits, wire, office>>
  BY <1>1 DEF device
<1>8. DeviceTyped' /\ GatewayTyped' /\ ReportedIsWhole' /\ CallIsTheHeads'
  BY <1>4, <1>6, <1>7 DEF WrapInv, DeviceTyped, GatewayTyped, ReportedIsWhole,
     CallIsTheHeads, Awaits
<1>9. OneEntryEach' /\ DraftOrEntry' /\ CompletionIsKept'
  BY <1>7 DEF WrapInv, OneEntryEach, DraftOrEntry, CompletionIsKept
<1>10. TodoDiffers'
  BY <1>3, <1>4, <1>5, <1>6 DEF TodoDiffers
<1>11. TodoWaits'
  BY <1>2, <1>3, <1>4, <1>5, <1>6, <1>7 DEF TodoWaits
<1> QED
  BY <1>8, <1>9, <1>10, <1>11 DEF WrapInv

(* A flush that ends forgets what it had still to send.                    *)
LEMMA StopsInv ==
  ASSUME WrapInv, flush' = NotFlushing, UNCHANGED <<device, wire, office>>
  PROVE  WrapInv'
BY DEF WrapInv, DeviceTyped, GatewayTyped, ReportedIsWhole, OneEntryEach, DraftOrEntry,
   TodoWaits, TodoDiffers, CallIsTheHeads, CompletionIsKept, Awaits, NotFlushing,
   NoCall, device

(* A call about the entry at the head goes out.                            *)
LEMMA SendsInv ==
  ASSUME WrapInv, NEW call, Sends(call), flush.todo # <<>>, ~Awaits,
         flush.answer = "none", call.job = Head(flush.todo).job, call.job \in Works,
         call.op \in {"attach", "wrap"},
         call.op = "attach" => call.shot \in Shots,
         call.op = "wrap" => call.no \in Nat \ {0}
  PROVE  WrapInv'
<1>1. /\ flush'.todo = flush.todo /\ flush'.call = call /\ flush'.answer = "none"
      /\ DOMAIN flush' = {"on", "todo", "call", "answer"}
      /\ wire' = wire \cup {call}
      /\ UNCHANGED <<entries, draft, submits, office>>
  BY DEF Sends, device, WrapInv, DeviceTyped
<1>2. DeviceTyped' /\ GatewayTyped' /\ ReportedIsWhole'
  BY <1>1 DEF WrapInv, DeviceTyped, GatewayTyped, ReportedIsWhole
<1>3. OneEntryEach' /\ DraftOrEntry' /\ TodoWaits' /\ TodoDiffers' /\ CompletionIsKept'
  BY <1>1 DEF WrapInv, OneEntryEach, DraftOrEntry, TodoWaits, TodoDiffers, CompletionIsKept
<1>4. CallIsTheHeads'
  BY <1>1 DEF CallIsTheHeads
<1> QED
  BY <1>2, <1>3, <1>4 DEF WrapInv

(* A photo, and then the report that names it.                             *)
LEMMA SendInv ==
  ASSUME WrapInv, sendWrapUp \/ \E s \in Shots : attachMedia(s)
  PROVE  WrapInv'
<1>1. flush.todo # <<>> /\ ~Awaits /\ flush.answer = "none"
  BY DEF sendWrapUp, attachMedia, WrapInv, CallIsTheHeads
<1>2. Entry \in EntryType /\ Entry.job = Head(flush.todo).job
  BY <1>1, EntryIsTheHeads
<1>3. Entry.job \in Works /\ Entry.no \in Nat \ {0}
  BY <1>2 DEF EntryType
<1>4. CASE sendWrapUp
  <2> DEFINE call == [op |-> "wrap", no |-> Entry.no, job |-> Entry.job]
  <2>1. /\ call.op = "wrap" /\ call.job = Entry.job /\ call.no = Entry.no
    OBVIOUS
  <2>2. Sends(call)
    BY <1>4 DEF sendWrapUp
  <2> HIDE DEF call
  <2> QED
    BY <1>1, <1>2, <1>3, <2>1, <2>2, SendsInv
<1>5. ASSUME NEW s \in Shots, attachMedia(s)
      PROVE  WrapInv'
  <2> DEFINE call == [op |-> "attach", shot |-> s, job |-> Entry.job]
  <2>1. /\ call.op = "attach" /\ call.job = Entry.job /\ call.shot = s
    OBVIOUS
  <2>2. Sends(call)
    BY <1>5 DEF attachMedia
  <2> HIDE DEF call
  <2> QED
    BY <1>1, <1>2, <1>3, <2>1, <2>2, SendsInv
<1> QED
  BY <1>4, <1>5

-----------------------------------------------------------------------------
(* The gateway.                                                            *)

(* The device hears what the gateway says, of the call it waits for.       *)
LEMMA AnswersKeep ==
  ASSUME WrapInv, NEW c, NEW verdict, Answers(c, verdict)
  PROVE  /\ flush'.todo = flush.todo /\ flush'.call = flush.call
         /\ DOMAIN flush' = {"on", "todo", "call", "answer"}
         /\ \/ flush'.answer = flush.answer
            \/ flush.call = c /\ flush'.answer = verdict
BY DEF Answers, WrapInv, DeviceTyped

(* The gateway answers a call, takes its photo or its report, and says     *)
(* "ok" to a report only when it has it.                                   *)
LEMMA AnsweredInv ==
  ASSUME WrapInv, NEW c \in wire, wire' = wire \ {c},
         NEW verdict \in {"ok", "refused", "storage_unavailable"}, Answers(c, verdict),
         UNCHANGED device,
         DOMAIN office' = {"got", "report", "held"},
         office.got \subseteq office'.got,
         office'.report \in [Works -> Nat],
         \A j \in Works : office.report[j] > 0 => office'.report[j] > 0,
         ReportedIsWhole',
         c.op = "wrap" /\ verdict = "ok" => office'.report[c.job] > 0
  PROVE  WrapInv'
<1>1. /\ flush'.todo = flush.todo /\ flush'.call = flush.call
      /\ DOMAIN flush' = {"on", "todo", "call", "answer"}
      /\ \/ flush'.answer = flush.answer
         \/ flush.call = c /\ flush'.answer = verdict
  BY AnswersKeep
<1>2. UNCHANGED <<draft, entries, submits>>
  BY DEF device
<1>3. DeviceTyped' /\ OneEntryEach' /\ DraftOrEntry' /\ TodoWaits' /\ TodoDiffers'
  BY <1>1, <1>2 DEF WrapInv, DeviceTyped, OneEntryEach, DraftOrEntry, TodoWaits, TodoDiffers
<1>4. GatewayTyped'
  BY DEF WrapInv, GatewayTyped
<1>5. c # NoCall
  BY DEF WrapInv, GatewayTyped, NoCall
<1>6. CallIsTheHeads'
  <2>1. CASE flush'.answer = flush.answer
    <3>1. Awaits => (flush.call.op = "wrap" => flush.call.job \in Works)
      <4>1. ASSUME Awaits PROVE flush.call.job \in Works
        <5>1. flush.todo # <<>> /\ flush.call.job = Head(flush.todo).job
          BY <4>1 DEF WrapInv, CallIsTheHeads
        <5> QED
          BY <5>1, EntryIsTheHeads DEF EntryType
      <4> QED
        BY <4>1
    <3> QED
      BY <1>1, <2>1, <3>1 DEF WrapInv, CallIsTheHeads, Awaits
  <2>2. CASE flush.call = c /\ flush'.answer = verdict
    BY <1>1, <1>5, <2>2 DEF WrapInv, CallIsTheHeads, Awaits
  <2> QED
    BY <1>1, <2>1, <2>2
<1>7. CompletionIsKept'
  BY <1>2 DEF WrapInv, CompletionIsKept
<1> QED
  BY <1>3, <1>4, <1>6, <1>7 DEF WrapInv

(* A photo arrives, be the call still waited for or not.                   *)
LEMMA AttachInv ==
  ASSUME WrapInv, NEW c \in wire, attachJobMedia(c)
  PROVE  WrapInv'
<1>1. /\ wire' = wire \ {c} /\ c.op = "attach" /\ Answers(c, AttachVerdict(c))
      /\ UNCHANGED device
      /\ AttachVerdict(c) \in {"ok", "refused", "storage_unavailable"}
  BY DEF attachJobMedia, AttachVerdict
<1>2. /\ DOMAIN office' = {"got", "report", "held"}
      /\ office.got \subseteq office'.got /\ office'.report = office.report
  BY DEF attachJobMedia, WrapInv, GatewayTyped
<1>3. ReportedIsWhole' /\ office'.report \in [Works -> Nat]
  BY <1>2 DEF WrapInv, ReportedIsWhole, GatewayTyped
<1> QED
  BY <1>1, <1>2, <1>3, AnsweredInv

(* A report is taken only when its photos are there.                       *)
LEMMA WrapUpReceivedInv ==
  ASSUME WrapInv, NEW c \in wire, wrapUpReceived(c)
  PROVE  WrapInv'
<1>1. /\ wire' = wire \ {c} /\ c.op = "wrap" /\ Answers(c, WrapVerdict(c))
      /\ UNCHANGED device /\ c.job \in Works /\ c.no \in Nat \ {0}
      /\ WrapVerdict(c) \in {"ok", "refused", "storage_unavailable"}
  BY DEF wrapUpReceived, WrapVerdict, WrapInv, GatewayTyped
<1>2. /\ DOMAIN office' = {"got", "report", "held"} /\ office'.got = office.got
      /\ office'.report = IF WrapVerdict(c) = "ok"
                         THEN [office.report EXCEPT ![c.job] = c.no] ELSE office.report
  BY DEF wrapUpReceived, WrapInv, GatewayTyped
<1>3. /\ office'.report \in [Works -> Nat]
      /\ \A j \in Works : office.report[j] > 0 => office'.report[j] > 0
      /\ WrapVerdict(c) = "ok" => office'.report[c.job] > 0
      /\ \A j \in Works \ {c.job} : office'.report[j] = office.report[j]
  BY <1>1, <1>2 DEF WrapInv, GatewayTyped
<1>4. WrapVerdict(c) = "ok" => ShotsOf[c.job] \subseteq office.got
  BY <1>1 DEF WrapVerdict, WrapInv, ReportedIsWhole
<1>5. ReportedIsWhole'
  <2>1. CASE WrapVerdict(c) = "ok"
    BY <1>1, <1>2, <1>3, <1>4, <2>1 DEF WrapInv, ReportedIsWhole
  <2>2. CASE WrapVerdict(c) # "ok"
    BY <1>2, <2>2 DEF WrapInv, ReportedIsWhole
  <2> QED
    BY <2>1, <2>2
<1> QED
  BY <1>1, <1>2, <1>3, <1>5, AnsweredInv

(* The object store does not answer, and nothing is recorded.              *)
LEMMA StoreUnavailableInv ==
  ASSUME WrapInv, NEW c \in wire, storeUnavailable(c)
  PROVE  WrapInv'
<1>1. /\ wire' = wire \ {c} /\ c.op = "attach" /\ Answers(c, "storage_unavailable")
      /\ UNCHANGED <<device, office>>
  BY DEF storeUnavailable
<1>2. /\ DOMAIN office' = {"got", "report", "held"} /\ office'.report \in [Works -> Nat]
      /\ ReportedIsWhole'
  BY <1>1 DEF WrapInv, GatewayTyped, ReportedIsWhole
<1> QED
  BY <1>1, <1>2, AnsweredInv

(* What leaves the outbox, the reports and the flush as they are.          *)
LEMMA AsideInv ==
  ASSUME WrapInv, UNCHANGED <<draft, entries, submits, flush>>, wire' \subseteq wire,
         DOMAIN office' = DOMAIN office,
         office'.got = office.got, office'.report = office.report
  PROVE  WrapInv'
BY DEF WrapInv, DeviceTyped, GatewayTyped, ReportedIsWhole, OneEntryEach, DraftOrEntry,
   TodoWaits, TodoDiffers, CallIsTheHeads, CompletionIsKept, Awaits

(* Every step keeps what was submitted.                                    *)
LEMMA WrapNextInv == WrapInv /\ [WrapNext]_wrapVars => WrapInv'
<1> SUFFICES ASSUME WrapInv, [WrapNext]_wrapVars PROVE WrapInv'
  OBVIOUS
<1>1. CASE FlushStep
  <2>1. CASE flushEnd
    <3>1. flush' = NotFlushing /\ UNCHANGED <<device, wire, office>>
      BY <2>1 DEF flushEnd
    <3> QED
      BY <3>1, StopsInv
  <2> QED
    BY <1>1, <2>1, FlushStartInv, SendInv, TakeAnswerInv, LostShotInv DEF FlushStep
<1>2. CASE Received
  BY <1>2, AttachInv, WrapUpReceivedInv DEF Received
<1>3. CASE giveUp \/ reload
  <2>1. flush' = NotFlushing /\ UNCHANGED <<device, wire, office>>
    BY <1>3 DEF giveUp, reload
  <2> QED
    BY <2>1, StopsInv
<1>4. ASSUME NEW j \in Works, submit(j) \/ reopen(j) \/ officeTakesBack(j)
      PROVE  WrapInv'
  <2>1. CASE officeTakesBack(j)
    <3>1. /\ UNCHANGED <<draft, entries, submits, flush>> /\ wire' \subseteq wire
          /\ DOMAIN office' = DOMAIN office
          /\ office'.got = office.got /\ office'.report = office.report
      BY <2>1 DEF officeTakesBack, device, WrapInv, GatewayTyped
    <3> QED
      BY <3>1, AsideInv
  <2> QED
    BY <1>4, <2>1, SubmitInv, ReopenInv
<1>5. ASSUME NEW s \in Shots, addShot(s) \/ evict(s)
      PROVE  WrapInv'
  <2>1. UNCHANGED <<draft, entries, submits, flush, wire, office>>
    BY <1>5 DEF addShot, evict
  <2> QED
    BY <2>1, AsideInv
<1>6. ASSUME NEW c \in wire, storeUnavailable(c) \/ lose(c)
      PROVE  WrapInv'
  <2>1. CASE lose(c)
    <3>1. UNCHANGED <<draft, entries, submits, flush, office>> /\ wire' \subseteq wire
      BY <2>1 DEF lose, device
    <3> QED
      BY <3>1, AsideInv
  <2> QED
    BY <1>6, <2>1, StoreUnavailableInv
<1>7. CASE UNCHANGED wrapVars
  <2>1. UNCHANGED <<draft, entries, submits, flush, wire, office>>
    BY <1>7 DEF wrapVars
  <2> QED
    BY <2>1, AsideInv
<1> QED
  BY <1>1, <1>2, <1>3, <1>4, <1>5, <1>6, <1>7 DEF WrapNext

(* What a technician has submitted is a draft again, in the outbox, or     *)
(* with the office and all its photos, for every number of jobs, photos,   *)
(* submissions and reloads.                                                *)
THEOREM CompletionsAreKept == WrapSpec => []CompletionIsKept
<1>1. WrapInv => CompletionIsKept
  BY DEF WrapInv
<1> QED
  BY WrapInitInv, WrapNextInv, <1>1, PTL DEF WrapSpec

-----------------------------------------------------------------------------
(***************************************************************************)
(* ResourceStore. The answers of a key's fetches come in any order; what   *)
(* is held was true later than what it replaces, because an answer that a  *)
(* newer fetch has overtaken is dropped.                                   *)
(***************************************************************************)

Answer == [value : BOOLEAN, at : Nat]
Fetch  == [stage : {"none", "asked", "answered"}, held : BOOLEAN, answer : Answer]

StoreTyped ==
  /\ newest \in Nat /\ generation \in Nat /\ loads \in Nat
  /\ last \in Answer /\ keptReads \in Answer
  /\ fetches \in [0 .. MaxFetches -> Fetch]

(* Nothing on the page was made of facts newer than the gateway's.         *)
NothingIsNewer ==
  /\ last.at <= newest /\ keptReads.at <= newest
  /\ \A g \in 0 .. MaxFetches : fetches[g].answer.at <= newest

(* What answers the key's present fetch is not older than what is held.    *)
PresentIsNotOlder ==
  \A g \in 0 .. MaxFetches :
    fetches[g].stage = "answered" /\ g = generation =>
      fetches[g].answer.at >= last.at

(* A generation that is still to come has no fetch.                        *)
NoFetchAhead ==
  \A g \in 0 .. MaxFetches : g > generation => fetches[g] = NoFetch

StoreInv == StoreTyped /\ NothingIsNewer /\ PresentIsNotOlder /\ NoFetchAhead

(* The first load holds nothing.                                           *)
LEMMA StoreInitInv == StoreInit => StoreInv
BY StoreAssumption
   DEF StoreInit, StoreInv, StoreTyped, NothingIsNewer, PresentIsNotOlder,
       NoFetchAhead, NoAnswer, NoFetch, Answer, Fetch

(* Each step of the screen, the network and the tab keeps it.              *)
LEMMA StoreNextInv == StoreInv /\ [StoreNext]_storeVars => StoreInv'
<1> SUFFICES ASSUME StoreInv, [StoreNext]_storeVars PROVE StoreInv'
  OBVIOUS
<1> USE StoreAssumption DEF StoreInv
<1>0. NoFetch \in Fetch /\ NoAnswer \in Answer /\ NoFetch.stage = "none"
      /\ NoFetch.answer.at = 0 /\ NoAnswer.at = 0
  BY DEF NoFetch, NoAnswer, Fetch, Answer
<1>a. /\ last.at \in Nat /\ keptReads.at \in Nat
      /\ \A g \in 0 .. MaxFetches :
           fetches[g].answer \in Answer /\ fetches[g].answer.at \in Nat
  BY DEF StoreTyped, Answer, Fetch
<1>1. CASE factsChange
  BY <1>1, <1>a DEF factsChange, StoreTyped, NothingIsNewer, PresentIsNotOlder,
     NoFetchAhead
<1>2. CASE read
  <2> DEFINE f == [stage |-> "asked", held |-> last.value, answer |-> NoAnswer]
  <2>1. f \in Fetch /\ f.stage = "asked" /\ f.answer.at = 0
    BY <1>0 DEF StoreTyped, Answer, Fetch
  <2>2. fetches' = [fetches EXCEPT ![generation] = f]
    BY <1>2 DEF read
  <2> HIDE DEF f
  <2> QED
    BY <1>2, <1>a, <2>1, <2>2 DEF read, StoreTyped, NothingIsNewer, PresentIsNotOlder,
       NoFetchAhead
<1>3. CASE invalidate
  BY <1>3, <1>0 DEF invalidate, StoreTyped, NothingIsNewer, PresentIsNotOlder,
     NoFetchAhead
<1>4. CASE heldReads
  <2>1. fetches' = [g \in 0 .. MaxFetches |-> NoFetch] /\ newest' = newest
    BY <1>4 DEF heldReads
  <2>2. PICK kept \in {keptReads, last} :
          keptReads' = kept /\ last' \in {kept, NoAnswer}
    BY <1>4 DEF heldReads
  <2>4. /\ last' \in Answer /\ keptReads' \in Answer
        /\ last'.at <= newest /\ keptReads'.at <= newest
    <3>1. kept \in Answer /\ kept.at <= newest
      BY <2>2 DEF StoreTyped, NothingIsNewer
    <3>2. NoAnswer \in Answer /\ NoAnswer.at <= newest
      BY <1>0 DEF StoreTyped
    <3> QED
      BY <2>2, <3>1, <3>2
  <2>3. loads' \in Nat /\ generation' \in Nat
    BY <1>4 DEF heldReads, StoreTyped
  <2> QED
    BY <1>0, <2>1, <2>3, <2>4 DEF StoreTyped, NothingIsNewer,
       PresentIsNotOlder, NoFetchAhead
<1>5. ASSUME NEW g \in 0 .. MaxFetches, gatewayAnswers(g)
      PROVE  StoreInv'
  <2>1. PICK value \in BOOLEAN :
          fetches' = [fetches EXCEPT ![g].stage = "answered",
                        ![g].answer = [value |-> value, at |-> newest]]
    BY <1>5 DEF gatewayAnswers
  <2> DEFINE f == fetches'[g]
  <2>3. fetches[g] \in [stage : {"none", "asked", "answered"}, held : BOOLEAN,
                        answer : Answer]
    BY DEF StoreTyped, Fetch
  <2>4. f = [stage |-> "answered", held |-> fetches[g].held,
             answer |-> [value |-> value, at |-> newest]]
    BY <2>1, <2>3 DEF StoreTyped
  <2>5. [value |-> value, at |-> newest] \in Answer
    BY DEF Answer, StoreTyped
  <2>6. f \in Fetch
    BY <2>3, <2>4, <2>5 DEF Fetch
  <2>7. /\ f.stage = "answered" /\ f.answer.at = newest
    BY <2>4
  <2>8. fetches' = [fetches EXCEPT ![g] = f]
    BY <2>1 DEF StoreTyped
  <2> HIDE DEF f
  <2>2. g <= generation
    BY <1>5, <1>0 DEF gatewayAnswers, NoFetchAhead, StoreTyped
  <2>9. UNCHANGED <<newest, loads, generation, last, keptReads>>
    BY <1>5 DEF gatewayAnswers
  <2> QED
    BY <1>a, <2>2, <2>6, <2>7, <2>8, <2>9 DEF StoreTyped, NothingIsNewer,
       PresentIsNotOlder, NoFetchAhead
<1>6. ASSUME NEW g \in 0 .. MaxFetches, fetched(g)
      PROVE  StoreInv'
  <2>1. /\ fetches' = [fetches EXCEPT ![g] = NoFetch]
        /\ UNCHANGED <<newest, loads, generation>>
    BY <1>6 DEF fetched
  <2>2. CASE g = generation
    <3>1. /\ last' = fetches[g].answer
          /\ keptReads' \in {fetches[g].answer, keptReads}
          /\ fetches[g].answer \in Answer /\ fetches[g].answer.at <= newest
      BY <1>6, <2>2 DEF fetched, current, StoreTyped, NothingIsNewer, Fetch
    <3> QED
      BY <1>0, <1>a, <2>1, <2>2, <3>1 DEF StoreTyped, NothingIsNewer, PresentIsNotOlder,
         NoFetchAhead
  <2>3. CASE g # generation
    <3>1. UNCHANGED <<last, keptReads>>
      BY <1>6, <2>3 DEF fetched, current
    <3> QED
      BY <1>0, <1>a, <2>1, <3>1 DEF StoreTyped, NothingIsNewer, PresentIsNotOlder,
         NoFetchAhead
  <2> QED
    BY <2>2, <2>3
<1>7. ASSUME NEW g \in 0 .. MaxFetches, fetchFails(g)
      PROVE  StoreInv'
  BY <1>7, <1>0 DEF fetchFails, StoreTyped, NothingIsNewer, PresentIsNotOlder,
     NoFetchAhead
<1>8. CASE UNCHANGED storeVars
  BY <1>8 DEF storeVars, StoreTyped, NothingIsNewer, PresentIsNotOlder,
     NoFetchAhead
<1> QED
  BY <1>1, <1>2, <1>3, <1>4, <1>5, <1>6, <1>7, <1>8 DEF StoreNext

(* Whatever order the answers of a key's fetches come in, the held value   *)
(* goes forward within a load of the page.                                 *)
THEOREM HeldNeverGoesBack == StoreSpec => HeldGoesForward
<1>1. ASSUME StoreInv, [StoreNext]_storeVars, loads' = loads
      PROVE  last'.at >= last.at
  <2>1. CASE UNCHANGED last
    BY <1>1, <2>1 DEF StoreInv, StoreTyped, Answer
  <2>2. ASSUME NEW g \in 0 .. MaxFetches, fetched(g)
        PROVE  last'.at >= last.at
    BY <1>1, <2>2 DEF fetched, current, StoreInv, StoreTyped, PresentIsNotOlder, Answer, Fetch
  <2>3. ~ heldReads
    BY <1>1 DEF heldReads, StoreInv, StoreTyped
  <2> QED
    BY <1>1, <2>1, <2>2, <2>3
       DEF StoreNext, storeVars, factsChange, read, invalidate,
           gatewayAnswers, fetchFails
<1> QED
  BY <1>1, StoreInitInv, StoreNextInv, PTL DEF StoreSpec, HeldGoesForward
=============================================================================

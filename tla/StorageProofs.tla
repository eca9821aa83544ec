----------------------------- MODULE StorageProofs -----------------------------
(***************************************************************************)
(* Proofs about the strings and tables of a storage, for every number of   *)
(* threads and strings and every size of the caches and the ring.          *)
(***************************************************************************)
EXTENDS Storage, TLAPS

Places  == {"idle", "lookup", "find", "create", "insert", "arg", "row"}
Jobs    == [table : {"op", "api"}, name : Texts, arg : Texts, gen : Nat, nameId : Nat, argId : Nat]
Rows    == [name : Texts, nameId : Nat, arg : Texts, argId : Nat]
Entries == [text : Texts, id : Nat, gen : Nat]

TableTypes ==
    /\ rows \in [Tables -> Seq(Texts \cup Rows)]
    /\ rows["string"] \in Seq(Texts) /\ rows["ustring"] \in Seq(Texts)
    /\ stored \in [Tables -> Nat] /\ visible \in [Tables -> Nat]
    /\ \A t \in Tables : visible[t] <= stored[t] /\ stored[t] <= Len(rows[t])
CallerTypes ==
    /\ pc \in [Callers -> Places] /\ job \in [Callers -> Jobs]
CacheTypes ==
    /\ DOMAIN cache \subseteq Texts /\ cacheOwner \in Callers \cup {Nobody}
LocalTypes ==
    /\ local \in [Users -> [entries : Seq(Entries), writeIdx : 1 .. CAPACITY]]
    /\ \A u \in Users : Len(local[u].entries) <= CAPACITY
    /\ ulocal \in [Users -> Entries]
ControlTypes ==
    /\ storage \in 1 .. MaxStorages /\ finalized \subseteq Tables
    /\ overhead \in BOOLEAN /\ flushing \in 0 .. 4
    /\ ctl \in {"idle", "reset", "exit"} /\ position \in 0 .. 5 /\ calls \in 0 .. MaxCalls
    /\ ctl = "reset" => storage < MaxStorages

Types == TableTypes /\ CallerTypes /\ CacheTypes /\ LocalTypes /\ ControlTypes

\* The empty string is row 1 of both string tables.
EmptyInv == Means("string", 1, Empty) /\ Means("ustring", 1, Empty)

\* The cache has each row of the string table at its string, and nothing else.
CacheInv ==
    /\ \A text \in DOMAIN cache : Means("string", cache[text], text)
    /\ \A i \in DOMAIN rows["string"] :
         rows["string"][i] \in DOMAIN cache /\ cache[rows["string"][i]] = i

\* Who adds a string has the lock, and the string is not there yet.
LockInv ==
    \A c \in Callers :
      /\ pc[c] = "insert" <=> cacheOwner = c
      /\ pc[c] = "insert" => job[c].name \notin DOMAIN cache

\* Tables end in their order while no callback and no flush is under way; only the
\* workers of op and api, while they drain, still write, and only into api.
ControlInv ==
    /\ ctl = "idle" => position = 0 /\ finalized = {}
    /\ ctl # "idle" =>
         /\ flushing = 0 /\ position >= 1
         /\ \A c \in Users \cup {"rpdflush"} : pc[c] = "idle"
         /\ "op" \in finalized <=> position > 1
         /\ "api" \in finalized <=> position > 2
         /\ "ustring" \in finalized <=> position > 3
         /\ "string" \in finalized <=> position > 4
    /\ flushing > 0 => pc["rpdflush"] = "idle"
    /\ \A t \in finalized \cup {"string", "ustring"} : pc[t] = "idle"
    /\ \A t \in {"op", "api"} : job[t].table = "api"

\* The ids that a caller has so far mean its strings.
JobInv ==
    /\ \A u \in Users : pc[u] # "idle" => job[u].gen = storage
    /\ \A c \in Callers : job[c].table = "op" /\ pc[c] \in {"lookup", "find", "create", "insert"}
         => job[c].arg = Empty /\ job[c].argId = 1
    /\ \A c \in Callers : pc[c] \in {"arg", "row"} => Means("string", job[c].nameId, job[c].name)
    /\ \A c \in Callers : pc[c] = "row" => Means("ustring", job[c].argId, job[c].arg)

\* What a thread's cache holds of the present storage is right.
EntryOk(e, t) == e.gen <= storage /\ (e.gen = storage => Means(t, e.id, e.text))
LocalInv ==
    \A u \in Users :
      /\ \A i \in DOMAIN local[u].entries : EntryOk(local[u].entries[i], "string")
      /\ EntryOk(ulocal[u], "ustring")

IInv ==
    /\ Types /\ EmptyInv /\ CacheInv /\ LockInv /\ ControlInv /\ JobInv /\ LocalInv
    /\ RightStrings /\ FinalizeKeepsAll

\* Rows stay where they are.
Kept == \A t \in Tables : \A i, x : Means(t, i, x) => Means(t, i, x)'

-----------------------------------------------------------------------------
LEMMA Basics ==
    /\ Tables = {"string", "ustring", "op", "api"} /\ Empty \in Texts /\ OverheadName \in Texts
    /\ Users \subseteq Callers /\ Tables \subseteq Callers /\ "rpdflush" \in Callers
    /\ Nobody \notin Callers
    /\ \A u \in Users : u \notin {"string", "ustring", "op", "api", "rpdflush"}
<1>1. Empty \in Texts /\ OverheadName \in Texts
  BY DEF Texts
<1>2. Tables = {"string", "ustring", "op", "api"}
  BY DEF Tables
<1>3. Users \subseteq Callers /\ Tables \subseteq Callers /\ "rpdflush" \in Callers
  BY DEF Callers
<1>4. Nobody \notin Callers /\ \A u \in Users : u \notin Tables /\ u # "rpdflush"
  BY StorageAssumption
<1>5. \A u \in Users : u \notin {"string", "ustring", "op", "api", "rpdflush"}
  BY <1>2, <1>4
<1> QED
  BY <1>1, <1>2, <1>3, <1>4, <1>5

LEMMA NoJobFacts == /\ NoJob \in Jobs /\ NoJob.table = "api" /\ NoJob.arg = Empty /\ NoJob.argId = 1
<1>1. Empty \in Texts /\ 0 \in Nat /\ 1 \in Nat
  BY Basics
<1> QED
  BY <1>1 DEF NoJob, Jobs

\* A table after one more row.
LEMMA AcceptFacts ==
    ASSUME TableTypes, NEW t \in Tables, NEW row \in Texts \cup Rows,
           t \in {"string", "ustring"} => row \in Texts, Accept(t, row),
           UNCHANGED <<stored, visible>>
    PROVE  /\ TableTypes' /\ Kept
           /\ rows'[t] \in Seq(Texts \cup Rows) /\ Len(rows'[t]) = Len(rows[t]) + 1
           /\ DOMAIN rows'[t] = 1 .. Len(rows[t]) + 1 /\ DOMAIN rows[t] = 1 .. Len(rows[t])
           /\ rows'[t][Len(rows[t]) + 1] = row
           /\ \A i \in DOMAIN rows[t] : rows'[t][i] = rows[t][i]
           /\ \A s \in Tables \ {t} : rows'[s] = rows[s]
<1>1. /\ rows' = [rows EXCEPT ![t] = Append(rows[t], row)] /\ rows[t] \in Seq(Texts \cup Rows)
      /\ DOMAIN rows = Tables
  BY DEF TableTypes, Accept
<1>2. /\ rows'[t] = Append(rows[t], row) /\ \A s \in Tables \ {t} : rows'[s] = rows[s]
  BY <1>1
<1>3. /\ rows'[t] \in Seq(Texts \cup Rows) /\ Len(rows'[t]) = Len(rows[t]) + 1
      /\ DOMAIN rows'[t] = 1 .. Len(rows[t]) + 1 /\ DOMAIN rows[t] = 1 .. Len(rows[t])
      /\ rows'[t][Len(rows[t]) + 1] = row
      /\ \A i \in DOMAIN rows[t] : rows'[t][i] = rows[t][i]
      /\ Len(rows[t]) \in Nat
  BY <1>1, <1>2
<1>4. rows' \in [Tables -> Seq(Texts \cup Rows)]
  BY <1>1, <1>3 DEF TableTypes
<1>5. rows'["string"] \in Seq(Texts) /\ rows'["ustring"] \in Seq(Texts)
  <2>1. ASSUME NEW s \in {"string", "ustring"} PROVE rows'[s] \in Seq(Texts)
    <3>1. CASE s = t
      <4>1. rows[t] \in Seq(Texts) /\ row \in Texts
        BY <3>1, <2>1 DEF TableTypes
      <4>2. Append(rows[t], row) \in Seq(Texts)
        BY <4>1
      <4> QED
        BY <3>1, <4>2, <1>2
    <3>2. CASE s # t
      BY <1>2, <3>2, <2>1 DEF TableTypes, Tables
    <3> QED
      BY <3>1, <3>2
  <2> QED
    BY <2>1
<1>6. \A s \in Tables : visible'[s] <= stored'[s] /\ stored'[s] <= Len(rows'[s])
  <2>1. ASSUME NEW s \in Tables PROVE visible'[s] <= stored'[s] /\ stored'[s] <= Len(rows'[s])
    <3>1. visible'[s] <= stored'[s] /\ stored'[s] <= Len(rows[s]) /\ stored'[s] \in Nat
      BY DEF TableTypes
    <3>2. rows'[s] = rows[s] \/ (s = t /\ Len(rows'[t]) = Len(rows[t]) + 1)
      BY <1>2, <1>3
    <3> QED
      BY <3>1, <3>2, <1>3
  <2> QED
    BY <2>1
<1>7. TableTypes'
  BY <1>4, <1>5, <1>6 DEF TableTypes
<1>8. Kept
  BY <1>2, <1>3 DEF Kept, Means
<1> QED
  BY <1>2, <1>3, <1>7, <1>8

LEMMA SameRows == ASSUME UNCHANGED rows PROVE Kept
  BY DEF Kept, Means

\* A caller at work goes on, and nothing of the control changes.
OneCaller(c) ==
    /\ pc' \in [Callers -> Places] /\ job' \in [Callers -> Jobs]
    /\ \A d \in Callers \ {c} : pc'[d] = pc[d] /\ job'[d] = job[d]
    /\ UNCHANGED <<storage, finalized, overhead, flushing, ctl, position, calls>>

LEMMA CallerControl ==
    ASSUME IInv, NEW c \in Callers, pc[c] # "idle", OneCaller(c),
           job'[c].table \in {job[c].table, "api"}
    PROVE  CallerTypes' /\ ControlTypes' /\ ControlInv'
<1>1. CallerTypes' /\ ControlTypes'
  BY DEF IInv, Types, OneCaller, CallerTypes, ControlTypes
<1>2. c \notin finalized \cup {"string", "ustring"}
  BY DEF IInv, ControlInv
<1>3. ctl # "idle" => c \notin Users \cup {"rpdflush"}
  BY DEF IInv, ControlInv
<1>4. \A t \in finalized \cup {"string", "ustring"} : t \in Callers /\ pc'[t] = "idle"
  BY <1>2, Basics DEF IInv, ControlInv, OneCaller, Types, ControlTypes
<1>5. \A t \in {"op", "api"} : job'[t].table = "api"
  BY Basics DEF IInv, ControlInv, OneCaller
<1>6. ctl # "idle" => \A d \in Users \cup {"rpdflush"} : pc'[d] = "idle"
  BY <1>3, Basics DEF IInv, ControlInv, OneCaller
<1>7. flushing > 0 => pc'["rpdflush"] = "idle"
  BY Basics DEF IInv, ControlInv, OneCaller
<1> QED
  BY <1>1, <1>4, <1>5, <1>6, <1>7 DEF IInv, ControlInv, OneCaller

\* Who is at work finds the tables of its strings and its row still there.
LEMMA Busy ==
    ASSUME IInv, NEW c \in Callers, pc[c] # "idle"
    PROVE  /\ "string" \notin finalized /\ "ustring" \notin finalized
           /\ job[c].table \in {"op", "api"} /\ job[c].table \notin finalized
<1>1. job[c].table \in {"op", "api"}
  BY DEF IInv, Types, CallerTypes, Jobs
<1>2. CASE ctl = "idle"
  BY <1>1, <1>2 DEF IInv, ControlInv
<1>3. CASE ctl # "idle"
  <2>1. c \in {"op", "api"} /\ c \notin finalized
    BY <1>3 DEF IInv, ControlInv, Callers, Tables
  <2>2. job[c].table = "api" /\ position \in 0 .. 2
    BY <1>3, <2>1 DEF IInv, ControlInv, Types, ControlTypes
  <2> QED
    BY <1>3, <2>2 DEF IInv, ControlInv
<1> QED
  BY <1>2, <1>3

-----------------------------------------------------------------------------
(* What a caller's step leaves alone *)

LEMMA EmptyFrame == ASSUME IInv, Kept PROVE EmptyInv'
<1>1. "string" \in Tables /\ "ustring" \in Tables
  BY Basics
<1>2. Means("string", 1, Empty) /\ Means("ustring", 1, Empty)
  BY DEF IInv, EmptyInv
<1> QED
  BY <1>1, <1>2 DEF EmptyInv, Kept

LEMMA CacheFrame ==
    ASSUME IInv, Kept, UNCHANGED cache, rows'["string"] = rows["string"]
    PROVE  CacheInv'
  BY DEF IInv, CacheInv, Means

LEMMA LockFrame ==
    ASSUME IInv, NEW c \in Callers, OneCaller(c), pc[c] # "insert", pc'[c] # "insert",
           UNCHANGED shared
    PROVE  LockInv' /\ CacheTypes'
  BY DEF IInv, Types, CacheTypes, LockInv, OneCaller, shared

LEMMA RightFrame ==
    ASSUME IInv, Kept, \A t \in {"op", "api"} : rows'[t] = rows[t]
    PROVE  RightStrings'
<1>1. "string" \in Tables /\ "ustring" \in Tables
  BY Basics
<1>2. ASSUME NEW t \in {"op", "api"}, NEW i \in DOMAIN rows[t]
      PROVE  Means("string", rows[t][i].nameId, rows[t][i].name)'
             /\ Means("ustring", rows[t][i].argId, rows[t][i].arg)'
  <2>1. /\ Means("string", rows[t][i].nameId, rows[t][i].name)
        /\ Means("ustring", rows[t][i].argId, rows[t][i].arg)
    BY DEF IInv, RightStrings
  <2> QED
    BY <1>1, <2>1 DEF Kept, Means
<1> QED
  BY <1>2 DEF RightStrings, Means

LEMMA LocalFrame ==
    ASSUME IInv, Kept, UNCHANGED <<caches, storage>>
    PROVE  LocalTypes' /\ LocalInv'
<1>1. "string" \in Tables /\ "ustring" \in Tables
  BY Basics
<1>2. LocalTypes'
  BY DEF IInv, Types, LocalTypes, caches
<1>3. \A t \in Tables : \A e : EntryOk(e, t) => EntryOk(e, t)'
  BY DEF EntryOk, Kept
<1> QED
  BY <1>1, <1>2, <1>3 DEF IInv, LocalInv, caches

\* A caller has the id of its name.
LEMMA NamedStep ==
    ASSUME IInv, TableTypes', Kept, NEW c \in Callers,
           pc[c] \in {"lookup", "find", "create", "insert"},
           NEW id, Named(c, id), Means("string", id, job[c].name)',
           UNCHANGED <<storage, finalized, overhead, flushing, ctl, position, calls>>
    PROVE  /\ OneCaller(c) /\ JobInv' /\ id \in Nat
           /\ pc'[c] \in {"arg", "row"} /\ job'[c].name = job[c].name
           /\ job'[c].table = job[c].table
<1>1. id \in Nat
  <2>1. rows'["string"] \in Seq(Texts) /\ id \in DOMAIN rows'["string"]
    BY DEF TableTypes, Means
  <2> QED
    BY <2>1
<1>2. /\ job' = [job EXCEPT ![c] = [job[c] EXCEPT !.nameId = id]]
      /\ pc' = [pc EXCEPT ![c] = IF job[c].table = "op" THEN "row" ELSE "arg"]
      /\ job \in [Callers -> Jobs] /\ pc \in [Callers -> Places]
  BY DEF Named, Goto, IInv, Types, CallerTypes
<1>3. /\ job[c] \in Jobs /\ job'[c] = [job[c] EXCEPT !.nameId = id]
      /\ pc'[c] = IF job[c].table = "op" THEN "row" ELSE "arg"
      /\ \A d \in Callers \ {c} : pc'[d] = pc[d] /\ job'[d] = job[d]
  BY <1>2
<1>4. /\ job'[c] \in Jobs /\ job'[c].nameId = id
      /\ job'[c].name = job[c].name /\ job'[c].arg = job[c].arg /\ job'[c].argId = job[c].argId
      /\ job'[c].gen = job[c].gen /\ job'[c].table = job[c].table
  BY <1>1, <1>3 DEF Jobs
<1>5. OneCaller(c)
  <2>1. pc' \in [Callers -> Places]
    BY <1>2 DEF Places
  <2>2. job' \in [Callers -> Jobs]
    BY <1>2, <1>3, <1>4
  <2> QED
    BY <1>3, <1>4, <2>1, <2>2 DEF OneCaller
<1>6. JobInv'
  <2>1. \A u \in Users : pc'[u] # "idle" => job'[u].gen = storage'
    BY <1>3, <1>4, Basics DEF IInv, JobInv
  <2>2. \A d \in Callers : job'[d].table = "op" /\ pc'[d] \in {"lookup", "find", "create", "insert"}
          => job'[d].arg = Empty /\ job'[d].argId = 1
    BY <1>3, <1>4 DEF IInv, JobInv
  <2>3. ASSUME NEW d \in Callers, pc'[d] \in {"arg", "row"}
        PROVE  Means("string", job[d].nameId, job[d].name)'
    <3>1. CASE d = c
      <4>1. Means("string", id, job[c].name)' <=> Means("string", job[d].nameId, job[d].name)'
        BY <1>4, <3>1 DEF Means
      <4> QED
        BY <4>1
    <3>2. CASE d # c
      <4>1. Means("string", job[d].nameId, job[d].name)
        BY <1>3, <2>3, <3>2 DEF IInv, JobInv
      <4>2. Means("string", job[d].nameId, job[d].name) =>
              job[d].nameId \in DOMAIN rows'["string"] /\ rows'["string"][job[d].nameId] = job[d].name
        BY Basics DEF Kept, Means
      <4> QED
        BY <1>3, <3>2, <4>1, <4>2 DEF Means
    <3> QED
      BY <3>1, <3>2
  <2>4. ASSUME NEW d \in Callers, pc'[d] = "row"
        PROVE  Means("ustring", job[d].argId, job[d].arg)'
    <3>1. Means("ustring", job[d].argId, job[d].arg)
      <4>1. CASE d = c
        <5>1. job[c].table = "op"
          BY <1>3, <2>4, <4>1
        <5>2. job[c].arg = Empty /\ job[c].argId = 1
          BY <5>1 DEF IInv, JobInv
        <5> QED
          BY <4>1, <5>2 DEF IInv, EmptyInv
      <4>2. CASE d # c
        BY <1>3, <2>4, <4>2 DEF IInv, JobInv
      <4> QED
        BY <4>1, <4>2
    <3>2. Means("ustring", job[d].argId, job[d].arg) =>
            job[d].argId \in DOMAIN rows'["ustring"] /\ rows'["ustring"][job[d].argId] = job[d].arg
      BY Basics DEF Kept, Means
    <3>3. job'[d].argId = job[d].argId /\ job'[d].arg = job[d].arg
      BY <1>3, <1>4
    <3> QED
      BY <3>1, <3>2, <3>3 DEF Means
  <2> QED
    BY <2>1, <2>2, <2>3, <2>4 DEF JobInv
<1> QED
  BY <1>1, <1>3, <1>4, <1>5, <1>6

\* A caller on its way to the string table.
LEMMA GotoStep ==
    ASSUME IInv, NEW c \in Callers, pc[c] \in {"lookup", "find", "create"},
           NEW place \in {"find", "create", "insert"}, Goto(c, place),
           UNCHANGED <<job, rows, storage, finalized, overhead, flushing, ctl, position, calls>>
    PROVE  OneCaller(c) /\ JobInv' /\ Kept
<1>1. Kept
  BY SameRows
<1>2. /\ pc \in [Callers -> Places] /\ job \in [Callers -> Jobs] /\ pc'[c] = place
      /\ \A d \in Callers \ {c} : pc'[d] = pc[d]
  BY DEF IInv, Types, CallerTypes, Goto
<1>3. OneCaller(c)
  BY <1>2 DEF OneCaller, Goto, Places
<1>4. \A d \in Callers :
        /\ pc'[d] \in {"arg", "row"} => pc[d] = pc'[d]
        /\ pc'[d] # "idle" => pc[d] # "idle"
        /\ pc'[d] \in {"lookup", "find", "create", "insert"} =>
             pc[d] \in {"lookup", "find", "create", "insert"}
  BY <1>2
<1>5. \A i, x : Means("string", i, x)' = Means("string", i, x)
                /\ Means("ustring", i, x)' = Means("ustring", i, x)
  BY DEF Means
<1>6. JobInv'
  BY <1>4, <1>5, Basics DEF IInv, JobInv, Means
<1> QED
  BY <1>1, <1>3, <1>6

\* The LocalStringCache after a string was asked for.
LEMMA RememberStep ==
    ASSUME IInv, Kept, NEW u \in Users, NEW id \in Nat, Remember(u, id),
           job[u].gen = storage, Means("string", id, job[u].name)',
           job'[u].name = job[u].name, UNCHANGED <<ulocal, storage>>
    PROVE  LocalTypes' /\ LocalInv'
<1> DEFINE entry == [text |-> job[u].name, id |-> id, gen |-> job[u].gen]
           old   == local[u].entries
           next  == local[u].writeIdx
<1>1. /\ local \in [Users -> [entries : Seq(Entries), writeIdx : 1 .. CAPACITY]]
      /\ old \in Seq(Entries) /\ next \in 1 .. CAPACITY /\ Len(old) <= CAPACITY
      /\ CAPACITY \in Nat \ {0}
  BY StorageAssumption DEF IInv, Types, LocalTypes
<1>2. entry \in Entries
  <2>1. job[u].name \in Texts /\ job[u].gen \in Nat
    BY Basics DEF IInv, Types, CallerTypes, Jobs
  <2> QED
    BY <2>1 DEF Entries
<1>3. PICK new : /\ local' = [local EXCEPT ![u] = new]
                 /\ new \in [entries : Seq(Entries), writeIdx : 1 .. CAPACITY]
                 /\ Len(new.entries) <= CAPACITY
                 /\ \A i \in DOMAIN new.entries :
                      new.entries[i] = entry \/ (i \in DOMAIN old /\ new.entries[i] = old[i])
  <2>1. CASE Entry(u) # {}
    <3> DEFINE changed == [i \in DOMAIN old |-> IF i \in Entry(u) THEN entry ELSE old[i]]
    <3>1. local' = [local EXCEPT ![u] = [local[u] EXCEPT !.entries = changed]]
      BY <2>1 DEF Remember
    <3>2. /\ DOMAIN old = 1 .. Len(old) /\ Len(old) \in Nat
          /\ \A i \in 1 .. Len(old) : old[i] \in Entries
      BY <1>1
    <3>3. changed \in [1 .. Len(old) -> Entries]
      BY <1>2, <3>2
    <3>4. changed \in Seq(Entries) /\ Len(changed) = Len(old) /\ DOMAIN changed = DOMAIN old
      BY <3>2, <3>3
    <3> HIDE DEF changed
    <3>5. \A i \in DOMAIN changed : changed[i] = entry \/ (i \in DOMAIN old /\ changed[i] = old[i])
      BY <3>4 DEF changed
    <3> DEFINE renewed == [local[u] EXCEPT !.entries = changed]
    <3>6. /\ renewed \in [entries : Seq(Entries), writeIdx : 1 .. CAPACITY]
          /\ renewed.entries = changed
      BY <1>1, <3>4
    <3>7. /\ local' = [local EXCEPT ![u] = renewed] /\ Len(renewed.entries) <= CAPACITY
          /\ \A i \in DOMAIN renewed.entries :
               renewed.entries[i] = entry \/ (i \in DOMAIN old /\ renewed.entries[i] = old[i])
      BY <1>1, <3>1, <3>4, <3>5, <3>6
    <3> HIDE DEF renewed
    <3> QED
      BY <3>6, <3>7
  <2>2. CASE Entry(u) = {} /\ Len(old) < CAPACITY
    <3>1. local' = [local EXCEPT ![u] = [local[u] EXCEPT !.entries = Append(old, entry)]]
      BY <2>2 DEF Remember
    <3>2. /\ Append(old, entry) \in Seq(Entries) /\ Len(Append(old, entry)) = Len(old) + 1
          /\ \A i \in DOMAIN Append(old, entry) :
               Append(old, entry)[i] = entry \/ (i \in DOMAIN old /\ Append(old, entry)[i] = old[i])
      BY <1>1, <1>2
    <3> DEFINE grown == [local[u] EXCEPT !.entries = Append(old, entry)]
    <3>3. /\ grown \in [entries : Seq(Entries), writeIdx : 1 .. CAPACITY]
          /\ grown.entries = Append(old, entry)
      BY <1>1, <3>2
    <3>4. /\ local' = [local EXCEPT ![u] = grown] /\ Len(grown.entries) <= CAPACITY
          /\ \A i \in DOMAIN grown.entries :
               grown.entries[i] = entry \/ (i \in DOMAIN old /\ grown.entries[i] = old[i])
      BY <1>1, <2>2, <3>1, <3>2, <3>3
    <3> HIDE DEF grown
    <3> QED
      BY <3>3, <3>4
  <2>3. CASE Entry(u) = {} /\ ~(Len(old) < CAPACITY)
    <3> DEFINE changed == [old EXCEPT ![next] = entry]
    <3>1. local' = [local EXCEPT ![u] = [entries |-> changed, writeIdx |-> (next % CAPACITY) + 1]]
      BY <2>3 DEF Remember
    <3>2. (next % CAPACITY) + 1 \in 1 .. CAPACITY
      BY <1>1
    <3>3. /\ changed \in Seq(Entries) /\ Len(changed) = Len(old)
          /\ \A i \in DOMAIN changed : changed[i] = entry \/ (i \in DOMAIN old /\ changed[i] = old[i])
      <4>1. /\ DOMAIN old = 1 .. Len(old) /\ Len(old) \in Nat /\ next \in 1 .. Len(old)
            /\ \A i \in 1 .. Len(old) : old[i] \in Entries
        BY <1>1, <2>3
      <4>2. changed \in [1 .. Len(old) -> Entries]
        BY <1>2, <4>1
      <4>3. \A i \in 1 .. Len(old) : changed[i] = IF i = next THEN entry ELSE old[i]
        BY <4>1
      <4> HIDE DEF changed, entry
      <4> QED
        BY <4>1, <4>2, <4>3
    <3> DEFINE replaced == [entries |-> changed, writeIdx |-> (next % CAPACITY) + 1]
    <3> HIDE DEF changed
    <3>4. /\ replaced \in [entries : Seq(Entries), writeIdx : 1 .. CAPACITY]
          /\ replaced.entries = changed
      BY <3>2, <3>3
    <3>5. /\ local' = [local EXCEPT ![u] = replaced] /\ Len(replaced.entries) <= CAPACITY
          /\ \A i \in DOMAIN replaced.entries :
               replaced.entries[i] = entry \/ (i \in DOMAIN old /\ replaced.entries[i] = old[i])
      BY <1>1, <3>1, <3>3, <3>4
    <3> HIDE DEF replaced
    <3> QED
      BY <3>4, <3>5
  <2> QED
    BY <2>1, <2>2, <2>3
<1>4. /\ local'[u] = new /\ \A v \in Users \ {u} : local'[v] = local[v]
  BY <1>1, <1>3
<1>5. LocalTypes'
  <2>1. local' \in [Users -> [entries : Seq(Entries), writeIdx : 1 .. CAPACITY]]
    BY <1>1, <1>3
  <2> QED
    BY <1>3, <1>4, <2>1 DEF IInv, Types, LocalTypes
<1>6. LocalInv'
  <2>1. \A t \in Tables : \A e : EntryOk(e, t) => EntryOk(e, t)'
    BY DEF EntryOk, Kept
  <2>2. entry.gen <= storage' /\ entry.id \in DOMAIN rows'["string"]
        /\ rows'["string"][entry.id] = entry.text
    <3>1. Means("string", id, job[u].name)' /\ job'[u].name = job[u].name /\ job[u].gen = storage'
      OBVIOUS
    <3>2. storage \in Nat
      BY StorageAssumption DEF IInv, Types, ControlTypes
    <3>3. id \in DOMAIN rows'["string"] /\ rows'["string"][id] = job[u].name
      BY <3>1 DEF Means
    <3> QED
      BY <3>1, <3>2, <3>3
  <2>3. ASSUME NEW v \in Users, NEW i \in DOMAIN local'[v].entries
        PROVE  EntryOk(local[v].entries[i], "string")'
    <3>1. CASE v = u /\ new.entries[i] = entry
      <4>1. local'[v].entries[i] = entry
        BY <1>4, <3>1
      <4> QED
        BY <2>2, <4>1 DEF EntryOk, Means
    <3>2. CASE i \in DOMAIN local[v].entries /\ local'[v].entries[i] = local[v].entries[i]
      <4>1. EntryOk(local[v].entries[i], "string")
        BY <3>2 DEF IInv, LocalInv
      <4>2. local[v].entries[i].gen <= storage' /\
              (local[v].entries[i].gen = storage' =>
                 /\ local[v].entries[i].id \in DOMAIN rows'["string"]
                 /\ rows'["string"][local[v].entries[i].id] = local[v].entries[i].text)
        BY <4>1, Basics DEF EntryOk, Kept, Means
      <4> QED
        BY <3>2, <4>2 DEF EntryOk, Means
    <3> QED
      BY <1>3, <1>4, <2>3, <3>1, <3>2
  <2>4. \A v \in Users : EntryOk(ulocal[v], "ustring")'
    BY <2>1, Basics DEF IInv, LocalInv, EntryOk, Means, Kept
  <2> QED
    BY <2>3, <2>4 DEF LocalInv
<1> QED
  BY <1>5, <1>6

\* The id of a string, from the string table.
LEMMA ObtainedStep ==
    ASSUME IInv, TableTypes', Kept, NEW c \in Callers, pc[c] \in {"find", "create", "insert"},
           NEW id, Obtained(c, id), id \in DOMAIN rows'["string"],
           rows'["string"][id] = job[c].name
    PROVE  /\ OneCaller(c) /\ JobInv' /\ LocalTypes' /\ LocalInv'
           /\ pc'[c] \in {"arg", "row"} /\ job'[c].table = job[c].table
<1>1. /\ Named(c, id)
      /\ UNCHANGED <<ulocal, storage, finalized, overhead, flushing, ctl, position, calls>>
      /\ IF c \in Users THEN Remember(c, id) ELSE UNCHANGED local
  BY DEF Obtained, others
<1>2. job'[c].name = job[c].name
  <2>1. job' = [job EXCEPT ![c] = [job[c] EXCEPT !.nameId = id]]
    BY <1>1 DEF Named
  <2>2. job \in [Callers -> Jobs] /\ job[c] \in Jobs
    BY DEF IInv, Types, CallerTypes
  <2> QED
    BY <2>1, <2>2 DEF Jobs
<1>3. Means("string", id, job[c].name)'
  BY <1>2 DEF Means
<1>4. /\ OneCaller(c) /\ JobInv' /\ id \in Nat /\ pc'[c] \in {"arg", "row"}
      /\ job'[c].table = job[c].table
  BY <1>1, <1>3, NamedStep
<1>5. LocalTypes' /\ LocalInv'
  <2>1. CASE c \in Users
    <3>1. job[c].gen = storage
      BY <2>1 DEF IInv, JobInv
    <3> QED
      BY <1>1, <1>2, <1>3, <1>4, <2>1, <3>1, RememberStep
  <2>2. CASE c \notin Users
    BY <1>1, <2>2, LocalFrame DEF caches
  <2> QED
    BY <2>1, <2>2
<1> QED
  BY <1>4, <1>5

LEMMA RowsFrame ==
    ASSUME IInv, UNCHANGED <<tables, cache>>
    PROVE  Kept /\ TableTypes' /\ EmptyInv' /\ CacheInv' /\ RightStrings' /\ FinalizeKeepsAll'
<1>1. rows' = rows /\ stored' = stored /\ visible' = visible /\ finalized' = finalized
  BY DEF tables
<1>2. Kept
  BY <1>1, SameRows
<1>3. TableTypes'
  BY <1>1 DEF IInv, Types, TableTypes
<1>4. FinalizeKeepsAll'
  BY <1>1 DEF IInv, FinalizeKeepsAll
<1> QED
  BY <1>1, <1>2, <1>3, <1>4, EmptyFrame, CacheFrame, RightFrame

-----------------------------------------------------------------------------
(* The steps of callers *)

LEMMA CallInv == ASSUME IInv, NEW u \in Users, Call(u) PROVE IInv'
<1>1. PICK table \in {"op", "api"}, name \in Names, arg \in Args :
        job' = [job EXCEPT ![u] = [NoJob EXCEPT !.table = table, !.name = name,
                    !.arg = IF table = "op" THEN Empty ELSE arg, !.gen = storage]]
  BY DEF Call
<1> DEFINE new == [NoJob EXCEPT !.table = table, !.name = name,
                    !.arg = IF table = "op" THEN Empty ELSE arg, !.gen = storage]
<1>2. /\ pc[u] = "idle" /\ ctl = "idle" /\ calls < MaxCalls /\ calls' = calls + 1
      /\ pc' = [pc EXCEPT ![u] = "lookup"]
      /\ UNCHANGED <<tables, shared, caches, storage, overhead, flushing, mark, ctl, position>>
  BY DEF Call, Goto
<1>3. /\ pc \in [Callers -> Places] /\ job \in [Callers -> Jobs] /\ u \in Callers
      /\ u \notin {"string", "ustring", "op", "api", "rpdflush"}
  BY Basics DEF IInv, Types, CallerTypes
<1>4. /\ new \in Jobs /\ new.gen = storage /\ new.argId = 1 /\ new.table = table
      /\ new.table = "op" => new.arg = Empty
  <2>1. name \in Texts /\ arg \in Texts /\ Empty \in Texts /\ storage \in Nat
    BY StorageAssumption DEF Texts, IInv, Types, ControlTypes
  <2> QED
    BY <2>1 DEF NoJob, Jobs
<1> HIDE DEF new
<1>5. /\ pc'[u] = "lookup" /\ job'[u] = new
      /\ \A d \in Callers \ {u} : pc'[d] = pc[d] /\ job'[d] = job[d]
      /\ pc' \in [Callers -> Places] /\ job' \in [Callers -> Jobs]
  BY <1>1, <1>2, <1>3, <1>4 DEF Places, new
<1>6. /\ Kept /\ TableTypes' /\ EmptyInv' /\ CacheInv' /\ RightStrings' /\ FinalizeKeepsAll'
  BY <1>2, RowsFrame DEF shared
<1>7. LocalTypes' /\ LocalInv'
  BY <1>2, <1>6, LocalFrame
<1>8. ControlTypes'
  BY <1>2, StorageAssumption DEF IInv, Types, ControlTypes, tables
<1>9. ControlInv'
  BY <1>2, <1>3, <1>5, Basics DEF IInv, ControlInv, tables
<1>10. LockInv' /\ CacheTypes'
  BY <1>2, <1>3, <1>5 DEF IInv, Types, LockInv, CacheTypes, shared
<1>11. JobInv'
  <2>2. \A v \in Users : pc'[v] # "idle" => job'[v].gen = storage'
    BY <1>2, <1>4, <1>5, Basics DEF IInv, JobInv
  <2>3. \A d \in Callers : job'[d].table = "op" /\ pc'[d] \in {"lookup", "find", "create", "insert"}
          => job'[d].arg = Empty /\ job'[d].argId = 1
    BY <1>4, <1>5 DEF IInv, JobInv
  <2>4. \A d \in Callers : pc'[d] \in {"arg", "row"} =>
          d # u /\ pc[d] = pc'[d] /\ job'[d] = job[d]
    BY <1>5
  <2>5. /\ \A d \in Callers : pc'[d] \in {"arg", "row"} => Means("string", job[d].nameId, job[d].name)'
        /\ \A d \in Callers : pc'[d] = "row" => Means("ustring", job[d].argId, job[d].arg)'
    BY <1>2, <2>4 DEF IInv, JobInv, Means, tables
  <2> QED
    BY <2>2, <2>3, <2>5 DEF JobInv
<1> QED
  BY <1>5, <1>6, <1>7, <1>8, <1>9, <1>10, <1>11 DEF IInv, Types, CallerTypes

LEMMA LookupInv == ASSUME IInv, NEW u \in Users, Lookup(u) PROVE IInv'
<1>1. /\ pc[u] = "lookup" /\ u \in Callers
      /\ UNCHANGED <<tables, shared, caches, storage, overhead, flushing, mark, ctl, position, calls>>
  BY Basics DEF Lookup, others
<1>2. /\ Kept /\ TableTypes' /\ EmptyInv' /\ CacheInv' /\ RightStrings' /\ FinalizeKeepsAll'
  BY <1>1, RowsFrame DEF shared
<1>3. LocalTypes' /\ LocalInv'
  BY <1>1, <1>2, LocalFrame
<1>4. OneCaller(u) /\ JobInv' /\ pc'[u] # "insert" /\ job'[u].table = job[u].table
  <2>1. ASSUME NEW i \in Entry(u), SameGeneration(u, i), Named(u, local[u].entries[i].id)
        PROVE  OneCaller(u) /\ JobInv' /\ pc'[u] # "insert" /\ job'[u].table = job[u].table
    <3>1. /\ i \in DOMAIN local[u].entries /\ local[u].entries[i].text = job[u].name
          /\ local[u].entries[i].gen = storage
      BY <1>1, <2>1 DEF Entry, SameGeneration, IInv, JobInv
    <3>2. Means("string", local[u].entries[i].id, job[u].name)
      BY <3>1 DEF IInv, LocalInv, EntryOk
    <3>3. job'[u].name = job[u].name
      <4>1. job' = [job EXCEPT ![u] = [job[u] EXCEPT !.nameId = local[u].entries[i].id]]
        BY <2>1 DEF Named
      <4>2. job \in [Callers -> Jobs] /\ job[u] \in Jobs
        BY <1>1 DEF IInv, Types, CallerTypes
      <4> QED
        BY <1>1, <4>1, <4>2 DEF Jobs
    <3> DEFINE id == local[u].entries[i].id
    <3>4. Means("string", id, job[u].name)'
      BY <1>1, <3>2, <3>3 DEF Means, tables, caches
    <3>5. /\ Named(u, id) /\ id' = id
          /\ UNCHANGED <<storage, finalized, overhead, flushing, ctl, position, calls>>
      BY <1>1, <2>1 DEF tables, caches
    <3>6. id \in DOMAIN rows'["string"] /\ rows'["string"][id] = job'[u].name
      BY <3>4, <3>5 DEF Means
    <3> HIDE DEF id
    <3>7. PICK n : n = id
      OBVIOUS
    <3>8. Named(u, n) /\ Means("string", n, job[u].name)'
      BY <3>5, <3>6, <3>7 DEF Means
    <3> QED
      BY <1>1, <1>2, <3>5, <3>8, NamedStep
  <2>2. CASE Goto(u, "find") /\ UNCHANGED job
    <3>1. UNCHANGED <<rows, storage, finalized, overhead, flushing, ctl, position, calls>>
      BY <1>1 DEF tables
    <3>2. OneCaller(u) /\ JobInv'
      BY <1>1, <2>2, <3>1, GotoStep
    <3>3. pc'[u] = "find"
      BY <1>1, <2>2 DEF Goto, IInv, Types, CallerTypes
    <3> QED
      BY <2>2, <3>2, <3>3
  <2> QED
    BY <2>1, <2>2 DEF Lookup
<1>5. CallerTypes' /\ ControlTypes' /\ ControlInv'
  BY <1>1, <1>4, CallerControl
<1>6. LockInv' /\ CacheTypes'
  BY <1>1, <1>4, LockFrame
<1> QED
  BY <1>2, <1>3, <1>4, <1>5, <1>6 DEF IInv, Types

\* StringTable::getOrCreate under the shared lock, and again under the exclusive one.
LEMMA FindCreateInv == ASSUME IInv, NEW c \in Callers, Find(c) \/ Create(c) PROVE IInv'
<1>1. /\ pc[c] \in {"find", "create"} /\ cacheOwner = Nobody
      /\ UNCHANGED <<tables, cache, storage, overhead, flushing, mark, ctl, position, calls>>
  BY DEF Find, Create, Obtained, tables, shared, others
<1>2. /\ Kept /\ TableTypes' /\ EmptyInv' /\ CacheInv' /\ RightStrings' /\ FinalizeKeepsAll'
  BY <1>1, RowsFrame
<1>3. CASE Known(c) /\ Obtained(c, cache[job[c].name]) /\ UNCHANGED shared
  <2>1. /\ cache[job[c].name] \in DOMAIN rows'["string"]
        /\ rows'["string"][cache[job[c].name]] = job[c].name
    BY <1>1, <1>3 DEF Known, IInv, CacheInv, Means, tables
  <2>2. /\ OneCaller(c) /\ JobInv' /\ LocalTypes' /\ LocalInv'
        /\ pc'[c] \in {"arg", "row"} /\ job'[c].table = job[c].table
    BY <1>1, <1>2, <1>3, <2>1, ObtainedStep
  <2>3. CallerTypes' /\ ControlTypes' /\ ControlInv'
    BY <1>1, <2>2, CallerControl
  <2>4. LockInv' /\ CacheTypes'
    BY <1>1, <1>3, <2>2, LockFrame
  <2> QED
    BY <1>2, <2>2, <2>3, <2>4 DEF IInv, Types
<1>4. CASE \/ Goto(c, "create") /\ UNCHANGED <<cacheOwner, job, caches>>
           \/ Goto(c, "insert") /\ cacheOwner' = c /\ ~Known(c) /\ UNCHANGED <<job, caches>>
  <2>1. PICK place \in {"create", "insert"} : Goto(c, place) /\ UNCHANGED <<job, caches>>
    BY <1>4
  <2>2. UNCHANGED <<rows, finalized, storage>>
    BY <1>1 DEF tables
  <2>3. OneCaller(c) /\ JobInv'
    BY <1>1, <2>1, <2>2, GotoStep
  <2>4. CallerTypes' /\ ControlTypes' /\ ControlInv'
    BY <1>1, <2>1, <2>3, CallerControl
  <2>5. LocalTypes' /\ LocalInv'
    BY <1>1, <1>2, <2>1, LocalFrame
  <2>6. LockInv' /\ CacheTypes'
    <3>1. pc \in [Callers -> Places] /\ \A d \in Callers : pc[d] # "insert"
      BY <1>1, Basics DEF IInv, Types, CallerTypes, LockInv
    <3>2. \A d \in Callers \ {c} : pc'[d] = pc[d]
      BY <2>3 DEF OneCaller
    <3>3. CASE Goto(c, "create") /\ UNCHANGED <<cacheOwner, job>>
      BY <1>1, <3>1, <3>2, <3>3, Basics DEF Goto, IInv, Types, CacheTypes, LockInv
    <3>4. CASE Goto(c, "insert") /\ cacheOwner' = c /\ ~Known(c) /\ UNCHANGED job
      BY <1>1, <3>1, <3>2, <3>4, Basics DEF Goto, Known, IInv, Types, CacheTypes, LockInv
    <3> QED
      BY <1>4, <3>3, <3>4
  <2> QED
    BY <1>2, <2>3, <2>4, <2>5, <2>6 DEF IInv, Types
<1> QED
  BY <1>3, <1>4 DEF Find, Create, KnownByNow, shared

LEMMA InsertStringInv == ASSUME IInv, NEW c \in Callers, InsertString(c) PROVE IInv'
<1> DEFINE id == Len(rows["string"]) + 1
           name == job[c].name
<1>1. /\ pc[c] = "insert" /\ Accept("string", name) /\ Obtained(c, id) /\ cacheOwner' = Nobody
      /\ cache' = [text \in DOMAIN cache \cup {name} |-> IF text = name THEN id ELSE cache[text]]
      /\ UNCHANGED <<ulocal, stored, visible, finalized, storage, overhead, flushing, mark, ctl,
                     position, calls>>
  BY DEF InsertString, Obtained, others
<1>2. name \in Texts /\ "string" \in Tables /\ TableTypes
  BY Basics DEF IInv, Types, CallerTypes, Jobs
<1>3. /\ TableTypes' /\ Kept
      /\ DOMAIN rows'["string"] = 1 .. id /\ DOMAIN rows["string"] = 1 .. Len(rows["string"])
      /\ rows'["string"][id] = name
      /\ \A i \in DOMAIN rows["string"] : rows'["string"][i] = rows["string"][i]
      /\ \A s \in Tables \ {"string"} : rows'[s] = rows[s]
      /\ Len(rows["string"]) \in Nat
  <2>1. Len(rows["string"]) \in Nat
    BY DEF IInv, Types, TableTypes
  <2>2. UNCHANGED <<stored, visible>>
    BY <1>1
  <2> QED
    BY <1>1, <1>2, <2>1, <2>2, AcceptFacts
<1>4. /\ id \in DOMAIN rows'["string"] /\ name \notin DOMAIN cache
      /\ DOMAIN cache' = DOMAIN cache \cup {name} /\ cache'[name] = id
      /\ \A text \in DOMAIN cache : cache'[text] = cache[text]
  BY <1>1, <1>3 DEF IInv, LockInv
<1>5. CacheInv'
  <2>1. ASSUME NEW text \in DOMAIN cache' PROVE Means("string", cache[text], text)'
    <3>1. CASE text = name
      BY <1>3, <1>4, <3>1 DEF Means
    <3>2. CASE text \in DOMAIN cache
      <4>1. Means("string", cache[text], text)
        BY <3>2 DEF IInv, CacheInv
      <4>2. cache[text] \in DOMAIN rows["string"] /\ rows["string"][cache[text]] = text
        BY <4>1 DEF Means
      <4> QED
        BY <1>3, <1>4, <3>2, <4>2 DEF Means
    <3> QED
      BY <1>4, <3>1, <3>2
  <2>2. ASSUME NEW i \in DOMAIN rows'["string"]
        PROVE  rows'["string"][i] \in DOMAIN cache' /\ cache'[rows'["string"][i]] = i
    <3>1. CASE i = id
      BY <1>3, <1>4, <3>1
    <3>2. CASE i \in DOMAIN rows["string"]
      <4>1. rows["string"][i] \in DOMAIN cache /\ cache[rows["string"][i]] = i
        BY <3>2 DEF IInv, CacheInv
      <4> QED
        BY <1>3, <1>4, <3>2, <4>1
    <3> QED
      BY <1>3, <3>1, <3>2
  <2> QED
    BY <2>1, <2>2 DEF CacheInv
<1>6. /\ OneCaller(c) /\ JobInv' /\ LocalTypes' /\ LocalInv'
      /\ pc'[c] \in {"arg", "row"} /\ job'[c].table = job[c].table
  <2> HIDE DEF id
  <2> QED
    BY <1>1, <1>3, <1>4, ObtainedStep
<1>7. CallerTypes' /\ ControlTypes' /\ ControlInv'
  BY <1>1, <1>6, CallerControl
<1>8. LockInv' /\ CacheTypes'
  <2>1. \A d \in Callers \ {c} : pc[d] # "insert"
    BY <1>1 DEF IInv, LockInv
  <2>2. \A d \in Callers : pc'[d] # "insert"
    BY <1>6, <2>1 DEF OneCaller
  <2> QED
    BY <1>1, <1>2, <1>4, <2>2, Basics DEF IInv, Types, LockInv, CacheTypes
<1>9. EmptyInv' /\ RightStrings'
  BY <1>3, Basics, EmptyFrame, RightFrame
<1>10. FinalizeKeepsAll'
  <2>1. "string" \notin finalized
    BY <1>1, Busy
  <2> QED
    BY <1>1, <1>3, <2>1 DEF IInv, Types, ControlTypes, FinalizeKeepsAll
<1> QED
  BY <1>3, <1>5, <1>6, <1>7, <1>8, <1>9, <1>10 DEF IInv, Types

\* A caller has the id of its argument, too.
LEMMA HasArgStep ==
    ASSUME IInv, TableTypes', Kept, NEW c \in Callers, pc[c] = "arg", NEW id, HasArg(c, id),
           id \in DOMAIN rows'["ustring"], rows'["ustring"][id] = job[c].arg,
           UNCHANGED <<storage, finalized, overhead, flushing, ctl, position, calls>>
    PROVE  OneCaller(c) /\ JobInv' /\ pc'[c] = "row" /\ job'[c].table = job[c].table
<1>1. id \in Nat
  <2>1. rows'["ustring"] \in Seq(Texts)
    BY DEF TableTypes
  <2> QED
    BY <2>1
<1>2. /\ job' = [job EXCEPT ![c] = [job[c] EXCEPT !.argId = id]] /\ pc' = [pc EXCEPT ![c] = "row"]
      /\ job \in [Callers -> Jobs] /\ pc \in [Callers -> Places] /\ job[c] \in Jobs
  BY DEF HasArg, Goto, IInv, Types, CallerTypes
<1>3. /\ job'[c] = [job[c] EXCEPT !.argId = id] /\ pc'[c] = "row"
      /\ \A d \in Callers \ {c} : pc'[d] = pc[d] /\ job'[d] = job[d]
  BY <1>2
<1>4. /\ job'[c] \in Jobs /\ job'[c].argId = id
      /\ job'[c].name = job[c].name /\ job'[c].arg = job[c].arg /\ job'[c].nameId = job[c].nameId
      /\ job'[c].gen = job[c].gen /\ job'[c].table = job[c].table
  BY <1>1, <1>2, <1>3 DEF Jobs
<1>5. OneCaller(c)
  <2>1. pc' \in [Callers -> Places]
    BY <1>2 DEF Places
  <2>2. job' \in [Callers -> Jobs]
    BY <1>2, <1>3, <1>4
  <2> QED
    BY <1>3, <2>1, <2>2 DEF OneCaller
<1>6. JobInv'
  <2>0. \A d \in Callers : pc'[d] # "idle" => pc[d] # "idle" /\ job'[d].gen = job[d].gen
    BY <1>3, <1>4
  <2>1. \A u \in Users : pc'[u] # "idle" => job'[u].gen = storage'
    BY <2>0, Basics DEF IInv, JobInv
  <2>2. \A d \in Callers : job'[d].table = "op" /\ pc'[d] \in {"lookup", "find", "create", "insert"}
          => job'[d].arg = Empty /\ job'[d].argId = 1
    BY <1>3 DEF IInv, JobInv
  <2>3. ASSUME NEW d \in Callers, pc'[d] \in {"arg", "row"}
        PROVE  Means("string", job[d].nameId, job[d].name)'
    <3>1. Means("string", job[d].nameId, job[d].name)
      BY <1>3, <2>3 DEF IInv, JobInv
    <3>2. job[d].nameId \in DOMAIN rows'["string"] /\ rows'["string"][job[d].nameId] = job[d].name
      BY <3>1, Basics DEF Kept, Means
    <3> QED
      BY <1>3, <1>4, <3>2 DEF Means
  <2>4. ASSUME NEW d \in Callers, pc'[d] = "row"
        PROVE  Means("ustring", job[d].argId, job[d].arg)'
    <3>1. CASE d = c
      BY <1>4, <3>1 DEF Means
    <3>2. CASE d # c
      <4>1. Means("ustring", job[d].argId, job[d].arg)
        BY <1>3, <2>4, <3>2 DEF IInv, JobInv
      <4>2. job[d].argId \in DOMAIN rows'["ustring"] /\ rows'["ustring"][job[d].argId] = job[d].arg
        BY <4>1, Basics DEF Kept, Means
      <4> QED
        BY <1>3, <3>2, <4>2 DEF Means
    <3> QED
      BY <3>1, <3>2
  <2> QED
    BY <2>1, <2>2, <2>3, <2>4 DEF JobInv
<1> QED
  BY <1>3, <1>4, <1>5, <1>6

LEMMA ArgInv == ASSUME IInv, NEW c \in Callers, Arg(c) PROVE IInv'
<1>1. /\ pc[c] = "arg"
      /\ UNCHANGED <<stored, visible, finalized, shared, local, storage, overhead, flushing, mark, ctl,
                     position, calls>>
  BY DEF Arg, others
<1>2. /\ job[c].arg \in Texts /\ "ustring" \in Tables /\ TableTypes
      /\ c \in Users => job[c].gen = storage
  BY <1>1, Basics DEF IInv, Types, CallerTypes, Jobs, JobInv
<1>3. ASSUME TableTypes', Kept, \A t \in {"string", "op", "api"} : rows'[t] = rows[t],
             FinalizeKeepsAll', LocalTypes', LocalInv',
             NEW id, HasArg(c, id), id \in DOMAIN rows'["ustring"], rows'["ustring"][id] = job[c].arg
      PROVE  IInv'
  <2>1. OneCaller(c) /\ JobInv' /\ pc'[c] = "row" /\ job'[c].table = job[c].table
    BY <1>1, <1>3, HasArgStep
  <2>2. CallerTypes' /\ ControlTypes' /\ ControlInv'
    BY <1>1, <2>1, CallerControl
  <2>3. LockInv' /\ CacheTypes'
    BY <1>1, <2>1, LockFrame
  <2>4. EmptyInv' /\ RightStrings' /\ CacheInv'
    BY <1>1, <1>3, EmptyFrame, RightFrame, CacheFrame DEF shared
  <2> QED
    BY <1>3, <2>1, <2>2, <2>3, <2>4 DEF IInv, Types
<1>4. CASE UNCHANGED <<rows, ulocal>>
  <2>1. Kept /\ TableTypes' /\ FinalizeKeepsAll'
    BY <1>1, <1>4, RowsFrame DEF tables, shared
  <2>2. LocalTypes' /\ LocalInv'
    BY <1>1, <1>4, <2>1, LocalFrame DEF caches
  <2>3. ASSUME job[c].arg = Empty, HasArg(c, 1) PROVE IInv'
    <3>1. 1 \in DOMAIN rows'["ustring"] /\ rows'["ustring"][1] = job[c].arg
      BY <1>4, <2>3 DEF IInv, EmptyInv, Means
    <3> QED
      BY <1>3, <1>4, <2>1, <2>2, <2>3, <3>1
  <2>4. ASSUME c \in Users, ValidSlot(c), ulocal[c].text = job[c].arg, HasArg(c, ulocal[c].id)
        PROVE  IInv'
    <3>1. EntryOk(ulocal[c], "ustring") /\ ulocal[c].gen = storage
      BY <1>2, <2>4 DEF IInv, LocalInv, ValidSlot
    <3>2. ulocal[c].id \in DOMAIN rows'["ustring"] /\ rows'["ustring"][ulocal[c].id] = job[c].arg
      BY <1>4, <2>4, <3>1 DEF EntryOk, Means
    <3> QED
      BY <1>3, <1>4, <2>1, <2>2, <2>4, <3>2
  <2>5. CASE /\ HasArg(c, Len(rows["ustring"]) + 1) /\ Accept("ustring", job[c].arg)
    <3>1. Len(rows'["ustring"]) = Len(rows["ustring"]) + 1 /\ Len(rows["ustring"]) \in Nat
      BY <1>1, <1>2, <2>5, AcceptFacts DEF TableTypes
    <3> QED
      BY <1>4, <3>1
  <2> QED
    BY <2>3, <2>4, <2>5 DEF Arg
<1>5. CASE /\ Accept("ustring", job[c].arg) /\ HasArg(c, Len(rows["ustring"]) + 1)
           /\ ulocal' = IF c \in Users
                        THEN [ulocal EXCEPT ![c] = [gen |-> job[c].gen, text |-> job[c].arg,
                                                    id |-> Len(rows["ustring"]) + 1]]
                        ELSE ulocal
  <2> DEFINE id == Len(rows["ustring"]) + 1
  <2>1. /\ TableTypes' /\ Kept /\ id \in Nat
        /\ id \in DOMAIN rows'["ustring"] /\ rows'["ustring"][id] = job[c].arg
        /\ \A s \in Tables \ {"ustring"} : rows'[s] = rows[s]
    <3>1. Len(rows["ustring"]) \in Nat
      BY DEF IInv, Types, TableTypes
    <3>2. UNCHANGED <<stored, visible>>
      BY <1>1
    <3> QED
      BY <1>2, <1>5, <3>1, <3>2, AcceptFacts
  <2>2. FinalizeKeepsAll'
    <3>1. "ustring" \notin finalized
      BY <1>1, Busy
    <3> QED
      BY <1>1, <2>1, <3>1 DEF IInv, Types, ControlTypes, FinalizeKeepsAll
  <2> DEFINE entry == [gen |-> job[c].gen, text |-> job[c].arg, id |-> id]
  <2>3. job[c].gen \in Nat /\ entry \in Entries
    BY <1>2, <2>1 DEF IInv, Types, CallerTypes, Jobs, Entries
  <2>4. LocalTypes'
    <3>1. ulocal' \in [Users -> Entries]
      BY <1>5, <2>3 DEF IInv, Types, LocalTypes
    <3> QED
      BY <1>1, <3>1 DEF IInv, Types, LocalTypes
  <2>5. LocalInv'
    <3>1. \A u \in Users : \A i \in DOMAIN local'[u].entries : EntryOk(local[u].entries[i], "string")'
      BY <1>1, <2>1, Basics DEF IInv, LocalInv, EntryOk, Kept, Means
    <3>2. ASSUME NEW u \in Users PROVE EntryOk(ulocal[u], "ustring")'
      <4>1. CASE u = c
        <5>1. ulocal'[u] = entry /\ job[c].gen = storage
          BY <1>2, <1>5, <4>1 DEF IInv, Types, LocalTypes
        <5>2. storage' = storage /\ storage \in Nat
          BY <1>1, StorageAssumption DEF IInv, Types, ControlTypes
        <5>3. ulocal'[u].gen = storage /\ ulocal'[u].id = id /\ ulocal'[u].text = job[c].arg
          BY <5>1
        <5> QED
          BY <2>1, <5>2, <5>3 DEF EntryOk, Means
      <4>2. CASE u # c
        <5>1. ulocal'[u] = ulocal[u]
          BY <1>5, <4>2 DEF IInv, Types, LocalTypes
        <5>2. EntryOk(ulocal[u], "ustring")
          BY DEF IInv, LocalInv
        <5> QED
          BY <1>1, <2>1, <5>1, <5>2, Basics DEF EntryOk, Kept, Means
      <4> QED
        BY <4>1, <4>2
    <3> QED
      BY <3>1, <3>2 DEF LocalInv
  <2>6. HasArg(c, id) /\ \A t \in {"string", "op", "api"} : rows'[t] = rows[t]
    BY <1>5, <2>1, Basics
  <2> HIDE DEF id
  <2> QED
    BY <1>3, <2>1, <2>2, <2>4, <2>5, <2>6
<1> QED
  BY <1>4, <1>5 DEF Arg

LEMMA InsertRowInv == ASSUME IInv, NEW c \in Callers, InsertRow(c) PROVE IInv'
<1> DEFINE t == job[c].table
           row == [name |-> job[c].name, nameId |-> job[c].nameId,
                   arg |-> job[c].arg, argId |-> job[c].argId]
<1>1. /\ pc[c] = "row" /\ Accept(t, row) /\ job' = [job EXCEPT ![c] = NoJob]
      /\ pc' = [pc EXCEPT ![c] = "idle"]
      /\ UNCHANGED <<stored, visible, finalized, shared, caches, storage, overhead, flushing, mark, ctl,
                     position, calls>>
  BY DEF InsertRow, Goto, others
<1>2. /\ t \in {"op", "api"} /\ t \in Tables /\ t \notin finalized /\ row \in Rows /\ TableTypes
      /\ Means("string", row.nameId, row.name) /\ Means("ustring", row.argId, row.arg)
  <2>1. t \in {"op", "api"} /\ t \notin finalized
    BY <1>1, Busy
  <2>2. row \in Rows
    BY DEF IInv, Types, CallerTypes, Jobs, Rows
  <2> QED
    BY <1>1, <2>1, <2>2, Basics DEF IInv, Types, JobInv
<1>3. /\ TableTypes' /\ Kept
      /\ DOMAIN rows'[t] = 1 .. Len(rows[t]) + 1 /\ DOMAIN rows[t] = 1 .. Len(rows[t])
      /\ rows'[t][Len(rows[t]) + 1] = row
      /\ \A i \in DOMAIN rows[t] : rows'[t][i] = rows[t][i]
      /\ \A s \in Tables \ {t} : rows'[s] = rows[s]
      /\ Len(rows[t]) \in Nat
  <2>1. Len(rows[t]) \in Nat
    BY <1>2 DEF TableTypes
  <2>2. t \notin {"string", "ustring"} /\ UNCHANGED <<stored, visible>>
    BY <1>1, <1>2
  <2> HIDE DEF t, row
  <2> QED
    BY <1>1, <1>2, <2>1, <2>2, AcceptFacts
<1>4. /\ pc'[c] = "idle" /\ job'[c] = NoJob
      /\ \A d \in Callers \ {c} : pc'[d] = pc[d] /\ job'[d] = job[d]
      /\ OneCaller(c)
  BY <1>1, NoJobFacts DEF IInv, Types, CallerTypes, Places, OneCaller
<1>5. CallerTypes' /\ ControlTypes' /\ ControlInv'
  BY <1>1, <1>4, CallerControl, NoJobFacts
<1>6. LockInv' /\ CacheTypes'
  BY <1>1, <1>4, LockFrame
<1>7. LocalTypes' /\ LocalInv'
  BY <1>1, <1>3, LocalFrame
<1>8. rows'["string"] = rows["string"] /\ rows'["ustring"] = rows["ustring"]
  BY <1>2, <1>3, Basics
<1>9. EmptyInv' /\ CacheInv'
  BY <1>1, <1>3, <1>8, EmptyFrame, CacheFrame DEF shared
<1>10. JobInv'
  <2>1. \A i, x : Means("string", i, x)' = Means("string", i, x)
                  /\ Means("ustring", i, x)' = Means("ustring", i, x)
    BY <1>8 DEF Means
  <2>2. /\ \A u \in Users : pc'[u] # "idle" => job'[u].gen = storage'
        /\ \A d \in Callers : job'[d].table = "op" /\ pc'[d] \in {"lookup", "find", "create", "insert"}
             => job'[d].arg = Empty /\ job'[d].argId = 1
    BY <1>1, <1>4, Basics DEF IInv, JobInv
  <2>3. /\ \A d \in Callers : pc'[d] \in {"arg", "row"} => Means("string", job[d].nameId, job[d].name)'
        /\ \A d \in Callers : pc'[d] = "row" => Means("ustring", job[d].argId, job[d].arg)'
    BY <1>4, <1>8 DEF IInv, JobInv, Means
  <2> QED
    BY <2>2, <2>3 DEF JobInv
<1>11. RightStrings'
  <2>1. ASSUME NEW s \in {"op", "api"}, NEW i \in DOMAIN rows'[s]
        PROVE  Means("string", rows[s][i].nameId, rows[s][i].name)'
               /\ Means("ustring", rows[s][i].argId, rows[s][i].arg)'
    <3>1. \/ rows'[s][i] = row
          \/ i \in DOMAIN rows[s] /\ rows'[s][i] = rows[s][i]
      <4>1. CASE s = t
        <5> HIDE DEF row, t
        <5>1. i = Len(rows[t]) + 1 \/ i \in DOMAIN rows[t]
          BY <1>3, <2>1, <4>1
        <5> QED
          BY <1>3, <4>1, <5>1
      <4>2. CASE s # t
        <5>1. rows'[s] = rows[s]
          BY <1>3, <4>2, Basics
        <5> QED
          BY <2>1, <5>1
      <4> QED
        BY <4>1, <4>2
    <3>2. CASE rows'[s][i] = row
      <4> HIDE DEF row
      <4> QED
        BY <1>2, <1>8, <3>2 DEF Means
    <3>3. CASE i \in DOMAIN rows[s] /\ rows'[s][i] = rows[s][i]
      <4>1. /\ Means("string", rows[s][i].nameId, rows[s][i].name)
            /\ Means("ustring", rows[s][i].argId, rows[s][i].arg)
        BY <3>3 DEF IInv, RightStrings
      <4> QED
        BY <1>8, <3>3, <4>1 DEF Means
    <3> QED
      BY <3>1, <3>2, <3>3
  <2> QED
    BY <2>1 DEF RightStrings, Means
<1>12. FinalizeKeepsAll'
  BY <1>1, <1>2, <1>3 DEF IInv, Types, ControlTypes, FinalizeKeepsAll
<1> QED
  BY <1>3, <1>5, <1>6, <1>7, <1>9, <1>10, <1>11, <1>12 DEF IInv, Types

-----------------------------------------------------------------------------
(* Workers, rpdflush() and the end *)

\* Who writes a record about itself was not at work.
LEMMA RecordStep ==
    ASSUME IInv, NEW c \in {"op", "api", "rpdflush"}, pc[c] = "idle", c \notin finalized,
           c = "rpdflush" => ctl = "idle" /\ flushing' = 0,
           NEW arg \in Texts, Record(c, arg) \/ UNCHANGED <<job, pc>>, Kept, TableTypes',
           UNCHANGED <<rows, cache, cacheOwner, finalized, storage, overhead, ctl, position, calls>>,
           flushing' \in 0 .. 4, ctl # "idle" => flushing' = flushing,
           flushing' > 0 => pc["rpdflush"] = "idle"
    PROVE  /\ CallerTypes' /\ ControlTypes' /\ ControlInv' /\ LockInv' /\ CacheTypes' /\ JobInv'
<1>1. /\ pc \in [Callers -> Places] /\ job \in [Callers -> Jobs] /\ c \in Callers /\ c \notin Users
  BY Basics DEF IInv, Types, CallerTypes
<1>2. ControlTypes'
  BY DEF IInv, Types, ControlTypes
<1>3. CASE UNCHANGED <<job, pc>>
  <2>1. CallerTypes' /\ LockInv' /\ CacheTypes'
    BY <1>3 DEF IInv, Types, CallerTypes, LockInv, CacheTypes
  <2>2. ControlInv'
    BY <1>3 DEF IInv, ControlInv
  <2>3. JobInv'
    BY <1>3 DEF IInv, JobInv, Means
  <2> QED
    BY <1>2, <2>1, <2>2, <2>3
<1>4. CASE /\ job' = [job EXCEPT ![c] = [NoJob EXCEPT !.name = OverheadName, !.arg = arg]]
           /\ Goto(c, "find")
  <2> DEFINE new == [NoJob EXCEPT !.name = OverheadName, !.arg = arg]
  <2>1. new \in Jobs /\ new.table = "api"
    BY Basics DEF NoJob, Jobs
  <2> HIDE DEF new
  <2>2. /\ pc'[c] = "find" /\ job'[c] = new /\ CallerTypes'
        /\ \A d \in Callers \ {c} : pc'[d] = pc[d] /\ job'[d] = job[d]
    BY <1>1, <1>4, <2>1 DEF Goto, CallerTypes, Places, new
  <2>3. LockInv' /\ CacheTypes'
    BY <2>2 DEF IInv, Types, LockInv, CacheTypes
  <2>4. ControlInv'
    <3>1. ctl # "idle" => \A d \in Users \cup {"rpdflush"} : pc'[d] = "idle"
      BY <1>1, <2>2, Basics DEF IInv, ControlInv
    <3>2. \A t \in finalized \cup {"string", "ustring"} : pc'[t] = "idle"
      <4>1. \A t \in finalized \cup {"string", "ustring"} : t \in Callers /\ t # c /\ pc[t] = "idle"
        BY Basics DEF IInv, ControlInv, Types, ControlTypes
      <4> QED
        BY <2>2, <4>1
    <3>3. \A t \in {"op", "api"} : job'[t].table = "api"
      BY <2>1, <2>2, Basics DEF IInv, ControlInv
    <3>4. flushing' > 0 => pc'["rpdflush"] = "idle"
      BY <2>2, Basics
    <3> QED
      BY <3>1, <3>2, <3>3, <3>4 DEF IInv, ControlInv
  <2>5. JobInv'
    <3>1. \A u \in Users : pc'[u] # "idle" => job'[u].gen = storage'
      BY <1>1, <2>2, Basics DEF IInv, JobInv
    <3>2. \A d \in Callers : job'[d].table = "op" /\ pc'[d] \in {"lookup", "find", "create", "insert"}
            => job'[d].arg = Empty /\ job'[d].argId = 1
      BY <2>1, <2>2 DEF IInv, JobInv
    <3>3. \A d \in Callers : pc'[d] \in {"arg", "row"} => pc'[d] = pc[d] /\ job'[d] = job[d]
      BY <2>2
    <3>4. /\ \A d \in Callers : pc'[d] \in {"arg", "row"} => Means("string", job[d].nameId, job[d].name)'
          /\ \A d \in Callers : pc'[d] = "row" => Means("ustring", job[d].argId, job[d].arg)'
      BY <3>3 DEF IInv, JobInv, Means
    <3> QED
      BY <3>1, <3>2, <3>4 DEF JobInv
  <2> QED
    BY <1>2, <2>2, <2>3, <2>4, <2>5
<1> QED
  BY <1>3, <1>4 DEF Record

LEMMA WriteRowsInv == ASSUME IInv, NEW t \in Tables, WriteRows(t) PROVE IInv'
<1>1. /\ t \notin finalized /\ pc[t] = "idle" /\ stored' = [stored EXCEPT ![t] = Len(rows[t])]
      /\ IF RecordsBatches(t) THEN Record(t, OverheadName) ELSE UNCHANGED <<job, pc>>
      /\ UNCHANGED <<rows, visible, finalized, cache, cacheOwner, caches, storage, overhead, flushing,
                     mark, ctl, position, calls>>
  BY DEF WriteRows, shared, others
<1>2. Kept
  BY <1>1, SameRows
<1>3. TableTypes'
  <2>1. Len(rows[t]) \in Nat /\ \A s \in Tables : visible[s] <= Len(rows[s])
    BY DEF IInv, Types, TableTypes
  <2> QED
    BY <1>1, <2>1 DEF IInv, Types, TableTypes
<1>4. /\ EmptyInv' /\ CacheInv' /\ RightStrings' /\ LocalTypes' /\ LocalInv' /\ FinalizeKeepsAll'
  BY <1>1, <1>2, EmptyFrame, CacheFrame, RightFrame, LocalFrame DEF IInv, FinalizeKeepsAll
<1>5. /\ CallerTypes' /\ ControlTypes' /\ ControlInv' /\ LockInv' /\ CacheTypes' /\ JobInv'
  <2>1. (t \in {"op", "api"} /\ Record(t, OverheadName)) \/ UNCHANGED <<job, pc>>
    BY <1>1 DEF RecordsBatches
  <2>2. CASE t \in {"op", "api"} /\ Record(t, OverheadName)
    <3>1. flushing' \in 0 .. 4 /\ (flushing' > 0 => pc["rpdflush"] = "idle")
      BY <1>1 DEF IInv, Types, ControlTypes, ControlInv
    <3> QED
      BY <1>1, <1>2, <1>3, <2>2, <3>1, Basics, RecordStep
  <2>3. CASE UNCHANGED <<job, pc>>
    <3>1. CallerTypes' /\ LockInv' /\ CacheTypes' /\ ControlTypes'
      BY <1>1, <2>3 DEF IInv, Types, CallerTypes, LockInv, CacheTypes, ControlTypes
    <3>2. ControlInv'
      BY <1>1, <2>3 DEF IInv, ControlInv
    <3>3. JobInv'
      BY <1>1, <2>3 DEF IInv, JobInv, Means
    <3> QED
      BY <3>1, <3>2, <3>3
  <2> QED
    BY <2>1, <2>2, <2>3
<1> QED
  BY <1>3, <1>4, <1>5 DEF IInv, Types

LEMMA FlushBeginInv == ASSUME IInv, FlushBegin PROVE IInv'
<1>1. /\ flushing = 0 /\ pc["rpdflush"] = "idle" /\ ctl = "idle" /\ flushing' = 1
      /\ UNCHANGED <<tables, cache, cacheOwner, caches, pc, job, storage, overhead, ctl, position, calls>>
  BY DEF FlushBegin, shared
<1>2. /\ Kept /\ TableTypes' /\ EmptyInv' /\ CacheInv' /\ RightStrings' /\ FinalizeKeepsAll'
  BY <1>1, RowsFrame
<1>3. LocalTypes' /\ LocalInv'
  BY <1>1, <1>2, LocalFrame
<1>4. CallerTypes' /\ ControlTypes' /\ CacheTypes' /\ LockInv'
  BY <1>1 DEF IInv, Types, CallerTypes, ControlTypes, CacheTypes, LockInv, tables
<1>5. ControlInv'
  BY <1>1 DEF IInv, ControlInv, tables
<1>6. JobInv'
  BY <1>1 DEF IInv, JobInv, Means, tables
<1> QED
  BY <1>2, <1>3, <1>4, <1>5, <1>6 DEF IInv, Types

LEMMA FlushTableInv == ASSUME IInv, FlushTable PROVE IInv'
<1> DEFINE t == FlushOrder[flushing]
<1>1. /\ flushing > 0 /\ visible' = [visible EXCEPT ![t] = stored[t]]
      /\ \/ flushing' = 0 /\ Record("rpdflush", Empty)
         \/ flushing # 4 /\ flushing' = flushing + 1 /\ UNCHANGED <<job, pc>>
      /\ UNCHANGED <<rows, stored, finalized, cache, cacheOwner, caches, storage, overhead, ctl, position,
                     calls>>
  BY DEF FlushTable, FlushOrder, shared
<1>2. ctl = "idle" /\ finalized = {} /\ pc["rpdflush"] = "idle" /\ flushing \in 1 .. 4
  BY <1>1 DEF IInv, ControlInv, Types, ControlTypes
<1>3. t \in Tables
  BY <1>2, Basics DEF FlushOrder
<1>4. Kept
  BY <1>1, SameRows
<1>5. TableTypes'
  <2> HIDE DEF t
  <2> QED
    BY <1>1, <1>3 DEF IInv, Types, TableTypes
<1>6. /\ EmptyInv' /\ CacheInv' /\ RightStrings' /\ LocalTypes' /\ LocalInv' /\ FinalizeKeepsAll'
  BY <1>1, <1>2, <1>4, EmptyFrame, CacheFrame, RightFrame, LocalFrame DEF FinalizeKeepsAll
<1>7. /\ CallerTypes' /\ ControlTypes' /\ ControlInv' /\ LockInv' /\ CacheTypes' /\ JobInv'
  <2>1. CASE flushing' = 0 /\ Record("rpdflush", Empty)
    BY <1>1, <1>2, <1>4, <1>5, <2>1, Basics, RecordStep
  <2>2. CASE flushing # 4 /\ flushing' = flushing + 1 /\ UNCHANGED <<job, pc>>
    <3>1. flushing' \in 0 .. 4
      BY <1>2, <2>2
    <3>2. CallerTypes' /\ ControlTypes' /\ CacheTypes' /\ LockInv'
      BY <1>1, <2>2, <3>1 DEF IInv, Types, CallerTypes, ControlTypes, CacheTypes, LockInv
    <3>3. ControlInv'
      BY <1>1, <1>2, <2>2 DEF IInv, ControlInv
    <3>4. JobInv'
      BY <1>1, <2>2 DEF IInv, JobInv, Means
    <3> QED
      BY <3>2, <3>3, <3>4
  <2> QED
    BY <1>1, <2>1, <2>2
<1> QED
  BY <1>5, <1>6, <1>7 DEF IInv, Types

LEMMA EndCallInv == ASSUME IInv, ResetCall \/ FinalizeCall PROVE IInv'
<1>1. /\ ctl = "idle" /\ Quiet /\ position' = 1 /\ overhead' \in BOOLEAN
      /\ \/ ctl' = "reset" /\ storage < MaxStorages
         \/ ctl' = "exit"
      /\ UNCHANGED <<tables, cache, cacheOwner, caches, pc, job, storage, flushing, calls>>
  BY DEF ResetCall, FinalizeCall, shared, IInv, Types, ControlTypes
<1>2. /\ Kept /\ TableTypes' /\ EmptyInv' /\ CacheInv' /\ RightStrings' /\ FinalizeKeepsAll'
  BY <1>1, RowsFrame
<1>3. LocalTypes' /\ LocalInv'
  BY <1>1, <1>2, LocalFrame
<1>4. CallerTypes' /\ ControlTypes' /\ CacheTypes' /\ LockInv'
  BY <1>1 DEF IInv, Types, CallerTypes, ControlTypes, CacheTypes, LockInv, tables
<1>5. ControlInv'
  BY <1>1 DEF IInv, ControlInv, Quiet, tables
<1>6. JobInv'
  BY <1>1 DEF IInv, JobInv, Means, tables
<1> QED
  BY <1>2, <1>3, <1>4, <1>5, <1>6 DEF IInv, Types

LEMMA FinalizeTableInv == ASSUME IInv, FinalizeTable PROVE IInv'
<1> DEFINE t == FinalizeOrder[position]
<1>1. /\ position \in 1 .. 4 /\ stored[t] = Len(rows[t]) /\ pc[t] = "idle"
      /\ visible' = [visible EXCEPT ![t] = stored[t]] /\ finalized' = finalized \cup {t}
      /\ position' = position + 1
      /\ UNCHANGED <<rows, stored, cache, cacheOwner, caches, pc, job, storage, overhead, flushing, ctl,
                     calls>>
  BY DEF FinalizeTable, FinalizeOrder, shared
<1>2. t = CASE position = 1 -> "op" [] position = 2 -> "api" [] position = 3 -> "ustring"
            [] position = 4 -> "string"
  BY <1>1 DEF FinalizeOrder
<1>3. t \in Tables /\ ctl # "idle"
  BY <1>1, <1>2, Basics DEF IInv, ControlInv
<1> HIDE DEF t
<1>4. Kept
  BY <1>1, SameRows
<1>5. TableTypes'
  BY <1>1, <1>3 DEF IInv, Types, TableTypes
<1>6. FinalizeKeepsAll'
  BY <1>1, <1>3 DEF IInv, Types, TableTypes, ControlTypes, FinalizeKeepsAll
<1>7. /\ EmptyInv' /\ CacheInv' /\ RightStrings' /\ LocalTypes' /\ LocalInv'
  BY <1>1, <1>4, EmptyFrame, CacheFrame, RightFrame, LocalFrame
<1>8. CallerTypes' /\ ControlTypes' /\ CacheTypes' /\ LockInv'
  BY <1>1, <1>3 DEF IInv, Types, CallerTypes, ControlTypes, CacheTypes, LockInv
<1>9. ControlInv'
  <2>1. /\ "op" \in finalized' <=> position' > 1
        /\ "api" \in finalized' <=> position' > 2
        /\ "ustring" \in finalized' <=> position' > 3
        /\ "string" \in finalized' <=> position' > 4
    <3>1. CASE position = 1
      BY <1>1, <1>2, <1>3, <3>1 DEF IInv, ControlInv
    <3>2. CASE position = 2
      BY <1>1, <1>2, <1>3, <3>2 DEF IInv, ControlInv
    <3>3. CASE position = 3
      BY <1>1, <1>2, <1>3, <3>3 DEF IInv, ControlInv
    <3>4. CASE position = 4
      BY <1>1, <1>2, <1>3, <3>4 DEF IInv, ControlInv
    <3> QED
      BY <1>1, <3>1, <3>2, <3>3, <3>4
  <2>2. position' >= 1
    BY <1>1
  <2> QED
    BY <1>1, <1>3, <2>1, <2>2 DEF IInv, ControlInv
<1>10. JobInv'
  BY <1>1 DEF IInv, JobInv, Means
<1> QED
  BY <1>5, <1>6, <1>7, <1>8, <1>9, <1>10 DEF IInv, Types

\* Nobody is at work, and no cache of a thread has an id of the new storage.
LEMMA NewStorageInv == ASSUME IInv, NewStorage PROVE IInv'
<1>1. /\ ctl = "reset" /\ finalized = Tables /\ storage' = storage + 1
      /\ rows' = FreshRows /\ stored' = Zeros /\ visible' = Zeros /\ finalized' = {}
      /\ cache' = FreshCache /\ ctl' = "idle" /\ position' = 0
      /\ UNCHANGED <<cacheOwner, caches, pc, job, overhead, flushing, calls>>
  BY DEF NewStorage
<1>2. \A c \in Callers : pc[c] = "idle"
  BY <1>1 DEF IInv, ControlInv, Callers
<1>3. /\ rows'["string"] = <<Empty>> /\ rows'["ustring"] = <<Empty>>
      /\ rows'["op"] = <<>> /\ rows'["api"] = <<>>
      /\ DOMAIN cache' = {Empty} /\ cache'[Empty] = 1
  BY <1>1, Basics DEF FreshRows, FreshCache
<1>4. /\ <<Empty>> \in Seq(Texts) /\ <<Empty>> \in Seq(Texts \cup Rows) /\ <<>> \in Seq(Texts \cup Rows)
      /\ DOMAIN <<Empty>> = {1} /\ <<Empty>>[1] = Empty /\ Len(<<Empty>>) = 1
  BY Basics
<1>5. TableTypes'
  <2>1. rows' \in [Tables -> Seq(Texts \cup Rows)]
    BY <1>1, <1>4 DEF FreshRows
  <2>2. /\ stored' \in [Tables -> Nat] /\ visible' \in [Tables -> Nat]
        /\ \A t \in Tables : stored'[t] = 0 /\ visible'[t] = 0
    BY <1>1 DEF Zeros
  <2>3. \A t \in Tables : Len(rows'[t]) \in Nat
    BY <2>1
  <2> QED
    BY <1>3, <1>4, <2>1, <2>2, <2>3 DEF TableTypes
<1>6. EmptyInv' /\ CacheInv'
  BY <1>3, <1>4 DEF EmptyInv, CacheInv, Means
<1>7. LockInv' /\ CacheTypes' /\ CallerTypes'
  BY <1>1, <1>2, <1>3, Basics DEF IInv, Types, CacheTypes, CallerTypes, LockInv
<1>8. ControlTypes' /\ ControlInv'
  <2>1. storage \in Nat /\ storage >= 1 /\ storage < MaxStorages /\ MaxStorages \in Nat
    BY <1>1, StorageAssumption DEF IInv, Types, ControlTypes
  <2>2. ControlTypes'
    BY <1>1, <2>1, StorageAssumption DEF IInv, Types, ControlTypes
  <2> QED
    BY <1>1, <1>2, <2>2, Basics DEF IInv, ControlInv
<1>9. JobInv'
  BY <1>1, <1>2, Basics DEF JobInv
<1>10. LocalTypes' /\ LocalInv'
  <2>1. storage \in Nat
    BY StorageAssumption DEF IInv, Types, ControlTypes
  <2>2. LocalTypes'
    BY <1>1 DEF IInv, Types, LocalTypes, caches
  <2>3. ASSUME NEW e \in Entries, NEW t \in Tables, EntryOk(e, t) PROVE e.gen <= storage' /\ e.gen # storage'
    BY <1>1, <2>1, <2>3 DEF EntryOk, Entries
  <2>4. \A u \in Users : /\ ulocal[u] \in Entries
                         /\ \A i \in DOMAIN local[u].entries : local[u].entries[i] \in Entries
    <3>1. ASSUME NEW u \in Users
          PROVE  /\ ulocal[u] \in Entries
                 /\ \A i \in DOMAIN local[u].entries : local[u].entries[i] \in Entries
      <4>1. ulocal[u] \in Entries /\ local[u].entries \in Seq(Entries)
        BY DEF IInv, Types, LocalTypes
      <4> QED
        BY <4>1
    <3> QED
      BY <3>1
  <2> QED
    BY <1>1, <2>2, <2>3, <2>4, Basics DEF IInv, LocalInv, EntryOk, caches
<1>11. RightStrings' /\ FinalizeKeepsAll'
  BY <1>1, <1>3 DEF RightStrings, FinalizeKeepsAll
<1> QED
  BY <1>5, <1>6, <1>7, <1>8, <1>9, <1>10, <1>11 DEF IInv, Types

-----------------------------------------------------------------------------
LEMMA InitInv == Init => IInv
<1> SUFFICES ASSUME Init PROVE IInv
  OBVIOUS
<1>1. /\ storage = 1 /\ rows = FreshRows /\ stored = Zeros /\ visible = Zeros /\ finalized = {}
      /\ cache = FreshCache /\ cacheOwner = Nobody
      /\ local = [u \in Users |-> [entries |-> <<>>, writeIdx |-> 1]]
      /\ ulocal = [u \in Users |-> [gen |-> 0, text |-> Empty, id |-> 0]]
      /\ pc = [c \in Callers |-> "idle"] /\ job = [c \in Callers |-> NoJob]
      /\ overhead = TRUE /\ flushing = 0 /\ ctl = "idle" /\ position = 0 /\ calls = 0
  BY DEF Init
<1>2. /\ rows["string"] = <<Empty>> /\ rows["ustring"] = <<Empty>>
      /\ rows["op"] = <<>> /\ rows["api"] = <<>>
      /\ DOMAIN cache = {Empty} /\ cache[Empty] = 1
  BY <1>1, Basics DEF FreshRows, FreshCache
<1>3. /\ <<Empty>> \in Seq(Texts) /\ <<Empty>> \in Seq(Texts \cup Rows) /\ <<>> \in Seq(Texts \cup Rows)
      /\ DOMAIN <<Empty>> = {1} /\ <<Empty>>[1] = Empty /\ Len(<<Empty>>) = 1
  BY Basics
<1>4. TableTypes
  <2>1. rows \in [Tables -> Seq(Texts \cup Rows)]
    BY <1>1, <1>3 DEF FreshRows
  <2>2. /\ stored \in [Tables -> Nat] /\ visible \in [Tables -> Nat]
        /\ \A t \in Tables : stored[t] = 0 /\ visible[t] = 0
    BY <1>1 DEF Zeros
  <2>3. \A t \in Tables : Len(rows[t]) \in Nat
    BY <2>1
  <2> QED
    BY <1>2, <1>3, <2>1, <2>2, <2>3 DEF TableTypes
<1>5. CallerTypes
  BY <1>1, NoJobFacts DEF CallerTypes, Places
<1>6. CacheTypes /\ ControlTypes
  BY <1>1, <1>2, Basics, StorageAssumption DEF CacheTypes, ControlTypes
<1>7. LocalTypes
  <2>1. /\ <<>> \in Seq(Entries) /\ Len(<<>>) = 0
        /\ 1 \in 1 .. CAPACITY /\ CAPACITY \in Nat
    BY StorageAssumption
  <2>2. [gen |-> 0, text |-> Empty, id |-> 0] \in Entries
    BY Basics DEF Entries
  <2> QED
    BY <1>1, <2>1, <2>2 DEF LocalTypes
<1>8. EmptyInv /\ CacheInv
  BY <1>2, <1>3 DEF EmptyInv, CacheInv, Means
<1>9. LockInv
  BY <1>1, Basics DEF LockInv
<1>10. ControlInv
  BY <1>1, Basics, NoJobFacts DEF ControlInv
<1>11. JobInv
  BY <1>1, Basics DEF JobInv
<1>12. LocalInv
  <2> SUFFICES ASSUME NEW u \in Users
               PROVE  /\ \A i \in DOMAIN local[u].entries : EntryOk(local[u].entries[i], "string")
                      /\ EntryOk(ulocal[u], "ustring")
    BY DEF LocalInv
  <2>1. local[u].entries = <<>> /\ ulocal[u].gen = 0
    BY <1>1
  <2>2. DOMAIN <<>> = {}
    OBVIOUS
  <2>3. EntryOk(ulocal[u], "ustring")
    BY <1>1, <2>1 DEF EntryOk
  <2> QED
    BY <2>1, <2>2, <2>3
<1>13. RightStrings /\ FinalizeKeepsAll
  BY <1>1, <1>2 DEF RightStrings, FinalizeKeepsAll
<1> QED
  BY <1>4, <1>5, <1>6, <1>7, <1>8, <1>9, <1>10, <1>11, <1>12, <1>13 DEF IInv, Types

LEMMA StutterInv == ASSUME IInv, UNCHANGED vars PROVE IInv'
<1>1. UNCHANGED <<tables, cache, cacheOwner, caches, pc, job, storage, overhead, flushing, ctl, position,
                  calls>>
  BY DEF vars, shared, others
<1>2. /\ Kept /\ TableTypes' /\ EmptyInv' /\ CacheInv' /\ RightStrings' /\ FinalizeKeepsAll'
  BY <1>1, RowsFrame
<1>3. LocalTypes' /\ LocalInv'
  BY <1>1, <1>2, LocalFrame
<1>4. CallerTypes' /\ ControlTypes' /\ CacheTypes' /\ LockInv'
  BY <1>1 DEF IInv, Types, CallerTypes, ControlTypes, CacheTypes, LockInv, tables
<1>5. ControlInv' /\ JobInv'
  BY <1>1 DEF IInv, ControlInv, JobInv, Means, tables
<1> QED
  BY <1>2, <1>3, <1>4, <1>5 DEF IInv, Types

LEMMA InvStep == IInv /\ [Next]_vars => IInv'
<1> SUFFICES ASSUME IInv, [Next]_vars PROVE IInv'
  OBVIOUS
<1>1. ASSUME NEW u \in Users, Call(u) \/ Lookup(u) PROVE IInv'
  BY <1>1, CallInv, LookupInv
<1>2. ASSUME NEW c \in Callers, Step(c) PROVE IInv'
  BY <1>2, FindCreateInv, InsertStringInv, ArgInv, InsertRowInv DEF Step
<1>3. ASSUME NEW t \in Tables, WriteRows(t) PROVE IInv'
  BY <1>3, WriteRowsInv
<1>4. CASE FlushBegin \/ FlushTable
  BY <1>4, FlushBeginInv, FlushTableInv
<1>5. CASE ResetCall \/ FinalizeCall \/ FinalizeTable \/ NewStorage
  BY <1>5, EndCallInv, FinalizeTableInv, NewStorageInv
<1>6. CASE UNCHANGED vars
  BY <1>6, StutterInv
<1> QED
  BY <1>1, <1>2, <1>3, <1>4, <1>5, <1>6 DEF Next

\* The inductive invariant.
THEOREM Invariance == Spec => []IInv
  BY InitInv, InvStep, PTL DEF Spec

\* Every variable has its type.
THEOREM TypeCorrect == Spec => []TypeOK
<1>1. IInv => TypeOK
  <2> SUFFICES ASSUME IInv PROVE TypeOK
    OBVIOUS
  <2>1. Len(FlushOrder) = 4 /\ Len(FinalizeOrder) + 1 = 5
    BY DEF FlushOrder, FinalizeOrder
  <2> QED
    BY <2>1 DEF IInv, Types, TypeOK, TableTypes, CallerTypes, CacheTypes, LocalTypes, ControlTypes, Places
<1> QED
  BY <1>1, Invariance, PTL

\* Every row carries ids of the strings that were meant, in the storage the row is in,
\* whichever caches they came from (LocalStringCache::lookup, UStringCache).
THEOREM StringsRight == Spec => []RightStrings
<1>1. IInv => RightStrings
  BY DEF IInv
<1> QED
  BY <1>1, Invariance, PTL

\* getOrCreate() makes one row for a string, whoever asks for it at once.
THEOREM StringsOnce == Spec => []OneRowPerString
<1>1. IInv => OneRowPerString
  <2> SUFFICES ASSUME IInv, NEW i \in DOMAIN rows["string"], NEW j \in DOMAIN rows["string"],
                      rows["string"][i] = rows["string"][j]
               PROVE  i = j
    BY DEF OneRowPerString
  <2>1. cache[rows["string"][i]] = i /\ cache[rows["string"][j]] = j
    BY DEF IInv, CacheInv
  <2> QED
    BY <2>1
<1> QED
  BY <1>1, Invariance, PTL

\* Storage::finalize ends the tables in an order in which nothing reaches one that has ended.
THEOREM FinalizeKeeps == Spec => []FinalizeKeepsAll
<1>1. IInv => FinalizeKeepsAll
  BY DEF IInv
<1> QED
  BY <1>1, Invariance, PTL

-----------------------------------------------------------------------------
(* rpdflush() *)

\* While rpdflush() is under way: the rows counted when it was called are there,
\* their ids are of strings that were there, too, and the tables it has been through
\* show all they had.
MarkInv ==
    flushing > 0 =>
      /\ \A t \in Tables : mark[t] \in 0 .. Len(rows[t])
      /\ \A j \in 1 .. 4 : j < flushing => mark[FlushOrder[j]] <= visible[FlushOrder[j]]
      /\ \A t \in {"op", "api"} : \A i \in 1 .. mark[t] :
           rows[t][i].nameId \in 1 .. mark["string"] /\ rows[t][i].argId \in 1 .. mark["ustring"]

LEMMA AcceptKeeps ==
    ASSUME TableTypes, NEW t \in Tables, NEW row, Accept(t, row) PROVE Kept
<1>1. rows[t] \in Seq(Texts \cup Rows \cup {row}) /\ row \in Texts \cup Rows \cup {row}
  BY DEF TableTypes
<1>2. /\ \A s \in Tables \ {t} : rows'[s] = rows[s]
      /\ rows'[t] = Append(rows[t], row)
  BY DEF Accept, TableTypes
<1>3. \A i \in DOMAIN rows[t] : i \in DOMAIN rows'[t] /\ rows'[t][i] = rows[t][i]
  BY <1>1, <1>2
<1> QED
  BY <1>2, <1>3 DEF Kept, Means

\* But for a new storage, every step keeps the rows where they are.
LEMMA StepKeeps ==
    ASSUME IInv, [Next]_vars, ~NewStorage PROVE Kept
<1>0. TableTypes
  BY DEF IInv, Types
<1>1. ASSUME NEW u \in Users, Call(u) \/ Lookup(u) PROVE Kept
  <2>1. CASE Call(u)
    BY <2>1, SameRows DEF Call, tables
  <2>2. CASE Lookup(u)
    BY <2>2, SameRows DEF Lookup, tables
  <2> QED
    BY <1>1, <2>1, <2>2
<1>2. ASSUME NEW c \in Callers, Step(c) PROVE Kept
  <2>1. CASE Find(c) \/ Create(c)
    BY <2>1, SameRows DEF Find, Create, tables
  <2>2. CASE InsertString(c)
    BY <1>0, <2>2, AcceptKeeps, Basics DEF InsertString
  <2>3. CASE Arg(c)
    <3>1. UNCHANGED rows \/ \E id : Accept("ustring", job[c].arg)
      BY <2>3 DEF Arg
    <3> QED
      BY <1>0, <3>1, SameRows, AcceptKeeps, Basics
  <2>4. CASE InsertRow(c)
    <3>1. job[c].table \in Tables
      BY Basics DEF IInv, Types, CallerTypes, Jobs
    <3>2. \E row : Accept(job[c].table, row)
      BY <2>4 DEF InsertRow
    <3> QED
      BY <1>0, <3>1, <3>2, AcceptKeeps
  <2> QED
    BY <1>2, <2>1, <2>2, <2>3, <2>4 DEF Step
<1>3. ASSUME NEW t \in Tables, WriteRows(t) PROVE Kept
  BY <1>3, SameRows DEF WriteRows
<1>4. CASE FlushBegin \/ FlushTable \/ ResetCall \/ FinalizeCall \/ FinalizeTable
  BY <1>4, SameRows DEF FlushBegin, FlushTable, ResetCall, FinalizeCall, FinalizeTable, tables
<1>5. CASE UNCHANGED vars
  BY <1>5, SameRows DEF vars, tables
<1> QED
  BY <1>1, <1>2, <1>3, <1>4, <1>5 DEF Next

\* What a row is stays so, and a table gets longer.
LEMMA KeptRows ==
    ASSUME IInv, IInv', Kept, NEW t \in Tables
    PROVE  /\ Len(rows[t]) \in Nat /\ Len(rows'[t]) \in Nat /\ Len(rows[t]) <= Len(rows'[t])
           /\ \A i \in 1 .. Len(rows[t]) : rows'[t][i] = rows[t][i]
<1>1. rows[t] \in Seq(Texts \cup Rows) /\ rows'[t] \in Seq(Texts \cup Rows)
  BY DEF IInv, Types, TableTypes
<1>2. /\ Len(rows[t]) \in Nat /\ DOMAIN rows[t] = 1 .. Len(rows[t])
      /\ Len(rows'[t]) \in Nat /\ DOMAIN rows'[t] = 1 .. Len(rows'[t])
  BY <1>1
<1>3. \A i \in 1 .. Len(rows[t]) : i \in 1 .. Len(rows'[t]) /\ rows'[t][i] = rows[t][i]
  BY <1>2 DEF Kept, Means
<1>4. Len(rows[t]) <= Len(rows'[t])
  BY <1>2, <1>3
<1> QED
  BY <1>2, <1>3, <1>4

\* The ids of a row are of rows of the string tables.
LEMMA RowIds ==
    ASSUME IInv, NEW t \in {"op", "api"}, NEW i \in 1 .. Len(rows[t])
    PROVE  rows[t][i].nameId \in 1 .. Len(rows["string"]) /\ rows[t][i].argId \in 1 .. Len(rows["ustring"])
<1>1. /\ DOMAIN rows[t] = 1 .. Len(rows[t]) /\ DOMAIN rows["string"] = 1 .. Len(rows["string"])
      /\ DOMAIN rows["ustring"] = 1 .. Len(rows["ustring"])
  BY Basics DEF IInv, Types, TableTypes
<1> QED
  BY <1>1 DEF IInv, RightStrings, Means

LEMMA MarkFrame ==
    ASSUME IInv, IInv', MarkInv, Kept, UNCHANGED flushing,
           flushing > 0 => mark' = mark /\ \A t \in Tables : visible[t] <= visible'[t]
    PROVE  MarkInv'
<1> SUFFICES ASSUME flushing > 0 PROVE MarkInv'
  BY DEF MarkInv
<1>1. /\ mark' = mark /\ \A t \in Tables : visible[t] <= visible'[t]
  OBVIOUS
<1>2. \A t \in Tables : /\ Len(rows[t]) \in Nat /\ Len(rows'[t]) \in Nat /\ Len(rows[t]) <= Len(rows'[t])
                        /\ \A i \in 1 .. Len(rows[t]) : rows'[t][i] = rows[t][i]
  BY KeptRows
<1>3. \A t \in Tables : mark'[t] \in 0 .. Len(rows'[t])
  BY <1>1, <1>2 DEF MarkInv
<1>4. ASSUME NEW j \in 1 .. 4, j < flushing' PROVE mark'[FlushOrder[j]] <= visible'[FlushOrder[j]]
  <2>1. FlushOrder[j] \in Tables
    BY Basics DEF FlushOrder
  <2>2. mark[FlushOrder[j]] <= visible[FlushOrder[j]] /\ mark[FlushOrder[j]] \in Nat
    BY <1>4, <1>2, <2>1 DEF MarkInv
  <2>3. visible[FlushOrder[j]] \in Nat /\ visible'[FlushOrder[j]] \in Nat
    BY <2>1 DEF IInv, Types, TableTypes
  <2> QED
    BY <1>1, <2>1, <2>2, <2>3
<1>5. ASSUME NEW t \in {"op", "api"}, NEW i \in 1 .. mark'[t]
      PROVE  rows'[t][i].nameId \in 1 .. mark'["string"] /\ rows'[t][i].argId \in 1 .. mark'["ustring"]
  <2>1. t \in Tables
    BY Basics
  <2>2. i \in 1 .. mark[t] /\ i \in 1 .. Len(rows[t])
    BY <1>1, <1>2, <1>5, <2>1 DEF MarkInv
  <2>3. rows'[t][i] = rows[t][i]
    BY <1>2, <2>1, <2>2
  <2> QED
    BY <1>1, <2>2, <2>3 DEF MarkInv
<1> QED
  BY <1>3, <1>4, <1>5 DEF MarkInv

LEMMA FlushBeginMark == ASSUME IInv, FlushBegin PROVE MarkInv'
<1>1. /\ flushing' = 1 /\ mark' = [t \in Tables |-> Len(rows[t])] /\ rows' = rows
  BY DEF FlushBegin, tables
<1>2. \A t \in Tables : mark'[t] = Len(rows[t]) /\ Len(rows[t]) \in Nat
  BY <1>1 DEF IInv, Types, TableTypes
<1>3. /\ \A j \in 1 .. 4 : ~(j < flushing')
      /\ \A t \in Tables : mark'[t] \in 0 .. Len(rows'[t])
  BY <1>1, <1>2
<1>4. \A t \in {"op", "api"} : \A i \in 1 .. mark'[t] :
        rows'[t][i].nameId \in 1 .. mark'["string"] /\ rows'[t][i].argId \in 1 .. mark'["ustring"]
  BY <1>1, <1>2, RowIds, Basics
<1> QED
  BY <1>3, <1>4 DEF MarkInv

LEMMA FlushTableMark == ASSUME IInv, MarkInv, FlushTable PROVE MarkInv'
<1> SUFFICES ASSUME flushing' > 0 PROVE MarkInv'
  BY DEF MarkInv
<1> DEFINE t == FlushOrder[flushing]
<1>1. /\ flushing > 0 /\ flushing' = flushing + 1 /\ flushing \in 1 .. 4 /\ mark' = mark
      /\ stored[t] >= mark[t] /\ visible' = [visible EXCEPT ![t] = stored[t]] /\ rows' = rows
  BY DEF FlushTable, FlushOrder, IInv, Types, ControlTypes
<1>2. t \in Tables /\ \A j \in 1 .. 4 : FlushOrder[j] = t => j = flushing
  BY <1>1, Basics DEF FlushOrder
<1>3. visible'[t] = stored[t] /\ \A s \in Tables \ {t} : visible'[s] = visible[s]
  BY <1>1, <1>2 DEF IInv, Types, TableTypes
<1>4. ASSUME NEW j \in 1 .. 4, j < flushing' PROVE mark'[FlushOrder[j]] <= visible'[FlushOrder[j]]
  <2>1. CASE j = flushing
    <3>1. mark[t] \in Nat /\ stored[t] \in Nat
      BY <1>1, <1>2 DEF MarkInv, IInv, Types, TableTypes
    <3> QED
      BY <1>1, <1>3, <2>1, <3>1
  <2>2. CASE j < flushing
    <3>1. FlushOrder[j] \in Tables \ {t}
      BY <1>1, <1>2, <2>2, Basics DEF FlushOrder
    <3> QED
      BY <1>1, <1>3, <2>2, <3>1 DEF MarkInv
  <2> QED
    BY <1>1, <1>4, <2>1, <2>2
<1> HIDE DEF t
<1> QED
  BY <1>1, <1>4 DEF MarkInv

\* What rpdflush() shows when it returns.
LEMMA FlushTableResolves ==
    ASSUME IInv, MarkInv, FlushTable, flushing' = 0
    PROVE  \A t \in {"op", "api"} : \A i \in 1 .. mark[t] : Resolved(t, i)
<1>0. flushing \in 1 .. 4 /\ FlushOrder[4] = "api" /\ Len(FlushOrder) = 4
  BY DEF FlushTable, FlushOrder, IInv, Types, ControlTypes
<1>1. flushing = 4 /\ stored["api"] >= mark["api"] /\ visible' = [visible EXCEPT !["api"] = stored["api"]]
  <2>1. /\ stored[FlushOrder[flushing]] >= mark[FlushOrder[flushing]]
        /\ visible' = [visible EXCEPT ![FlushOrder[flushing]] = stored[FlushOrder[flushing]]]
        /\ flushing = Len(FlushOrder) \/ flushing' = flushing + 1
    BY DEF FlushTable
  <2>2. flushing = 4
    BY <1>0, <2>1
  <2> QED
    BY <1>0, <2>1, <2>2, Zenon
<1>2. \A s \in Tables : mark[s] \in Nat /\ visible[s] \in Nat /\ stored[s] \in Nat
  <2>1. \A s \in Tables : Len(rows[s]) \in Nat /\ mark[s] \in 0 .. Len(rows[s])
    BY <1>1 DEF MarkInv, IInv, Types, TableTypes
  <2> QED
    BY <2>1 DEF IInv, Types, TableTypes
<1>3. mark["string"] <= visible["string"] /\ mark["ustring"] <= visible["ustring"] /\ mark["op"] <= visible["op"]
  BY <1>1 DEF MarkInv, FlushOrder
<1>4. \A s \in Tables : mark[s] <= visible'[s] /\ visible'[s] \in Nat
  BY <1>1, <1>2, <1>3, Basics DEF IInv, Types, TableTypes
<1>5. ASSUME NEW t \in {"op", "api"}, NEW i \in 1 .. mark[t] PROVE Resolved(t, i)
  <2>1. rows[t][i].nameId \in 1 .. mark["string"] /\ rows[t][i].argId \in 1 .. mark["ustring"]
    BY <1>1 DEF MarkInv
  <2>2. t \in Tables /\ "string" \in Tables /\ "ustring" \in Tables
    BY Basics
  <2> QED
    BY <1>2, <1>4, <2>1, <2>2 DEF Resolved
<1> QED
  BY <1>5

\* Everything else leaves a flush where it is, and its count of rows.
LEMMA FlushUntouched ==
    ASSUME IInv, [Next]_vars, ~FlushBegin, ~FlushTable
    PROVE  /\ UNCHANGED flushing
           /\ flushing > 0 => ~NewStorage /\ mark' = mark /\ \A t \in Tables : visible[t] <= visible'[t]
<1>0. \A t \in Tables : visible[t] \in Nat
  BY DEF IInv, Types, TableTypes
<1>1. ASSUME NEW u \in Users, Call(u) \/ Lookup(u) PROVE UNCHANGED <<flushing, mark, visible>>
  <2>1. CASE Call(u)
    BY <2>1 DEF Call, tables
  <2>2. CASE Lookup(u)
    BY <2>2 DEF Lookup, tables, others
  <2> QED
    BY <1>1, <2>1, <2>2
<1>2. ASSUME NEW c \in Callers, Step(c) PROVE UNCHANGED <<flushing, mark, visible>>
  BY <1>2 DEF Step, Find, Create, InsertString, Arg, InsertRow, Obtained, tables, others
<1>3. ASSUME NEW t \in Tables, WriteRows(t) PROVE UNCHANGED <<flushing, mark, visible>>
  BY <1>3 DEF WriteRows, others
<1>4. ResetCall \/ FinalizeCall \/ UNCHANGED vars => UNCHANGED <<flushing, mark, visible>>
  BY DEF ResetCall, FinalizeCall, vars, tables, others
<1>5. CASE FinalizeTable \/ NewStorage
  <2>1. UNCHANGED flushing
    BY <1>5 DEF FinalizeTable, NewStorage
  <2>2. ctl # "idle"
    <3>1. CASE NewStorage
      BY <3>1 DEF NewStorage
    <3>2. CASE FinalizeTable
      BY <3>2 DEF FinalizeTable, IInv, ControlInv
    <3> QED
      BY <1>5, <3>1, <3>2
  <2>3. flushing = 0
    BY <2>2 DEF IInv, ControlInv
  <2> QED
    BY <2>1, <2>3
<1>6. CASE UNCHANGED <<flushing, mark, visible>> /\ ~NewStorage
  BY <1>0, <1>6
<1>7. NewStorage => flushing = 0
  BY DEF NewStorage, IInv, ControlInv
<1> QED
  BY <1>0, <1>1, <1>2, <1>3, <1>4, <1>5, <1>7 DEF Next

LEMMA MarkStep == IInv /\ IInv' /\ MarkInv /\ [Next]_vars => MarkInv'
<1> SUFFICES ASSUME IInv, IInv', MarkInv, [Next]_vars PROVE MarkInv'
  OBVIOUS
<1>1. CASE FlushBegin \/ FlushTable
  BY <1>1, FlushBeginMark, FlushTableMark
<1>2. CASE ~FlushBegin /\ ~FlushTable
  <2>1. CASE flushing > 0
    BY <1>2, <2>1, FlushUntouched, StepKeeps, MarkFrame
  <2>2. CASE ~(flushing > 0)
    BY <1>2, <2>2, FlushUntouched DEF MarkInv
  <2> QED
    BY <2>1, <2>2
<1> QED
  BY <1>1, <1>2

\* When rpdflush() returns, every row inserted before the call is visible, and so are its
\* strings, without which the view `api' and its like do not show it.
THEOREM FlushShowsStrings == Spec => FlushResolves
<1>1. Init => MarkInv
  BY DEF Init, MarkInv
<1>2. Spec => []MarkInv
  BY <1>1, Invariance, MarkStep, PTL DEF Spec
<1>3. IInv /\ MarkInv /\ [Next]_vars =>
        [ flushing > 0 /\ flushing' = 0 =>
            \A t \in {"op", "api"} : \A i \in 1 .. mark[t] : Resolved(t, i) ]_vars
  BY FlushUntouched, FlushTableResolves DEF FlushBegin
<1> QED
  BY <1>2, <1>3, Invariance, PTL DEF Spec, FlushResolves
=============================================================================

------------------------- MODULE ApiRegistry_proofs -------------------------
(***************************************************************************)
(* What the registry of APIs promises whatever the numbers of requests,    *)
(* ids, fields, writes and ticks: acknowledged changes stand, deleted APIs *)
(* stay deleted and answers are recent, each but for the overlaps and the  *)
(* lagging reads that the code leaves open.  IInv says what the log, the   *)
(* records of the calls and the cache have to do with one another.         *)
(***************************************************************************)
EXTENDS ApiRegistry, TLAPS

USE NoItemAssumption, UrlAssumption, TimesAssumption

-----------------------------------------------------------------------------
State ==
  [pc : {"get", "put", "delete", "answer", "answered", "failed"},
   op : {"create", "get", "update", "delete"}, server : Server,
   query : Query, api : Api, target : Api,
   fields : SUBSET Field, item : Item \cup {NoItem}, seen : Nat,
   stale : BOOLEAN, beside : SUBSET Call, from : Call, age : Nat]

LEMMA StateOf ==
  ASSUME TypeOK, NEW c \in Call, call[c].pc \notin {"idle", "rejected"}
  PROVE  call[c] \in State
  BY DEF TypeOK, CallState, State

LEMMA Requests ==
  ASSUME NEW r \in Request
  PROVE  /\ r.op \in {"create", "get", "update", "delete"} /\ r.server \in Server
         /\ r.query \in Query /\ r.api \in Api /\ r.target \in Api
         /\ r.fields \in SUBSET Field
         /\ r.op = "create" => r.fields = Field
         /\ r.op # "update" => r.target = r.api
  BY DEF Request

LEMMA KeyOf ==
  ASSUME NEW r, r.server \in Server, r.query \in Query, r.api \in Api
  PROVE  CacheKey(r) \in Key
  BY DEF CacheKey, Key

(* What has one key has one url, process and query string.                 *)
LEMMA OneKey ==
  ASSUME NEW r, NEW t, r.api \in Api, t.api \in Api, r.op = "get",
         CacheKey(r) = CacheKey(t)
  PROVE  /\ r.server = t.server /\ r.query = t.query /\ r.api = t.api
         /\ t.op # "create"
  BY DEF CacheKey

LEMMA SameKey ==
  ASSUME NEW c, NEW d, SameUrl(c, d)
  PROVE  CacheKey(call[c]) = CacheKey(call[d])
  BY DEF SameUrl, CacheKey

(* The log has one write more.                                              *)
LEMMA Appended ==
  ASSUME NEW S, log \in Seq(S), NEW e \in S, log' = Append(log, e)
  PROVE  /\ Len(log) \in Nat /\ Len(log') = Len(log) + 1
         /\ log' \in Seq(S)
         /\ DOMAIN log = 1 .. Len(log) /\ DOMAIN log' = 1 .. Len(log) + 1
         /\ \A k \in DOMAIN log : log'[k] = log[k]
         /\ log'[Len(log) + 1] = e
  OBVIOUS

LEMMA Entries ==
  ASSUME NEW S, log \in Seq(S)
  PROVE  /\ Len(log) \in Nat /\ DOMAIN log = 1 .. Len(log)
         /\ \A k \in DOMAIN log : log[k] \in S
  OBVIOUS

LEMMA LogType ==
  ASSUME TypeOK
  PROVE  /\ Len(log) \in Nat /\ DOMAIN log = 1 .. Len(log)
         /\ \A k \in DOMAIN log : log[k].call \in Call /\ log[k].api \in Api
  <1> DEFINE E == [call : Call, api : Api]
  <1>1. \A e \in E : e.call \in Call /\ e.api \in Api
    OBVIOUS
  <1>2. log \in Seq(E)
    BY DEF TypeOK
  <1> HIDE DEF E
  <1> QED BY <1>1, <1>2, Entries

LEMMA AskedType ==
  ASSUME TypeOK, NEW r \in Request, NEW from \in Call, NEW age \in Nat,
         NEW item \in Item \cup {NoItem},
         NEW pc \in {"get", "put", "delete", "answered"},
         NEW s, s = Asked(r, pc, item, from, age)
  PROVE  /\ s \in State /\ s.pc = pc /\ s.op = r.op /\ s.server = r.server
         /\ s.query = r.query /\ s.api = r.api /\ s.target = r.target
         /\ s.fields = r.fields
         /\ s.item = item /\ s.from = from /\ s.age = age /\ s.seen = Len(log)
  <1>1. Len(log) \in Nat
    BY DEF TypeOK
  <1> DEFINE B == {d \in Call : InFlight(d)}
  <1>2. B \in SUBSET Call
    OBVIOUS
  <1> HIDE DEF B
  <1> QED BY <1>1, <1>2, Requests DEF Asked, State, B

-----------------------------------------------------------------------------
(* The inductive invariant.                                                *)

Wrote(c) == \E k \in DOMAIN log : log[k].call = c

(* What the place of a call says of it.                                    *)
CallSound(c) ==
  LET s == call[c] IN
  /\ s.pc = "get" => s.op \in {"get", "update"}
  /\ s.pc = "put" => s.op \in {"create", "update"}
  /\ s.pc = "delete" => s.op = "delete"
  /\ InFlight(c) => s.from = c /\ s.age = 0
  /\ s.pc \notin {"idle", "rejected"} => s.seen <= Len(log)
  /\ s.pc \in {"put", "answer"} /\ s.op \in {"create", "update"} =>
       /\ s.item \in Item
       /\ \A f \in s.fields : s.item[f] = c
  /\ s.pc \in {"put", "answer"} /\ s.op = "create" => s.fields = Field
  /\ s.pc = "answered" /\ s.from = c => s.age = 0
  /\ s.pc = "answered" /\ s.from # c => intercepted /\ s.age <= TTL
  /\ s.pc \in {"answer", "answered"} /\ s.from = c /\ s.op \in {"create", "update"} =>
       Wrote(c)

(* What has been written was written by a call on its way to an answer.    *)
LogSound ==
  \A k \in DOMAIN log :
    /\ call[log[k].call].pc \notin {"idle", "rejected", "get"}
    /\ call[log[k].call].target = log[k].api

(* Calls that are in flight together overlap ...                           *)
CallsOverlap(c, d) == InFlight(c) /\ InFlight(d) /\ c # d => Overlap(c, d)

(* ... and so do a call in flight and one that has written since the first *)
(* one read the table, or began.                                           *)
WritersOverlap(c) ==
  InFlight(c) => \A k \in DOMAIN log :
    k > call[c].seen => log[k].call = c \/ Overlap(c, log[k].call)

(* Nothing that was written is lost but to a call that may remove it.      *)
Removed(c, j, f) ==
  \E k \in WritesTo(log[j].api) : j < k /\ Removes(log[k].call, c, f)

WriteHolds(j) ==
  LET c == log[j].call IN
  call[c].op \in {"create", "update"} => \A f \in call[c].fields :
    \/ table[log[j].api] # NoItem /\ table[log[j].api][f] = c
    \/ Removed(c, j, f)

(* What an update is about to put back was there when it was read.         *)
Fresh(c) ==
  /\ call[c].pc \in {"put", "answer"} /\ call[c].op = "update" /\ ~ call[c].stale
  /\ call[c].target = call[c].api

CopyHolds(c) ==
  Fresh(c) =>
    \A j \in WritesTo(call[c].api) : LET d == log[j].call IN
      j <= call[c].seen /\ call[d].op \in {"create", "update"} =>
        \A f \in call[d].fields \ call[c].fields :
          call[c].item[f] = d \/ Removed(d, j, f)

(* The item that was read is still there, or a call deleted it meanwhile.  *)
DeletionsOverlap(c) ==
  Fresh(c) /\ table[call[c].api] = NoItem =>
    \E k \in WritesTo(call[c].api) :
      call[log[k].call].op = "delete" /\ Overlap(c, log[k].call)

(* Of the first n writes, r misses only those of calls that overlapped it, *)
(* among the calls for the same url.                                       *)
Misses(r, n) ==
  \A k \in WritesTo(call[r].api) :
    call[r].seen < k /\ k <= n /\ SameUrl(r, log[k].call) =>
      log[k].call = r \/ Overlap(r, log[k].call) \/ call[r].stale

(* The caches: an entry is the answer of a call, and until it expires no   *)
(* other call for its url begins, so none of these writes what it misses.  *)
EntrySound(u) ==
  LET r == cache[u].from IN
  r # NoItem =>
    /\ intercepted
    /\ call[r].pc = "answered" /\ call[r].from = r
    /\ CacheKey(call[r]) = u
    /\ cache[u].since <= now /\ cache[u].expires = cache[u].since + TTL
    /\ now <= cache[u].expires =>
         /\ Misses(r, Len(log))
         /\ \A d \in Call : InFlight(d) /\ CacheKey(call[d]) = u => Overlap(r, d)

AnswerSound(c) ==
  call[c].pc = "answered" =>
    /\ call[call[c].from].pc = "answered"
    /\ call[c].op = "get" => /\ SameUrl(c, call[c].from)
                             /\ Misses(call[c].from, call[c].seen)

PerCall(c) ==
  /\ CallSound(c) /\ WritersOverlap(c) /\ CopyHolds(c) /\ DeletionsOverlap(c)
  /\ AnswerSound(c)

IInv ==
  /\ TypeOK
  /\ LogSound
  /\ \A j \in DOMAIN log : WriteHolds(j)
  /\ \A c \in Call : PerCall(c)
  /\ \A c, d \in Call : CallsOverlap(c, d)
  /\ \A u \in Key : EntrySound(u)

-----------------------------------------------------------------------------
(* What a step leaves of the history.                                      *)

Keeps(c) ==
  /\ call'[c].op = call[c].op /\ call'[c].server = call[c].server
  /\ call'[c].query = call[c].query /\ call'[c].api = call[c].api
  /\ call'[c].target = call[c].target
  /\ call'[c].fields = call[c].fields /\ call'[c].beside = call[c].beside
  /\ call'[c].stale = call[c].stale /\ call'[c].seen = call[c].seen

HistoryKept ==
  /\ Len(log) \in Nat /\ Len(log') \in Nat /\ Len(log) <= Len(log')
  /\ DOMAIN log = 1 .. Len(log) /\ DOMAIN log' = 1 .. Len(log')
  /\ \A k \in DOMAIN log : log'[k] = log[k] /\ Keeps(log[k].call)

Elsewhere(c) == \A d \in Call : d # c => call'[d] = call[d]

LEMMA RemovedKept ==
  ASSUME HistoryKept, NEW c, Keeps(c), NEW j \in DOMAIN log, NEW f,
         Removed(c, j, f)
  PROVE  Removed(c, j, f)'
  <1>1. PICK k \in WritesTo(log[j].api) : j < k /\ Removes(log[k].call, c, f)
    BY DEF Removed
  <1>2. k \in DOMAIN log /\ log[k].api = log[j].api
    BY <1>1 DEF WritesTo
  <1>3. /\ k \in DOMAIN log' /\ log'[k] = log[k] /\ log'[j] = log[j]
        /\ Keeps(log[k].call)
    BY <1>2 DEF HistoryKept
  <1>4. Removes(log[k].call, c, f)'
    BY <1>1, <1>3 DEF Removes, Overlap, Keeps
  <1> QED BY <1>1, <1>2, <1>3, <1>4 DEF Removed, WritesTo

LEMMA MissesKept ==
  ASSUME HistoryKept, NEW r, Keeps(r), NEW n \in Nat, n <= Len(log),
         Misses(r, n)
  PROVE  Misses(r, n)'
  <1> SUFFICES ASSUME NEW k \in WritesTo(call[r].api)',
                      call'[r].seen < k, k <= n, SameUrl(r, log[k].call)'
               PROVE  (log[k].call = r \/ Overlap(r, log[k].call) \/ call[r].stale)'
    BY DEF Misses
  <1>1. k \in DOMAIN log' /\ log'[k].api = call[r].api
    BY DEF WritesTo, Keeps
  <1>2. k \in DOMAIN log
    BY <1>1 DEF HistoryKept
  <1>3. log'[k] = log[k] /\ Keeps(log[k].call)
    BY <1>2 DEF HistoryKept
  <1>4. k \in WritesTo(call[r].api) /\ call[r].seen < k /\ SameUrl(r, log[k].call)
    BY <1>1, <1>2, <1>3 DEF WritesTo, Keeps, SameUrl
  <1>5. log[k].call = r \/ Overlap(r, log[k].call) \/ call[r].stale
    BY <1>4 DEF Misses
  <1> QED BY <1>3, <1>5 DEF Overlap, Keeps

LEMMA CopyKept ==
  ASSUME HistoryKept, NEW d \in Call, Keeps(d), Fresh(d)' => Fresh(d),
         Fresh(d)' => call'[d].item = call[d].item, call[d].seen <= Len(log),
         call[d].seen \in Nat, CopyHolds(d)
  PROVE  CopyHolds(d)'
  <1> SUFFICES ASSUME Fresh(d)', NEW j \in WritesTo(call[d].api)',
                      j <= call'[d].seen,
                      (call[log[j].call].op \in {"create", "update"})',
                      NEW f \in (call[log[j].call].fields \ call[d].fields)'
               PROVE  (call[d].item[f] = log[j].call \/ Removed(log[j].call, j, f))'
    BY DEF CopyHolds
  <1>1. j \in DOMAIN log
    BY DEF WritesTo, HistoryKept, Keeps
  <1>2. Fresh(d) /\ j \in WritesTo(call[d].api) /\ j <= call[d].seen
    BY <1>1 DEF WritesTo, HistoryKept, Keeps
  <1>3. PICK w : w = log[j].call
    OBVIOUS
  <1>4. Keeps(w) /\ w = log'[j].call
    BY <1>1, <1>3 DEF HistoryKept
  <1>5. call[w].op \in {"create", "update"} /\ f \in call[w].fields \ call[d].fields
    BY <1>4 DEF Keeps
  <1>6. call[d].item[f] = w \/ Removed(w, j, f)
    BY <1>2, <1>3, <1>5 DEF CopyHolds
  <1>7. Removed(w, j, f) => Removed(w, j, f)'
    BY <1>1, <1>4, RemovedKept
  <1> QED BY <1>4, <1>6, <1>7

LEMMA DeletionsKept ==
  ASSUME HistoryKept, NEW d \in Call, Keeps(d), Fresh(d)' => Fresh(d),
         Fresh(d)' /\ table'[call[d].api] = NoItem => table[call[d].api] = NoItem,
         DeletionsOverlap(d)
  PROVE  DeletionsOverlap(d)'
  <1> SUFFICES ASSUME Fresh(d)', table'[call[d].api] = NoItem
               PROVE  \E k \in WritesTo(call[d].api)' :
                        (call[log[k].call].op = "delete" /\ Overlap(d, log[k].call))'
    BY DEF DeletionsOverlap, Keeps
  <1>1. PICK k \in WritesTo(call[d].api) :
          call[log[k].call].op = "delete" /\ Overlap(d, log[k].call)
    BY DEF DeletionsOverlap
  <1>2. k \in DOMAIN log /\ k \in DOMAIN log' /\ log'[k] = log[k] /\ Keeps(log[k].call)
    BY <1>1 DEF WritesTo, HistoryKept
  <1>3. k \in WritesTo(call[d].api)'
    BY <1>1, <1>2 DEF WritesTo, Keeps
  <1>4. (call[log[k].call].op = "delete" /\ Overlap(d, log[k].call))'
    BY <1>1, <1>2 DEF Keeps, Overlap
  <1> QED BY <1>3, <1>4

-----------------------------------------------------------------------------
(* A step of call c that writes nothing and leaves the other calls alone.  *)
QuietStep(c) ==
  /\ log' = log /\ table' = table /\ intercepted' = intercepted /\ now' = now
  /\ Elsewhere(c)
  /\ call[c].pc # "answered"
  /\ Wrote(c) => Keeps(c) /\ call'[c].pc \notin {"idle", "rejected", "get"}

LEMMA QuietHistory ==
  ASSUME IInv, NEW c \in Call, QuietStep(c)
  PROVE  HistoryKept
  <1>1. /\ Len(log) \in Nat /\ DOMAIN log = 1 .. Len(log) /\ log' = log
        /\ \A k \in DOMAIN log : log[k].call \in Call
    BY LogType DEF IInv, QuietStep
  <1>2. ASSUME NEW k \in DOMAIN log PROVE Keeps(log[k].call)
    <2>1. CASE log[k].call = c
      BY <2>1 DEF Wrote, QuietStep
    <2>2. CASE log[k].call # c
      BY <1>1, <2>2 DEF QuietStep, Elsewhere, Keeps
    <2> QED BY <2>1, <2>2
  <1> QED BY <1>1, <1>2 DEF HistoryKept

LEMMA QuietLog ==
  ASSUME IInv, NEW c \in Call, QuietStep(c)
  PROVE  LogSound' /\ \A j \in DOMAIN log' : WriteHolds(j)'
  <1> USE QuietHistory
  <1>1. /\ log' = log /\ table' = table
        /\ \A k \in DOMAIN log : log[k].call \in Call
    BY LogType DEF IInv, QuietStep
  <1>2. ASSUME NEW k \in DOMAIN log
        PROVE  /\ call'[log[k].call].pc \notin {"idle", "rejected", "get"}
               /\ call'[log[k].call].target = log[k].api
    <2>1. Keeps(log[k].call)
      BY DEF HistoryKept
    <2>2. call[log[k].call].pc \notin {"idle", "rejected", "get"}
          /\ call[log[k].call].target = log[k].api
      BY DEF IInv, LogSound
    <2>3. CASE log[k].call = c
      BY <2>1, <2>2, <2>3 DEF Wrote, QuietStep, Keeps
    <2>4. CASE log[k].call # c
      BY <1>1, <2>2, <2>4 DEF QuietStep, Elsewhere
    <2> QED BY <2>3, <2>4
  <1>3. ASSUME NEW j \in DOMAIN log PROVE WriteHolds(j)'
    <2>1. Keeps(log[j].call) /\ WriteHolds(j)
      BY DEF HistoryKept, IInv
    <2>2. ASSUME NEW f, Removed(log[j].call, j, f)
          PROVE  Removed(log[j].call, j, f)'
      <3>1. PICK d : d = log[j].call
        OBVIOUS
      <3>2. Removed(d, j, f)'
        BY <2>1, <2>2, <3>1, RemovedKept
      <3> QED BY <1>1, <3>1, <3>2
    <2> QED BY <1>1, <2>1, <2>2 DEF WriteHolds, Keeps
  <1> QED BY <1>1, <1>2, <1>3 DEF LogSound

LEMMA QuietOthers ==
  ASSUME IInv, NEW c \in Call, QuietStep(c), NEW d \in Call, d # c
  PROVE  PerCall(d)'
  <1> USE QuietHistory
  <1>1. /\ log' = log /\ table' = table /\ now' = now /\ intercepted' = intercepted
        /\ call'[d] = call[d] /\ Keeps(d) /\ PerCall(d)
        /\ \A k \in DOMAIN log : log[k].call \in Call
    BY LogType DEF IInv, QuietStep, Elsewhere, Keeps
  <1>2. CallSound(d)'
    BY <1>1 DEF PerCall, CallSound, InFlight, Wrote
  <1>3. WritersOverlap(d)'
    BY <1>1 DEF PerCall, WritersOverlap, InFlight, HistoryKept, Keeps, Overlap
  <1>4. CopyHolds(d)' /\ DeletionsOverlap(d)'
    <2>1. Fresh(d)' => Fresh(d) /\ call[d].pc \notin {"idle", "rejected"}
      BY <1>1 DEF Fresh
    <2>2. CASE Fresh(d)'
      <3>1. call[d].seen \in Nat /\ call[d].seen <= Len(log)
        BY <1>1, <2>1, <2>2, StateOf DEF IInv, State, PerCall, CallSound
      <3> QED BY <1>1, <2>1, <3>1, CopyKept, DeletionsKept DEF PerCall
    <2> QED BY <2>2 DEF CopyHolds, DeletionsOverlap
  <1>5. AnswerSound(d)'
    <2> SUFFICES ASSUME call[d].pc = "answered"
                 PROVE  /\ call'[call[d].from].pc = "answered"
                        /\ call[d].op = "get" =>
                             /\ SameUrl(d, call[d].from)'
                             /\ Misses(call[d].from, call[d].seen)'
      BY <1>1 DEF AnswerSound
    <2>1. PICK r : r = call[d].from
      OBVIOUS
    <2>2. /\ r \in Call /\ call[d].seen \in Nat /\ call[d].seen <= Len(log)
          /\ call[r].pc = "answered"
      BY <1>1, <2>1, StateOf DEF IInv, State, PerCall, CallSound, AnswerSound
    <2>3. call'[r] = call[r] /\ Keeps(r)
      BY <2>2 DEF QuietStep, Elsewhere, Keeps
    <2>4. PICK n : n = call[d].seen
      OBVIOUS
    <2>5. Misses(r, n) => Misses(r, n)'
      BY <2>2, <2>3, <2>4, MissesKept
    <2>6. SameUrl(d, r) => SameUrl(d, r)'
      BY <1>1, <2>3 DEF SameUrl
    <2> QED BY <1>1, <2>1, <2>2, <2>3, <2>4, <2>5, <2>6 DEF PerCall, AnswerSound
  <1> QED BY <1>2, <1>3, <1>4, <1>5 DEF PerCall

LEMMA QuietOverlap ==
  ASSUME IInv, NEW c \in Call, QuietStep(c),
         ASSUME NEW d \in Call, d # c, InFlight(c)', InFlight(d) PROVE Overlap(c, d)'
  PROVE  \A d, e \in Call : CallsOverlap(d, e)'
  <1> SUFFICES ASSUME NEW d \in Call, NEW e \in Call, d # e, InFlight(d)', InFlight(e)'
               PROVE  Overlap(d, e)'
    BY DEF CallsOverlap
  <1>1. \A x \in Call : x # c => call'[x] = call[x] /\ (InFlight(x)' <=> InFlight(x))
    BY DEF QuietStep, Elsewhere, InFlight
  <1>2. CASE d = c
    BY <1>1, <1>2
  <1>3. CASE e = c
    <2>1. Overlap(c, d)'
      BY <1>1, <1>3
    <2> QED BY <1>3, <2>1 DEF Overlap
  <1>4. CASE d # c /\ e # c
    BY <1>1, <1>4 DEF IInv, CallsOverlap, Overlap
  <1> QED BY <1>2, <1>3, <1>4

LEMMA QuietEntry ==
  ASSUME IInv, NEW c \in Call, QuietStep(c), NEW u \in Key, cache'[u] = cache[u],
         ASSUME InFlight(c)', CacheKey(call[c])' = u, cache[u].from # NoItem,
                now <= cache[u].expires
         PROVE  Overlap(cache[u].from, c)'
  PROVE  EntrySound(u)'
  <1> USE QuietHistory
  <1> SUFFICES ASSUME cache[u].from # NoItem PROVE EntrySound(u)'
    BY DEF EntrySound
  <1>r. PICK r : r = cache[u].from
    OBVIOUS
  <1>1. /\ intercepted /\ call[r].pc = "answered" /\ call[r].from = r
        /\ CacheKey(call[r]) = u /\ cache[u].since <= now
        /\ cache[u].expires = cache[u].since + TTL
    BY <1>r DEF IInv, EntrySound
  <1>2. r \in Call
    BY <1>r DEF IInv, TypeOK
  <1>3. /\ log' = log /\ intercepted' = intercepted /\ now' = now
        /\ call'[r] = call[r] /\ Keeps(r)
        /\ \A d \in Call : d # c => call'[d] = call[d]
    BY <1>1, <1>2 DEF QuietStep, Elsewhere, Keeps
  <1>4. ASSUME now <= cache[u].expires
        PROVE  /\ Misses(r, Len(log))'
               /\ \A d \in Call : (InFlight(d) /\ CacheKey(call[d]) = u => Overlap(r, d))'
    <2>1. /\ Misses(r, Len(log))
          /\ \A d \in Call : InFlight(d) /\ CacheKey(call[d]) = u => Overlap(r, d)
      BY <1>r, <1>4 DEF IInv, EntrySound
    <2>2. Misses(r, Len(log))'
      <3>1. PICK n : n = Len(log)
        OBVIOUS
      <3>2. Misses(r, n)'
        BY <1>3, <2>1, <3>1, MissesKept DEF HistoryKept
      <3> QED BY <1>3, <3>1, <3>2
    <2>3. ASSUME NEW d \in Call, InFlight(d)', CacheKey(call[d])' = u PROVE Overlap(r, d)'
      <3>1. CASE d = c
        BY <1>r, <1>4, <2>3, <3>1
      <3>2. CASE d # c
        BY <1>3, <2>1, <2>3, <3>2 DEF InFlight, Overlap, CacheKey
      <3> QED BY <3>1, <3>2
    <2> QED BY <2>2, <2>3
  <1>5. CacheKey(call[r])' = u
    BY <1>1, <1>3 DEF CacheKey
  <1> QED BY <1>r, <1>1, <1>3, <1>4, <1>5 DEF EntrySound

Continues(c) ==
  InFlight(c)' => /\ InFlight(c) /\ call'[c].beside = call[c].beside
                  /\ CacheKey(call[c])' = CacheKey(call[c])

LEMMA Continuing ==
  ASSUME IInv, NEW c \in Call, QuietStep(c), Continues(c)
  PROVE  /\ \A d, e \in Call : CallsOverlap(d, e)'
         /\ \A u \in Key : cache'[u] = cache[u] => EntrySound(u)'
  <1>1. ASSUME NEW d \in Call, d # c, InFlight(c)', InFlight(d) PROVE Overlap(c, d)'
    BY <1>1 DEF IInv, CallsOverlap, Continues, Overlap, QuietStep, Elsewhere
  <1>2. ASSUME NEW u \in Key, cache'[u] = cache[u] PROVE EntrySound(u)'
    <2>1. ASSUME InFlight(c)', CacheKey(call[c])' = u, cache[u].from # NoItem,
                 now <= cache[u].expires
          PROVE  Overlap(cache[u].from, c)'
      <3>1. PICK r : r = cache[u].from
        OBVIOUS
      <3>2. /\ r \in Call /\ call[r].pc = "answered" /\ InFlight(c) /\ CacheKey(call[c]) = u
            /\ Overlap(r, c)
        BY <2>1, <3>1 DEF IInv, TypeOK, EntrySound, Continues
      <3>3. call'[r] = call[r] /\ call'[c].beside = call[c].beside
        BY <2>1, <3>2 DEF QuietStep, Elsewhere, Continues
      <3>4. Overlap(r, c)'
        BY <3>2, <3>3 DEF Overlap
      <3> QED BY <1>2, <3>1, <3>4
    <2> QED BY <1>2, <2>1, QuietEntry
  <1> QED BY <1>1, <1>2, QuietOverlap

LEMMA QuietIInv ==
  ASSUME IInv, TypeOK', NEW c \in Call, QuietStep(c), PerCall(c)',
         \A d, e \in Call : CallsOverlap(d, e)', \A u \in Key : EntrySound(u)'
  PROVE  IInv'
  BY QuietLog, QuietOthers DEF IInv

LEMMA CallSet ==
  ASSUME TypeOK, NEW c \in Call, NEW s \in State, call' = [call EXCEPT ![c] = s]
  PROVE  call' \in [Call -> CallState] /\ call'[c] = s /\ Elsewhere(c)
  <1>1. s \in CallState
    BY DEF State, CallState
  <1>2. call \in [Call -> CallState]
    BY DEF TypeOK
  <1> QED BY <1>1, <1>2 DEF Elsewhere

LEMMA KeyOfCall ==
  ASSUME NEW c, NEW s, call'[c] = s
  PROVE  CacheKey(call[c])' = CacheKey(s)
  BY DEF CacheKey

-----------------------------------------------------------------------------
(* The steps that begin a call.                                            *)

LEMMA NotWritten ==
  ASSUME IInv, NEW c \in Call, call[c].pc \in {"idle", "get"}
  PROVE  ~ Wrote(c)
  BY DEF IInv, LogSound, Wrote

LEMMA HandleIInv ==
  ASSUME IInv, NEW c \in Call, NEW r \in Request, NEW pc \in {"get", "put", "delete"},
         NEW item \in Item \cup {NoItem}, Handle(c, r, pc, item),
         pc = "get" => r.op \in {"get", "update"},
         pc = "delete" => r.op = "delete",
         pc = "put" => /\ r.op = "create" /\ item \in Item
                       /\ \A f \in Field : item[f] = c
  PROVE  IInv'
  <1>s. PICK s : s = Asked(r, pc, item, c, 0)
    OBVIOUS
  <1>1. /\ s \in State /\ s.pc = pc /\ s.op = r.op /\ s.server = r.server
        /\ s.query = r.query /\ s.api = r.api /\ s.fields = r.fields
        /\ s.item = item /\ s.from = c /\ s.age = 0 /\ s.seen = Len(log)
    <2>1. TypeOK /\ pc \in {"get", "put", "delete", "answered"} /\ 0 \in Nat
      BY DEF IInv
    <2> QED BY <1>s, <2>1, AskedType
  <1>2. s.beside = {d \in Call : InFlight(d)}
    BY <1>s DEF Asked
  <1>3. /\ call' = [call EXCEPT ![c] = s] /\ call[c] = Idle
        /\ ~ (intercepted /\ Cached(CacheKey(r)))
        /\ intercepted' = intercepted /\ table' = table /\ replica' = replica
        /\ cache' = cache /\ now' = now /\ log' = log
    BY <1>s, Zenon DEF Handle
  <1>4. call' \in [Call -> CallState] /\ call'[c] = s /\ Elsewhere(c)
    BY <1>1, <1>3, CallSet DEF IInv
  <1>5. TypeOK'
    BY <1>3, <1>4 DEF IInv, TypeOK
  <1>6. call[c].pc = "idle" /\ ~ Wrote(c)
    BY <1>3, NotWritten DEF Idle
  <1>7. QuietStep(c)
    BY <1>3, <1>4, <1>6 DEF QuietStep
  <1>8. PerCall(c)'
    <2>1. /\ call'[c] = s /\ log' = log /\ Len(log) \in Nat /\ DOMAIN log = 1 .. Len(log)
          /\ s.pc \in {"get", "put", "delete"}
          /\ s.op = "create" => s.fields = Field
      BY <1>1, <1>3, <1>4, LogType, Requests DEF IInv
    <2>2. CallSound(c)'
      BY <1>1, <2>1 DEF CallSound, InFlight
    <2>3. WritersOverlap(c)'
      BY <1>1, <2>1 DEF WritersOverlap
    <2>4. ~ Fresh(c)'
      BY <1>1, <2>1 DEF Fresh
    <2>5. AnswerSound(c)'
      BY <2>1 DEF AnswerSound
    <2> QED BY <2>2, <2>3, <2>4, <2>5 DEF PerCall, CopyHolds, DeletionsOverlap
  <1>9. ASSUME NEW d \in Call, d # c, InFlight(d) PROVE Overlap(c, d)'
    BY <1>2, <1>4, <1>9 DEF Overlap
  <1>10. ASSUME NEW u \in Key PROVE EntrySound(u)'
    <2>1. CacheKey(s) = CacheKey(r)
      BY <1>1 DEF CacheKey
    <2>2. ~ (CacheKey(s) = u /\ cache[u].from # NoItem /\ now <= cache[u].expires)
      <3> SUFFICES ASSUME CacheKey(s) = u, cache[u].from # NoItem, now <= cache[u].expires
                   PROVE  FALSE
        OBVIOUS
      <3>1. intercepted
        BY DEF IInv, EntrySound
      <3> QED BY <1>3, <2>1, <3>1 DEF Cached
    <2>3. CacheKey(call[c])' = CacheKey(s)
      BY <1>4 DEF CacheKey
    <2> QED BY <1>3, <1>7, <2>2, <2>3, QuietEntry
  <1> QED BY <1>5, <1>7, <1>8, <1>9, <1>10, QuietOverlap, QuietIInv

LEMMA AnswerFromCacheIInv ==
  ASSUME IInv, NEW c \in Call, NEW q \in Request, AnswerFromCache(c, q)
  PROVE  IInv'
  <1>u. PICK u : u = CacheKey(q)
    OBVIOUS
  <1>r. PICK r : r = cache[u].from
    OBVIOUS
  <1>g. PICK age : age = now - cache[u].since
    OBVIOUS
  <1>s. PICK s : s = Asked(q, "answered", NoItem, r, age)
    OBVIOUS
  <1>1. /\ call' = [call EXCEPT ![c] = s] /\ call[c] = Idle
        /\ intercepted /\ Cached(u)
        /\ intercepted' = intercepted /\ table' = table /\ replica' = replica
        /\ cache' = cache /\ now' = now /\ log' = log
    BY <1>u, <1>r, <1>g, <1>s, Zenon DEF AnswerFromCache
  <1>2. u \in Key
    BY <1>u, Requests, KeyOf
  <1>3. /\ r \in Call /\ r # NoItem /\ now <= cache[u].expires
        /\ cache[u].since \in Nat /\ cache[u].expires \in Nat /\ now \in Nat
    BY <1>r, <1>1, <1>2 DEF Cached, IInv, TypeOK
  <1>4. /\ call[r].pc = "answered" /\ call[r].from = r /\ CacheKey(call[r]) = u
        /\ cache[u].since <= now /\ cache[u].expires = cache[u].since + TTL
        /\ Misses(r, Len(log))
    BY <1>r, <1>2, <1>3 DEF IInv, EntrySound
  <1>5. age \in Nat /\ age <= TTL
    BY <1>g, <1>3, <1>4
  <1>6. /\ s \in State /\ s.pc = "answered" /\ s.op = q.op /\ s.server = q.server
        /\ s.query = q.query /\ s.api = q.api
        /\ s.from = r /\ s.age = age /\ s.seen = Len(log)
    <2>1. TypeOK
      BY DEF IInv
    <2> QED BY <1>s, <1>3, <1>5, <2>1, AskedType
  <1>7. call' \in [Call -> CallState] /\ call'[c] = s /\ Elsewhere(c)
    BY <1>1, <1>6, CallSet DEF IInv
  <1>8. TypeOK'
    BY <1>1, <1>7 DEF IInv, TypeOK
  <1>9. call[c].pc = "idle" /\ ~ Wrote(c) /\ r # c
    BY <1>1, <1>4, NotWritten DEF Idle
  <1>10. QuietStep(c)
    BY <1>1, <1>7, <1>9 DEF QuietStep
  <1>11. PerCall(c)'
    <2>1. /\ call'[c] = s /\ log' = log /\ Len(log) \in Nat /\ now' = now
          /\ intercepted' /\ call'[r] = call[r] /\ Keeps(r)
      BY <1>1, <1>3, <1>7, <1>9, LogType DEF IInv, Elsewhere, Keeps
    <2>2. CallSound(c)'
      BY <1>5, <1>6, <1>9, <2>1 DEF CallSound, InFlight
    <2>3. WritersOverlap(c)' /\ ~ Fresh(c)'
      BY <1>6, <2>1 DEF WritersOverlap, InFlight, Fresh
    <2>4. Misses(r, s.seen)'
      <3>1. PICK n : n = Len(log)
        OBVIOUS
      <3>2. Misses(r, n)'
        BY <1>4, <1>10, <2>1, <3>1, MissesKept, QuietHistory
      <3> QED BY <1>6, <3>1, <3>2
    <2>5. ASSUME q.op = "get" PROVE SameUrl(c, r)'
      <3>1. q.api \in Api /\ call[r].api \in Api
        BY <1>3, <1>4, Requests, StateOf DEF IInv, State
      <3>2. /\ q.server = call[r].server /\ q.query = call[r].query
            /\ q.api = call[r].api /\ call[r].op # "create"
        BY <1>u, <1>4, <2>5, <3>1, OneKey
      <3> QED BY <1>6, <2>1, <2>5, <3>2 DEF SameUrl
    <2>6. AnswerSound(c)'
      BY <1>4, <1>6, <2>1, <2>4, <2>5 DEF AnswerSound
    <2> QED BY <2>2, <2>3, <2>6 DEF PerCall, CopyHolds, DeletionsOverlap
  <1>12. Continues(c)
    BY <1>6, <1>7 DEF Continues, InFlight
  <1> QED BY <1>1, <1>8, <1>10, <1>11, <1>12, Continuing, QuietIInv

-----------------------------------------------------------------------------
(* The other steps that write nothing.                                     *)

Places == {"get", "put", "delete", "answer", "answered", "failed"}

(* The record of a call after its steps: what each keeps of it.            *)
Ended(r) == [r EXCEPT !.pc = "answered", !.item = NoItem]
Copied(r, n, read, held, item, pc) ==
  [r EXCEPT !.seen = n, !.stale = read # held, !.item = item, !.pc = pc]

(* Two records of one request.                                             *)
SameRequest(s, r) ==
  /\ s.op = r.op /\ s.server = r.server /\ s.query = r.query /\ s.api = r.api
  /\ s.target = r.target /\ s.fields = r.fields /\ s.beside = r.beside
  /\ s.from = r.from /\ s.age = r.age /\ CacheKey(s) = CacheKey(r)

LEMMA WithPc ==
  ASSUME NEW r \in State, NEW pc \in Places, NEW s, s = [r EXCEPT !.pc = pc]
  PROVE  /\ s \in State /\ s.pc = pc /\ s.item = r.item /\ s.seen = r.seen
         /\ s.stale = r.stale /\ SameRequest(s, r)
  BY DEF State, Places, SameRequest, CacheKey

LEMMA WithEnd ==
  ASSUME NEW r \in State, NEW s, s = Ended(r)
  PROVE  /\ s \in State /\ s.pc = "answered" /\ s.item = NoItem /\ s.seen = r.seen
         /\ s.stale = r.stale /\ SameRequest(s, r)
  BY DEF State, Ended, SameRequest, CacheKey

LEMMA WithFailure ==
  ASSUME NEW r \in State, NEW s, s = [r EXCEPT !.pc = "failed", !.item = NoItem]
  PROVE  /\ s \in State /\ s.pc = "failed" /\ s.item = NoItem /\ s.seen = r.seen
         /\ s.stale = r.stale /\ SameRequest(s, r)
  BY DEF State, SameRequest, CacheKey

LEMMA WithCopy ==
  ASSUME NEW r \in State, NEW n \in Nat, NEW read, NEW held, NEW item \in Item,
         NEW pc \in Places, NEW s, s = Copied(r, n, read, held, item, pc)
  PROVE  /\ s \in State /\ s.pc = pc /\ s.item = item /\ s.seen = n
         /\ s.stale <=> read # held
         /\ SameRequest(s, r)
  BY DEF State, Places, Copied, SameRequest, CacheKey

LEMMA ResendIInv ==
  ASSUME IInv, NEW c \in Call, Resend(c)
  PROVE  IInv'
  <1>p. PICK pc : pc = IF call[c].op = "delete" THEN "delete" ELSE "put"
    OBVIOUS
  <1>s. PICK s : s = [call[c] EXCEPT !.pc = pc]
    OBVIOUS
  <1>1. /\ call' = [call EXCEPT ![c] = s] /\ call[c].pc = "answer"
        /\ call[c].op # "get"
        /\ intercepted' = intercepted /\ table' = table /\ replica' = replica
        /\ cache' = cache /\ now' = now /\ log' = log
    BY <1>p, <1>s, Zenon DEF Resend, Goto
  <1>2. call[c] \in State
    BY <1>1, StateOf DEF IInv
  <1>r. /\ s \in State /\ s.pc = pc /\ s.item = call[c].item
        /\ s.stale = call[c].stale /\ s.seen = call[c].seen /\ SameRequest(s, call[c])
    BY <1>p, <1>s, <1>2, WithPc DEF Places
  <1>3. /\ s \in State /\ s.pc = pc /\ s.item = call[c].item /\ s.from = call[c].from
        /\ s.age = call[c].age /\ s.op = call[c].op /\ s.server = call[c].server
        /\ s.query = call[c].query /\ s.api = call[c].api /\ s.target = call[c].target
        /\ s.fields = call[c].fields /\ s.beside = call[c].beside
        /\ s.stale = call[c].stale /\ s.seen = call[c].seen
        /\ CacheKey(s) = CacheKey(call[c])
    BY <1>r DEF SameRequest
  <1>4. call' \in [Call -> CallState] /\ call'[c] = s /\ Elsewhere(c)
    BY <1>1, <1>3, CallSet DEF IInv
  <1>5. TypeOK'
    BY <1>1, <1>4 DEF IInv, TypeOK
  <1>6. Keeps(c) /\ pc \in {"put", "delete"}
    BY <1>p, <1>3, <1>4 DEF Keeps
  <1>7. QuietStep(c)
    BY <1>1, <1>3, <1>4, <1>6 DEF QuietStep
  <1>8. Continues(c)
    BY <1>1, <1>3, <1>4, KeyOfCall DEF Continues, InFlight
  <1>9. PerCall(c)'
    <2>1. /\ call'[c] = s /\ log' = log /\ PerCall(c) /\ HistoryKept
          /\ call[c].seen \in Nat /\ call[c].op \in {"create", "update", "delete"}
      BY <1>1, <1>2, <1>4, <1>7, QuietHistory DEF IInv, State
    <2>2. CallSound(c)'
      BY <1>p, <1>1, <1>3, <1>6, <2>1 DEF PerCall, CallSound, InFlight
    <2>3. WritersOverlap(c)'
      BY <1>1, <1>6, <2>1 DEF PerCall, WritersOverlap, InFlight, HistoryKept, Keeps, Overlap
    <2>4. Fresh(c)' => Fresh(c)
      BY <1>1, <1>3, <2>1 DEF Fresh
    <2>5. CopyHolds(c)'
      BY <1>1, <1>3, <1>6, <2>1, <2>4, CopyKept DEF PerCall, CallSound
    <2>6. DeletionsOverlap(c)'
      BY <1>1, <1>3, <1>6, <2>1, <2>4, DeletionsKept DEF PerCall
    <2>7. AnswerSound(c)'
      BY <1>3, <1>6, <2>1 DEF AnswerSound
    <2> QED BY <2>2, <2>3, <2>5, <2>6, <2>7 DEF PerCall
  <1> QED BY <1>1, <1>5, <1>7, <1>8, <1>9, Continuing, QuietIInv

(* A call of which nothing is remembered.                                  *)
LEMMA RejectedIInv ==
  ASSUME IInv, NEW c \in Call, call[c].pc \notin {"idle", "answered"}, ~ Wrote(c),
         call' = [call EXCEPT ![c] = Rejected],
         intercepted' = intercepted, table' = table, replica' = replica,
         cache' = cache, now' = now, log' = log
  PROVE  IInv'
  <1>1. Rejected.pc = "rejected" /\ Rejected \in CallState
    BY DEF Rejected, CallState
  <1>2. call' \in [Call -> CallState] /\ call'[c] = Rejected /\ Elsewhere(c)
    <2> HIDE DEF Rejected, CallState
    <2> QED BY <1>1 DEF IInv, TypeOK, Elsewhere
  <1>3. TypeOK'
    BY <1>2 DEF IInv, TypeOK
  <1>4. QuietStep(c) /\ Continues(c)
    BY <1>1, <1>2 DEF QuietStep, Continues, InFlight
  <1>5. PerCall(c)'
    <2>1. Len(log) \in Nat
      BY LogType DEF IInv
    <2> QED BY <1>1, <1>2, <2>1 DEF PerCall, CallSound, WritersOverlap, CopyHolds,
               DeletionsOverlap, AnswerSound, Fresh, InFlight
  <1> QED BY <1>3, <1>4, <1>5, Continuing, QuietIInv

LEMMA GetIInv ==
  ASSUME IInv, NEW c \in Call, Get(c)
  PROVE  IInv'
  <1>1. PICK item \in {table[call[c].api], replica[call[c].api]} :
          call' = [call EXCEPT ![c] =
            IF item = NoItem THEN Rejected
            ELSE [call[c] EXCEPT !.seen = Len(log),
                           !.stale = item # table[call[c].api],
                           !.item = [f \in Field |-> IF f \in call[c].fields
                                                     THEN c ELSE item[f]],
                           !.pc = IF call[c].op = "get" THEN "answer" ELSE "put"]]
    BY Zenon DEF Get
  <1>2. /\ call[c].pc = "get"
        /\ intercepted' = intercepted /\ table' = table /\ replica' = replica
        /\ cache' = cache /\ now' = now /\ log' = log
    BY Zenon DEF Get
  <1>3. ~ Wrote(c) /\ call[c] \in State /\ call[c].api \in Api
    BY <1>2, NotWritten, StateOf DEF IInv, State
  <1>4. CASE item = NoItem
    <2>1. call' = [call EXCEPT ![c] = Rejected]
      BY <1>1, <1>4, Zenon
    <2> QED BY <1>2, <1>3, <2>1, RejectedIInv
  <1>5. CASE item # NoItem
    <2>b. PICK held : held = table[call[c].api]
      OBVIOUS
    <2>m. PICK m : m = [f \in Field |-> IF f \in call[c].fields THEN c ELSE item[f]]
      OBVIOUS
    <2>p. PICK pc : pc = IF call[c].op = "get" THEN "answer" ELSE "put"
      OBVIOUS
    <2>n. PICK n : n = Len(log)
      OBVIOUS
    <2>s. PICK s : s = Copied(call[c], n, item, held, m, pc)
      OBVIOUS
    <2>1. call' = [call EXCEPT ![c] = s]
      BY <1>1, <1>5, <2>b, <2>m, <2>p, <2>n, <2>s, Zenon DEF Copied
    <2>2. item \in Item
      BY <1>1, <1>3, <1>5 DEF IInv, TypeOK
    <2>3. m \in Item /\ \A f \in Field : m[f] = IF f \in call[c].fields THEN c ELSE item[f]
      BY <2>2, <2>m DEF Item
    <2>4. n \in Nat  /\ pc \in Places
      BY <2>b, <2>p, <2>n, LogType DEF IInv, Places
    <2>r. /\ s \in State /\ s.pc = pc /\ s.item = m /\ s.seen = n
          /\ s.stale <=> item # held
          /\ SameRequest(s, call[c])
      BY <1>3, <2>3, <2>4, <2>s, WithCopy
    <2>5. /\ s \in State /\ s.pc = pc /\ s.item = m /\ s.from = call[c].from
          /\ s.age = call[c].age /\ s.op = call[c].op /\ s.api = call[c].api
          /\ s.target = call[c].target
          /\ s.fields = call[c].fields /\ s.beside = call[c].beside /\ s.seen = n
          /\ s.stale <=> item # held
          /\ CacheKey(s) = CacheKey(call[c])
      BY <2>r DEF SameRequest
    <2>6. call' \in [Call -> CallState] /\ call'[c] = s /\ Elsewhere(c)
      BY <2>1, <2>5, CallSet DEF IInv
    <2>7. TypeOK'
      BY <1>2, <2>6 DEF IInv, TypeOK
    <2>8. QuietStep(c) /\ Continues(c)
      BY <1>2, <1>3, <2>5, <2>6, KeyOfCall DEF QuietStep, Continues, InFlight
    <2>9. PerCall(c)'
      <3>1. /\ call'[c] = s /\ log' = log /\ table' = table /\ PerCall(c)
            /\ call[c].op \in {"get", "update"}
            /\ s.fields \in SUBSET Field
        BY <1>2, <1>3, <2>5, <2>6 DEF IInv, PerCall, CallSound, State
      <3>2. CallSound(c)'
        BY <1>2, <2>3, <2>4, <2>5, <2>n, <2>p, <3>1, LogType
        DEF IInv, PerCall, CallSound, InFlight
      <3>3. WritersOverlap(c)'
        BY <2>5, <2>n, <3>1, LogType DEF IInv, WritersOverlap
      <3>4. ASSUME Fresh(c)' PROVE item = table[call[c].api] /\ call[c].op = "update"
        BY <2>b, <2>5, <3>1, <3>4 DEF Fresh
      <3>5. CopyHolds(c)'
        <4> SUFFICES ASSUME Fresh(c)', NEW j \in WritesTo(call[c].api)',
                            (call[log[j].call].op \in {"create", "update"})',
                            NEW f \in (call[log[j].call].fields \ call[c].fields)'
                     PROVE  (call[c].item[f] = log[j].call \/ Removed(log[j].call, j, f))'
          BY DEF CopyHolds
        <4>1. PICK w : w = log[j].call
          OBVIOUS
        <4>2. /\ j \in DOMAIN log /\ log[j].api = call[c].api /\ w = log'[j].call
              /\ w # c /\ w \in Call /\ item = table[call[c].api] /\ WriteHolds(j)
          BY <1>3, <2>5, <3>1, <3>4, <4>1, LogType DEF WritesTo, Wrote, IInv
        <4>3. call'[w] = call[w] /\ HistoryKept /\ Keeps(w)
          BY <2>6, <2>8, <4>2, QuietHistory DEF Elsewhere, Keeps
        <4>4. /\ call[w].op \in {"create", "update"} /\ f \in call[w].fields
              /\ f \notin call[c].fields
          BY <2>5, <3>1, <4>2, <4>3
        <4>5. item[f] = w \/ Removed(w, j, f)
          BY <4>1, <4>2, <4>4 DEF WriteHolds
        <4>6. f \in Field
          <5>1. call[w].pc \notin {"idle", "rejected"}
            BY <4>1, <4>2 DEF IInv, LogSound
          <5>2. call[w] \in State
            BY <4>2, <5>1, StateOf DEF IInv
          <5> QED BY <4>4, <5>2 DEF State
        <4>7. Removed(w, j, f) => Removed(w, j, f)'
          BY <4>2, <4>3, RemovedKept
        <4> QED BY <2>3, <2>5, <3>1, <4>2, <4>4, <4>5, <4>6, <4>7
      <3>6. DeletionsOverlap(c)'
        BY <1>5, <2>5, <3>1, <3>4 DEF DeletionsOverlap
      <3>7. AnswerSound(c)'
        BY <2>5, <2>p, <3>1 DEF AnswerSound
      <3> QED BY <3>2, <3>3, <3>5, <3>6, <3>7 DEF PerCall
    <2> QED BY <1>2, <2>7, <2>8, <2>9, Continuing, QuietIInv
  <1> QED BY <1>4, <1>5

LEMMA AnswerIInv ==
  ASSUME IInv, NEW c \in Call, Answer(c)
  PROVE  IInv'
  <1>s. PICK s : s = Ended(call[c])
    OBVIOUS
  <1>u. PICK u : u = CacheKey(call[c])
    OBVIOUS
  <1>1. /\ call' = [call EXCEPT ![c] = s] /\ call[c].pc = "answer"
        /\ intercepted' = intercepted /\ table' = table /\ replica' = replica
        /\ now' = now /\ log' = log
    BY <1>s, Zenon DEF Answer, Ended
  <1>2. /\ ~ intercepted => cache' = cache
        /\ intercepted /\ call[c].op = "delete" => cache' = [cache EXCEPT ![u] = NoEntry]
        /\ intercepted /\ call[c].op # "delete" =>
             cache' = [cache EXCEPT ![u] =
                         [from |-> c, since |-> now, expires |-> now + TTL]]
    BY <1>u, Zenon DEF Answer
  <1>3. call[c] \in State /\ now \in Nat
    BY <1>1, StateOf DEF IInv, TypeOK
  <1>r. /\ s \in State /\ s.pc = "answered" /\ s.stale = call[c].stale
        /\ s.seen = call[c].seen /\ SameRequest(s, call[c])
    BY <1>s, <1>3, WithEnd
  <1>4. /\ s \in State /\ s.pc = "answered" /\ s.from = call[c].from
        /\ s.age = call[c].age /\ s.op = call[c].op /\ s.server = call[c].server
        /\ s.query = call[c].query /\ s.api = call[c].api /\ s.target = call[c].target
        /\ s.fields = call[c].fields /\ s.beside = call[c].beside
        /\ s.stale = call[c].stale /\ s.seen = call[c].seen
        /\ CacheKey(s) = u
    BY <1>r, <1>u DEF SameRequest
  <1>5. call' \in [Call -> CallState] /\ call'[c] = s /\ Elsewhere(c)
    BY <1>1, <1>4, CallSet DEF IInv
  <1>6. u \in Key
    BY <1>u, <1>3, KeyOf DEF State
  <1>7. /\ cache' \in [Key -> [from : Call \cup {NoItem}, since : Nat, expires : Nat]]
        /\ \A v \in Key : v # u => cache'[v] = cache[v]
        /\ ~ intercepted => cache'[u] = cache[u]
        /\ intercepted => \/ cache'[u].from = NoItem
                          \/ /\ cache'[u].from = c /\ cache'[u].since = now
                             /\ cache'[u].expires = now + TTL
    <2>1. cache \in [Key -> [from : Call \cup {NoItem}, since : Nat, expires : Nat]]
      BY DEF IInv, TypeOK
    <2>e. PICK e : e = [from |-> c, since |-> now, expires |-> now + TTL]
      OBVIOUS
    <2>2. /\ NoEntry \in [from : Call \cup {NoItem}, since : Nat, expires : Nat]
          /\ NoEntry.from = NoItem
      BY DEF NoEntry
    <2>3. /\ e \in [from : Call \cup {NoItem}, since : Nat, expires : Nat]
          /\ e.from = c /\ e.since = now /\ e.expires = now + TTL
      BY <1>3, <2>e
    <2> HIDE DEF NoEntry
    <2>4. CASE ~ intercepted
      BY <1>2, <2>1, <2>4
    <2>5. CASE intercepted /\ call[c].op = "delete"
      BY <1>2, <1>6, <2>1, <2>2, <2>5
    <2>6. CASE intercepted /\ call[c].op # "delete"
      BY <1>2, <1>6, <2>e, <2>1, <2>3, <2>6
    <2> QED BY <2>4, <2>5, <2>6
  <1>8. TypeOK'
    BY <1>1, <1>5, <1>7 DEF IInv, TypeOK
  <1>9. QuietStep(c) /\ Continues(c) /\ Keeps(c)
    BY <1>1, <1>u, <1>4, <1>5, KeyOfCall DEF QuietStep, Continues, InFlight, Keeps
  <1>10. PerCall(c)'
    <2>1. /\ call'[c] = s /\ log' = log /\ PerCall(c) /\ now' = now
          /\ intercepted' = intercepted
      BY <1>1, <1>5 DEF IInv
    <2>2. CallSound(c)'
      BY <1>1, <1>3, <1>4, <2>1 DEF PerCall, CallSound, InFlight, Wrote
    <2>3. WritersOverlap(c)' /\ ~ Fresh(c)'
      BY <1>4, <2>1 DEF WritersOverlap, InFlight, Fresh
    <2>4. s.from = c
      BY <1>1, <1>4, <2>1 DEF PerCall, CallSound, InFlight
    <2>5. AnswerSound(c)'
      BY <1>3, <1>4, <2>1, <2>4, LogType
      DEF AnswerSound, Misses, WritesTo, IInv, State, SameUrl
    <2> QED BY <2>2, <2>3, <2>5 DEF PerCall, CopyHolds, DeletionsOverlap
  <1>11. EntrySound(u)'
    <2>1. PerCall(c) /\ InFlight(c) /\ call[c].from = c
      BY <1>1 DEF IInv, PerCall, CallSound, InFlight
    <2>2. CASE /\ intercepted /\ cache'[u].from = c /\ cache'[u].since = now
               /\ cache'[u].expires = now + TTL
      <3>1. \A k \in WritesTo(call[c].api) : call[c].seen < k =>
              log[k].call = c \/ Overlap(c, log[k].call)
        BY <1>3, <2>1, LogType DEF PerCall, WritersOverlap, WritesTo, IInv, State
      <3>2. Misses(c, Len(log))
        BY <3>1 DEF Misses
      <3>3. Misses(c, Len(log))'
        <4>1. PICK n : n = Len(log)
          OBVIOUS
        <4>2. Misses(c, n)'
          BY <1>9, <3>2, <4>1, MissesKept, QuietHistory DEF HistoryKept
        <4> QED BY <1>1, <4>1, <4>2
      <3>4. ASSUME NEW d \in Call, InFlight(d)' PROVE Overlap(c, d)'
        <4>1. d # c /\ InFlight(d) /\ call'[d] = call[d]
          BY <1>4, <1>5, <3>4 DEF InFlight, Elsewhere
        <4>2. Overlap(c, d)
          BY <2>1, <4>1 DEF IInv, CallsOverlap
        <4> QED BY <1>9, <4>1, <4>2 DEF Overlap, Keeps
      <3>5. CacheKey(call[c])' = u
        BY <1>4, <1>5, KeyOfCall
      <3> QED BY <1>1, <1>3, <1>4, <1>5, <1>6, <2>1, <2>2, <3>3, <3>4, <3>5 DEF EntrySound
    <2>3. CASE cache'[u].from = NoItem
      BY <2>3 DEF EntrySound
    <2>4. CASE ~ intercepted
      <3>1. cache'[u].from = NoItem
        BY <1>6, <1>7, <2>4 DEF IInv, EntrySound
      <3> QED BY <3>1 DEF EntrySound
    <2> QED BY <1>7, <2>2, <2>3, <2>4
  <1> QED BY <1>1, <1>7, <1>8, <1>9, <1>10, <1>11, Continuing, QuietIInv

LEMMA FailIInv ==
  ASSUME IInv, NEW c \in Call, Fail(c)
  PROVE  IInv'
  <1>1. /\ InFlight(c)
        /\ intercepted' = intercepted /\ table' = table /\ replica' = replica
        /\ cache' = cache /\ now' = now /\ log' = log
    BY Zenon DEF Fail
  <1>2. CASE ~ Wrote(c)
    <2>1. call' = [call EXCEPT ![c] = Rejected]
      BY <1>2, Zenon DEF Fail, Wrote
    <2> QED BY <1>1, <1>2, <2>1, RejectedIInv DEF InFlight
  <1>3. CASE Wrote(c)
    <2>s. PICK s : s = [call[c] EXCEPT !.pc = "failed", !.item = NoItem]
      OBVIOUS
    <2>1. call' = [call EXCEPT ![c] = s]
      BY <1>3, <2>s, Zenon DEF Fail, Wrote
    <2>2. call[c] \in State
      BY <1>1, StateOf DEF IInv, InFlight
    <2>r. /\ s \in State /\ s.pc = "failed" /\ s.stale = call[c].stale
          /\ s.seen = call[c].seen /\ SameRequest(s, call[c])
      BY <2>2, <2>s, WithFailure
    <2>3. /\ s \in State /\ s.pc = "failed" /\ s.op = call[c].op
          /\ s.server = call[c].server /\ s.query = call[c].query
          /\ s.api = call[c].api /\ s.target = call[c].target
          /\ s.fields = call[c].fields /\ s.beside = call[c].beside
          /\ s.stale = call[c].stale /\ s.seen = call[c].seen
      BY <2>r DEF SameRequest
    <2>4. call' \in [Call -> CallState] /\ call'[c] = s /\ Elsewhere(c)
      BY <2>1, <2>3, CallSet DEF IInv
    <2>5. TypeOK'
      BY <1>1, <2>4 DEF IInv, TypeOK
    <2>6. QuietStep(c) /\ Continues(c)
      BY <1>1, <2>3, <2>4 DEF QuietStep, Keeps, Continues, InFlight
    <2>7. PerCall(c)'
      <3>1. PerCall(c) /\ call[c].pc \notin {"idle", "rejected"}
        BY <1>1 DEF IInv, InFlight
      <3> QED BY <1>1, <2>3, <2>4, <3>1 DEF PerCall, CallSound, WritersOverlap, CopyHolds,
                 DeletionsOverlap, AnswerSound, Fresh, InFlight
    <2> QED BY <1>1, <2>5, <2>6, <2>7, Continuing, QuietIInv
  <1> QED BY <1>2, <1>3

-----------------------------------------------------------------------------
(* The steps that write.                                                   *)

LEMMA WriteIInv ==
  ASSUME IInv, NEW c \in Call, NEW item, Write(c, item),
         \/ call[c].pc = "put" /\ item = call[c].item
         \/ call[c].pc = "delete" /\ item = NoItem
  PROVE  IInv'
  <1>a. PICK a : a = call[c].target
    OBVIOUS
  <1>n. PICK n : n = Len(log) + 1
    OBVIOUS
  <1>e. PICK e : e = [call |-> c, api |-> a]
    OBVIOUS
  <1>s. PICK s : s = [call[c] EXCEPT !.pc = "answer"]
    OBVIOUS
  <1>1. /\ call' = [call EXCEPT ![c] = s]
        /\ table' = [table EXCEPT ![a] = item] /\ log' = Append(log, e)
        /\ intercepted' = intercepted /\ replica' = replica
        /\ cache' = cache /\ now' = now
    BY <1>a, <1>e, <1>s, Zenon DEF Write, Goto
  <1>2. call[c] \in State /\ a \in Api /\ call[c].seen \in Nat
    BY <1>a, StateOf DEF IInv, State
  <1>r. /\ s \in State /\ s.pc = "answer" /\ s.item = call[c].item
        /\ s.stale = call[c].stale /\ s.seen = call[c].seen /\ SameRequest(s, call[c])
    BY <1>s, <1>2, WithPc DEF Places
  <1>3. /\ s \in State /\ s.pc = "answer" /\ s.item = call[c].item
        /\ s.from = call[c].from /\ s.age = call[c].age /\ s.op = call[c].op
        /\ s.server = call[c].server /\ s.query = call[c].query
        /\ s.api = call[c].api /\ s.target = call[c].target
        /\ s.fields = call[c].fields
        /\ s.beside = call[c].beside /\ s.stale = call[c].stale /\ s.seen = call[c].seen
    BY <1>r DEF SameRequest
  <1>4. call' \in [Call -> CallState] /\ call'[c] = s /\ Elsewhere(c)
    BY <1>1, <1>3, CallSet DEF IInv
  <1>5. /\ call[c].pc = "put" => /\ item \in Item /\ item # NoItem
                                 /\ call[c].op \in {"create", "update"}
                                 /\ \A f \in call[c].fields : item[f] = c
        /\ call[c].pc = "put" /\ call[c].op = "create" => call[c].fields = Field
        /\ call[c].pc = "delete" => item = NoItem /\ call[c].op = "delete"
        /\ call[c].from = c /\ call[c].age = 0 /\ call[c].seen <= Len(log)
    BY DEF IInv, PerCall, CallSound, InFlight
  <1>6. /\ Len(log) \in Nat /\ Len(log') = n /\ log' \in Seq([call : Call, api : Api])
        /\ DOMAIN log = 1 .. Len(log) /\ DOMAIN log' = 1 .. n
        /\ \A k \in DOMAIN log : log'[k] = log[k]
        /\ log'[n].call = c /\ log'[n].api = a
    <2>1. e \in [call : Call, api : Api] /\ e.call = c /\ e.api = a
      BY <1>2, <1>e
    <2>2. log \in Seq([call : Call, api : Api])
      BY DEF IInv, TypeOK
    <2> QED BY <1>1, <1>n, <2>1, <2>2, Appended
  <1>7. /\ table' \in [Api -> Item \cup {NoItem}] /\ table'[a] = item
        /\ \A b \in Api : b # a => table'[b] = table[b]
    BY <1>1, <1>2, <1>5 DEF IInv, TypeOK
  <1>8. TypeOK'
    BY <1>1, <1>4, <1>6, <1>7 DEF IInv, TypeOK
  <1>9. \A d \in Call : Keeps(d) /\ (InFlight(d)' <=> InFlight(d))
    BY <1>3, <1>4 DEF Keeps, Elsewhere, InFlight
  <1>10. HistoryKept /\ \A k \in DOMAIN log : log[k].call \in Call /\ log[k].api \in Api
    BY <1>6, <1>9, <1>n, LogType DEF IInv, HistoryKept
  <1>11. InFlight(c) /\ InFlight(c)'
    BY <1>9 DEF InFlight
  <1>12. LogSound'
    <2> SUFFICES ASSUME NEW k \in DOMAIN log'
                 PROVE  /\ call'[log'[k].call].pc \notin {"idle", "rejected", "get"}
                        /\ call'[log'[k].call].target = log'[k].api
      BY DEF LogSound
    <2>1. CASE k = n
      BY <1>3, <1>4, <1>6, <1>a, <2>1
    <2>2. CASE k # n
      <3>1. k \in DOMAIN log /\ log'[k] = log[k] /\ log[k].call \in Call
        BY <1>6, <1>10, <1>n, <2>2
      <3>2. /\ call[log[k].call].pc \notin {"idle", "rejected", "get"}
            /\ call[log[k].call].target = log[k].api
        BY <3>1 DEF IInv, LogSound
      <3>3. log[k].call # c => call'[log[k].call] = call[log[k].call]
        BY <1>4, <3>1 DEF Elsewhere
      <3> QED BY <1>3, <1>4, <3>1, <3>2, <3>3
    <2> QED BY <2>1, <2>2
  <1>13. \A d, f \in Call : CallsOverlap(d, f)'
    BY <1>9 DEF IInv, CallsOverlap, Overlap, Keeps
  <1>14. ASSUME NEW j \in DOMAIN log' PROVE WriteHolds(j)'
    <2>1. CASE j = n
      BY <1>3, <1>4, <1>5, <1>6, <1>7, <2>1, NoItemAssumption DEF WriteHolds
    <2>2. CASE j # n
      <3>1. j \in DOMAIN log /\ log'[j] = log[j]
        BY <1>6, <1>n, <2>2
      <3>2. PICK d : d = log[j].call
        OBVIOUS
      <3>3. d \in Call /\ log'[j].call = d /\ Keeps(d) /\ log[j].api \in Api
            /\ log[j].api = call[d].target
        BY <1>9, <1>10, <3>1, <3>2 DEF IInv, LogSound
      <3> SUFFICES ASSUME call[d].op \in {"create", "update"}, NEW f \in call[d].fields
                   PROVE  \/ table'[log[j].api] # NoItem /\ table'[log[j].api][f] = d
                          \/ Removed(d, j, f)'
        BY <3>1, <3>3 DEF WriteHolds, Keeps
      <3>4. \/ table[log[j].api] # NoItem /\ table[log[j].api][f] = d
            \/ Removed(d, j, f)
        BY <3>1, <3>2 DEF IInv, WriteHolds
      <3>5. Removed(d, j, f) => Removed(d, j, f)'
        BY <1>10, <3>1, <3>3, RemovedKept
      <3>6. CASE log[j].api # a
        BY <1>7, <3>3, <3>4, <3>5, <3>6
      <3>7. CASE log[j].api = a
        <4>1. Removes(c, d, f) => Removed(d, j, f)'
          <5>1. SUFFICES ASSUME Removes(c, d, f) PROVE Removed(d, j, f)'
            OBVIOUS
          <5>2. n \in DOMAIN log' /\ j < n /\ log'[n].call = c /\ log'[n].api = a
                /\ log'[j].api = a
            BY <1>6, <1>n, <3>1, <3>7
          <5>3. Removes(c, d, f)'
            BY <1>9, <3>3, <5>1 DEF Removes, Overlap, Keeps
          <5>4. (Removes(log[n].call, d, f))'
            BY <5>2, <5>3 DEF Removes, Overlap
          <5> QED BY <5>2, <5>4 DEF Removed, WritesTo
        <4>2. CASE call[c].pc = "delete"
          BY <1>5, <4>1, <4>2 DEF Removes
        <4>3. CASE /\ call[c].pc = "put" /\ f \notin call[c].fields /\ ~ call[c].stale
                   /\ call[c].api = call[c].target
          <5>1. f \in Field
            <6>1. call[d].pc \notin {"idle", "rejected"}
              BY <3>1, <3>2 DEF IInv, LogSound
            <6> QED BY <3>3, <6>1, StateOf DEF IInv, State
          <5>2. Fresh(c)
            BY <1>5, <4>3, <5>1 DEF Fresh
          <5>3. CASE j <= call[c].seen
            <6>1. item[f] = d \/ Removed(d, j, f)
              BY <1>a, <3>1, <3>2, <3>7, <4>3, <5>2, <5>3 DEF IInv, PerCall, CopyHolds, WritesTo
            <6> QED BY <1>5, <1>7, <3>5, <3>7, <4>3, <6>1
          <5>4. CASE ~ (j <= call[c].seen)
            <6>1. d = c \/ Overlap(c, d)
              BY <1>2, <1>6, <1>11, <3>1, <3>2, <5>4 DEF IInv, PerCall, WritersOverlap
            <6>2. d # c
              BY <4>3
            <6> QED BY <4>1, <6>1, <6>2 DEF Removes, Overlap
          <5> QED BY <5>3, <5>4
        <4>4. CASE /\ call[c].pc = "put"
                   /\ \/ f \in call[c].fields \/ call[c].stale
                      \/ call[c].api # call[c].target
          BY <4>1, <4>4 DEF Removes
        <4> QED BY <4>2, <4>3, <4>4
      <3> QED BY <3>6, <3>7
    <2> QED BY <2>1, <2>2
  <1>15. ASSUME NEW d \in Call PROVE PerCall(d)'
    <2>1. /\ PerCall(d) /\ Keeps(d) /\ call'[d].item = call[d].item
          /\ call'[d].from = call[d].from
          /\ d # c => call'[d] = call[d]
      BY <1>3, <1>4, <1>9 DEF IInv, Elsewhere
    <2>2. call[d].pc \notin {"idle", "rejected"} =>
                                 /\ call[d].seen \in Nat /\ call[d].seen <= Len(log)
                                 /\ call[d].api \in Api /\ call[d].from \in Call
      BY <2>1, StateOf DEF IInv, State, PerCall, CallSound
    <2>3. Wrote(c)' /\ (Wrote(d) => Wrote(d)')
      BY <1>6, <1>n DEF Wrote
    <2>4. CallSound(d)'
      <3>1. CASE d = c
        BY <1>1, <1>2, <1>3, <1>4, <1>5, <1>6, <1>n, <2>1, <2>2, <2>3, <3>1
        DEF PerCall, CallSound, InFlight
      <3>2. CASE d # c
        BY <1>1, <1>2, <1>6, <1>n, <2>1, <2>2, <2>3, <3>2 DEF PerCall, CallSound, InFlight
      <3> QED BY <3>1, <3>2
    <2>5. WritersOverlap(d)'
      <3> SUFFICES ASSUME InFlight(d)', NEW k \in DOMAIN log', k > call'[d].seen
                   PROVE  (log[k].call = d \/ Overlap(d, log[k].call))'
        BY DEF WritersOverlap
      <3>1. CASE k = n
        BY <1>6, <1>9, <1>11, <3>1 DEF IInv, CallsOverlap, Overlap, Keeps
      <3>2. CASE k # n
        <4>1. k \in DOMAIN log /\ log'[k] = log[k] /\ log[k].call \in Call
              /\ k > call[d].seen
          BY <1>6, <1>10, <1>n, <2>1, <3>2 DEF Keeps
        <4>2. log[k].call = d \/ Overlap(d, log[k].call)
          BY <1>9, <2>1, <4>1 DEF PerCall, WritersOverlap
        <4> QED BY <1>9, <4>1, <4>2 DEF Overlap, Keeps
      <3> QED BY <3>1, <3>2
    <2>6. Fresh(d)' => Fresh(d) /\ call[d].pc \notin {"idle", "rejected"}
      BY <1>3, <1>4, <1>5, <2>1 DEF Fresh
    <2>7. CopyHolds(d)'
      <3>1. CASE Fresh(d)'
        BY <1>10, <2>1, <2>2, <2>6, <3>1, CopyKept DEF PerCall
      <3> QED BY <3>1 DEF CopyHolds
    <2>8. DeletionsOverlap(d)'
      <3>1. CASE Fresh(d)' /\ table'[call[d].api] = NoItem /\ table[call[d].api] # NoItem
        <4>1. call[d].api = a /\ item = NoItem /\ call[c].op = "delete"
          BY <1>5, <1>7, <2>2, <2>6, <3>1
        <4>2. d # c /\ InFlight(d)
          BY <2>6, <3>1, <4>1 DEF Fresh, InFlight
        <4>3. Overlap(d, c)'
          BY <1>9, <1>11, <4>2 DEF IInv, CallsOverlap, Overlap, Keeps
        <4>4. n \in WritesTo(call[d].api)'
          BY <1>6, <1>n, <2>1, <4>1 DEF WritesTo, Keeps
        <4>5. (call[log[n].call].op = "delete" /\ Overlap(d, log[n].call))'
          BY <1>6, <1>9, <4>1, <4>3 DEF Overlap, Keeps
        <4> QED BY <4>4, <4>5 DEF DeletionsOverlap
      <3>2. CASE Fresh(d)' /\ ~ (table'[call[d].api] = NoItem /\ table[call[d].api] # NoItem)
        BY <1>10, <2>1, <2>6, <3>2, DeletionsKept DEF PerCall
      <3> QED BY <3>1, <3>2 DEF DeletionsOverlap
    <2>9. AnswerSound(d)'
      <3> SUFFICES ASSUME call'[d].pc = "answered" PROVE AnswerSound(d)'
        BY DEF AnswerSound
      <3>1. d # c /\ call[d].pc = "answered"
        BY <1>3, <1>4, <2>1
      <3>2. PICK r : r = call[d].from
        OBVIOUS
      <3>3. PICK m : m = call[d].seen
        OBVIOUS
      <3>4. /\ r \in Call /\ call[r].pc = "answered" /\ call'[r] = call[r] /\ Keeps(r)
            /\ m \in Nat /\ m <= Len(log)
        BY <1>9, <1>4, <1>11, <2>1, <2>2, <3>1, <3>2, <3>3
        DEF PerCall, AnswerSound, Elsewhere, InFlight
      <3>5. Misses(r, m) => Misses(r, m)'
        BY <1>10, <3>4, MissesKept
      <3>6. SameUrl(d, r) => SameUrl(d, r)'
        BY <2>1, <3>4 DEF SameUrl, Keeps
      <3> QED BY <2>1, <3>1, <3>2, <3>3, <3>4, <3>5, <3>6 DEF PerCall, AnswerSound
    <2> QED BY <2>4, <2>5, <2>7, <2>8, <2>9 DEF PerCall
  <1>16. ASSUME NEW u \in Key PROVE EntrySound(u)'
    <2> SUFFICES ASSUME cache[u].from # NoItem PROVE EntrySound(u)'
      BY <1>1 DEF EntrySound
    <2>r. PICK r : r = cache[u].from
      OBVIOUS
    <2>1. /\ r \in Call /\ intercepted /\ call[r].pc = "answered" /\ call[r].from = r
          /\ CacheKey(call[r]) = u /\ cache[u].since <= now
          /\ cache[u].expires = cache[u].since + TTL
      BY <2>r DEF IInv, EntrySound, TypeOK
    <2>2. call'[r] = call[r] /\ Keeps(r)
      BY <1>4, <1>9, <1>11, <2>1 DEF Elsewhere, InFlight
    <2>3. ASSUME now <= cache[u].expires
          PROVE  /\ Misses(r, Len(log))'
                 /\ \A d \in Call : (InFlight(d) /\ CacheKey(call[d]) = u => Overlap(r, d))'
      <3>1. /\ Misses(r, Len(log))
            /\ \A d \in Call : InFlight(d) /\ CacheKey(call[d]) = u => Overlap(r, d)
        BY <2>r, <2>3 DEF IInv, EntrySound
      <3>2. \A d \in Call : (InFlight(d) /\ CacheKey(call[d]) = u => Overlap(r, d))'
        BY <1>9, <2>2, <3>1 DEF Overlap, Keeps, CacheKey
      <3>3. Misses(r, Len(log))'
        <4> SUFFICES ASSUME NEW k \in WritesTo(call[r].api)', call'[r].seen < k,
                            SameUrl(r, log[k].call)'
                     PROVE  (log[k].call = r \/ Overlap(r, log[k].call) \/ call[r].stale)'
          BY DEF Misses
        <4>1. k \in DOMAIN log' /\ log'[k].api = call[r].api
          BY <2>2 DEF WritesTo
        <4>2. CASE k = n
          <5>1. SameUrl(r, c)
            BY <1>6, <1>9, <2>2, <4>2 DEF SameUrl, Keeps
          <5>2. Overlap(r, c)
            BY <1>11, <2>1, <3>1, <5>1, SameKey
          <5>3. Overlap(r, c)'
            BY <1>9, <2>2, <5>2 DEF Overlap, Keeps
          <5> QED BY <1>6, <4>2, <5>3 DEF Overlap
        <4>3. CASE k # n
          <5>1. /\ k \in DOMAIN log /\ log'[k] = log[k] /\ log[k].call \in Call
                /\ k \in WritesTo(call[r].api) /\ call[r].seen < k /\ k <= Len(log)
            BY <1>6, <1>10, <1>n, <2>1, <2>2, <4>1, <4>3 DEF WritesTo
          <5>3. SameUrl(r, log[k].call)
            BY <1>9, <2>2, <5>1 DEF SameUrl, Keeps
          <5>2. log[k].call = r \/ Overlap(r, log[k].call) \/ call[r].stale
            BY <3>1, <5>1, <5>3 DEF Misses
          <5> QED BY <1>9, <2>2, <5>1, <5>2 DEF Overlap, Keeps
        <4> QED BY <4>2, <4>3
      <3> QED BY <3>2, <3>3
    <2>4. CacheKey(call[r])' = u
      BY <2>1, <2>2 DEF CacheKey
    <2> QED BY <1>1, <2>r, <2>1, <2>2, <2>3, <2>4 DEF EntrySound
  <1> QED BY <1>8, <1>12, <1>13, <1>14, <1>15, <1>16 DEF IInv

-----------------------------------------------------------------------------
(* The steps of no call.                                                   *)

LEMMA ReplicateIInv ==
  ASSUME IInv, NEW a \in Api, Replicate(a)
  PROVE  IInv'
  <1>1. TypeOK'
    BY DEF IInv, TypeOK, Replicate
  <1> QED BY SMTT(30), <1>1 DEF IInv, Replicate, LogSound, WriteHolds, PerCall, CallSound, WritersOverlap, CopyHolds, DeletionsOverlap, AnswerSound, CallsOverlap, EntrySound, InFlight, Wrote, Overlap, Removed, Removes, Misses, WritesTo, Fresh, SameUrl, CacheKey

LEMMA RestartIInv ==
  ASSUME IInv, NEW p \in Server, Restart(p)
  PROVE  IInv'
  <1>1. /\ intercepted' = intercepted /\ table' = table /\ replica' = replica
        /\ now' = now /\ call' = call /\ log' = log
        /\ cache' = [k \in Key |-> IF k[1] = p THEN NoEntry ELSE cache[k]]
    BY DEF Restart
  <1>2. TypeOK'
    <2>1. NoEntry \in [from : Call \cup {NoItem}, since : Nat, expires : Nat]
      BY DEF NoEntry
    <2> HIDE DEF NoEntry
    <2> QED BY <1>1, <2>1 DEF IInv, TypeOK
  <1>3. LogSound' /\ \A j \in DOMAIN log' : WriteHolds(j)'
    BY <1>1 DEF IInv, LogSound, WriteHolds, Removed, Removes, Overlap, WritesTo
  <1>4. ASSUME NEW c \in Call PROVE PerCall(c)'
    BY <1>1 DEF IInv, PerCall, CallSound, WritersOverlap, CopyHolds, DeletionsOverlap,
       AnswerSound, InFlight, Wrote, Overlap, Removed, Removes, Misses, WritesTo, Fresh,
       SameUrl
  <1>5. \A c, d \in Call : CallsOverlap(c, d)'
    BY <1>1 DEF IInv, CallsOverlap, InFlight, Overlap
  <1>6. ASSUME NEW u \in Key PROVE EntrySound(u)'
    <2>1. CASE u[1] = p
      <3>1. cache'[u].from = NoItem
        BY <1>1, <2>1 DEF NoEntry
      <3> QED BY <3>1 DEF EntrySound
    <2>2. CASE u[1] # p
      <3>1. cache'[u] = cache[u] /\ EntrySound(u)
        BY <1>1, <2>2 DEF IInv
      <3> QED BY <1>1, <3>1 DEF EntrySound, InFlight, Overlap, Misses, WritesTo, SameUrl,
                 CacheKey
    <2> QED BY <2>1, <2>2
  <1> QED BY <1>2, <1>3, <1>4, <1>5, <1>6 DEF IInv

LEMMA TickIInv ==
  ASSUME IInv, Tick
  PROVE  IInv'
  <1>1. /\ now \in Nat /\ now' = now + 1
        /\ intercepted' = intercepted /\ table' = table /\ replica' = replica
        /\ cache' = cache /\ call' = call /\ log' = log
    BY DEF IInv, TypeOK, Tick
  <1>2. TypeOK'
    BY <1>1 DEF IInv, TypeOK
  <1>3. LogSound' /\ \A j \in DOMAIN log' : WriteHolds(j)'
    BY <1>1 DEF IInv, LogSound, WriteHolds, Removed, Removes, Overlap, WritesTo
  <1>4. ASSUME NEW c \in Call PROVE PerCall(c)'
    <2>2. CallSound(c)'
      BY <1>1 DEF IInv, PerCall, CallSound, InFlight, Wrote
    <2>3. WritersOverlap(c)' /\ CopyHolds(c)' /\ DeletionsOverlap(c)' /\ AnswerSound(c)'
      BY <1>1 DEF IInv, PerCall, WritersOverlap, CopyHolds, DeletionsOverlap, AnswerSound,
         InFlight, Overlap, Removed, Removes, Misses, WritesTo, Fresh, SameUrl
    <2> QED BY <2>2, <2>3 DEF PerCall
  <1>5. \A c, d \in Call : CallsOverlap(c, d)'
    BY <1>1 DEF IInv, CallsOverlap, InFlight, Overlap
  <1>6. ASSUME NEW u \in Key PROVE EntrySound(u)'
    <2>1. cache[u].expires \in Nat /\ cache[u].since \in Nat
      BY DEF IInv, TypeOK
    <2> QED BY <1>1, <2>1
        DEF IInv, EntrySound, InFlight, Overlap, Misses, WritesTo, SameUrl, CacheKey
  <1> QED BY <1>2, <1>3, <1>4, <1>5, <1>6 DEF IInv

LEMMA InitIInv ==
  ASSUME Init
  PROVE  IInv
  <1>1. log = <<>> /\ DOMAIN log = {} /\ Len(log) = 0
    BY DEF Init
  <1>2. \A c \in Call : call[c] = Idle /\ call[c].pc = "idle"
    BY DEF Init, Idle
  <1>3. \A u \in Key : cache[u].from = NoItem
    BY DEF Init, NoEntry
  <1>4. TypeOK
    <2>1. [f \in Field |-> Older] \in Item
      BY DEF Item
    <2>2. table \in [Api -> Item \cup {NoItem}] /\ replica = table
      BY <2>1 DEF Init
    <2>3. cache \in [Key -> [from : Call \cup {NoItem}, since : Nat, expires : Nat]]
      BY DEF Init, NoEntry
    <2>4. call \in [Call -> CallState]
      BY DEF Init, CallState, Idle
    <2> QED BY <1>1, <2>2, <2>3, <2>4 DEF Init, TypeOK
  <1>5. \A c \in Call : PerCall(c)
    BY <1>1, <1>2 DEF PerCall, CallSound, WritersOverlap, CopyHolds, DeletionsOverlap,
       AnswerSound, InFlight, Fresh
  <1> QED BY <1>1, <1>2, <1>3, <1>4, <1>5 DEF IInv, LogSound, CallsOverlap, EntrySound,
             InFlight

-----------------------------------------------------------------------------
LEMMA NextIInv ==
  ASSUME IInv, [Next]_vars
  PROVE  IInv'
  <1>1. CASE UNCHANGED vars
    BY <1>1 DEF vars, IInv, TypeOK, LogSound, WriteHolds, PerCall, CallSound,
       WritersOverlap, CopyHolds, DeletionsOverlap, AnswerSound, CallsOverlap, EntrySound,
       InFlight, Wrote, Overlap, Removed, Removes, Misses, WritesTo, Fresh, SameUrl, CacheKey
  <1>2. ASSUME NEW c \in Call, NEW r \in Request, CreateApi(c, r) PROVE IInv'
    <2>1. PICK item : item = [f \in Field |-> c]
      OBVIOUS
    <2>2. item \in Item /\ \A f \in Field : item[f] = c
      BY <2>1 DEF Item
    <2>3. r.op = "create" /\ Handle(c, r, "put", item)
      BY <1>2, <2>1, Zenon DEF CreateApi
    <2> QED BY <2>2, <2>3, HandleIInv
  <1>3. ASSUME NEW c \in Call, NEW r \in Request, GetApi(c, r) PROVE IInv'
    BY <1>3, HandleIInv DEF GetApi
  <1>4. ASSUME NEW c \in Call, NEW r \in Request, UpdateApi(c, r) PROVE IInv'
    BY <1>4, HandleIInv DEF UpdateApi
  <1>5. ASSUME NEW c \in Call, NEW r \in Request, DeleteApi(c, r) PROVE IInv'
    BY <1>5, HandleIInv DEF DeleteApi
  <1>6. ASSUME NEW c \in Call, NEW r \in Request, Begin(c, r) PROVE IInv'
    BY <1>2, <1>3, <1>4, <1>5, <1>6, AnswerFromCacheIInv DEF Begin
  <1>7. ASSUME NEW c \in Call, Put(c) PROVE IInv'
    BY <1>7, WriteIInv DEF Put
  <1>8. ASSUME NEW c \in Call, Delete(c) PROVE IInv'
    BY <1>8, WriteIInv DEF Delete
  <1>9. ASSUME NEW c \in Call, Continue(c) PROVE IInv'
    BY <1>7, <1>8, <1>9, GetIInv, ResendIInv, AnswerIInv, FailIInv DEF Continue
  <1>10. ASSUME Around PROVE IInv'
    BY <1>10, RestartIInv, ReplicateIInv, TickIInv DEF Around
  <1>11. ASSUME Next PROVE IInv'
    BY <1>6, <1>9, <1>10, <1>11 DEF Next
  <1> QED BY <1>1, <1>11

LEMMA Invariant == Spec => []IInv
  <1>1. Init => IInv
    BY InitIInv
  <1>2. IInv /\ [Next]_vars => IInv'
    BY NextIInv
  <1> QED BY <1>1, <1>2, PTL DEF Spec

(* The variables of the registry keep their types.                         *)
THEOREM TypeCorrect == Spec => []TypeOK
  <1>1. IInv => TypeOK
    BY DEF IInv
  <1> QED BY <1>1, Invariant, PTL

(* "createApi", "updateApi", "intercept": for any number of requests, ids, *)
(* fields, processes and writes, what was acknowledged was done under the  *)
(* id of the body and stands until a deletion, a write of the same field,  *)
(* the copy of another API or an overlapping or stale update removes it;   *)
(* or it was answered from the cache, within a TTL.                        *)
THEOREM ChangesHold == Spec => []AcknowledgedChangesHold
  <1>1. ASSUME IInv PROVE AcknowledgedChangesHold
    <2> SUFFICES ASSUME NEW c \in Call, call[c].pc = "answered",
                        call[c].op \in {"create", "update"}
                 PROVE  IF call[c].from # c
                        THEN intercepted /\ call[c].age <= TTL
                        ELSE \A f \in call[c].fields :
                          \/ /\ table[call[c].target] # NoItem
                             /\ table[call[c].target][f] = c
                          \/ \E j, k \in WritesTo(call[c].target) :
                               j < k /\ log[j].call = c /\ Removes(log[k].call, c, f)
      BY DEF AcknowledgedChangesHold
    <2>1. CallSound(c)
      BY <1>1 DEF IInv, PerCall
    <2>2. CASE call[c].from = c
      <3>1. PICK j \in DOMAIN log : log[j].call = c
        BY <2>1, <2>2 DEF CallSound, Wrote
      <3>2. log[j].api = call[c].target /\ WriteHolds(j) /\ j \in WritesTo(call[c].target)
        BY <1>1, <3>1 DEF IInv, LogSound, WritesTo
      <3> QED BY <2>2, <3>1, <3>2 DEF WriteHolds, Removed
    <2> QED BY <2>1, <2>2 DEF CallSound
  <1>2. IInv => AcknowledgedChangesHold
    BY <1>1
  <1> QED BY <1>2, Invariant, PTL

(* "intercept": for any number of requests and processes, an answer misses *)
(* a write that came for its own url and process before it was asked for   *)
(* only if the call that read it overlapped the writer or met a lagging    *)
(* replica; and no answer is given after its TTL.                          *)
THEOREM Recent == Spec => []AnswersAreRecent
  <1>1. ASSUME IInv PROVE AnswersAreRecent
    <2>1. ASSUME NEW c \in Call, call[c].pc = "answered", call[c].op = "get",
                 NEW r, r = call[c].from,
                 NEW k \in WritesTo(call[c].api), call[r].seen < k, k <= call[c].seen,
                 SameUrl(c, log[k].call)
          PROVE  log[k].call = r \/ Overlap(r, log[k].call) \/ call[r].stale
      <3>1. SameUrl(c, r) /\ Misses(r, call[c].seen)
        BY <1>1, <2>1 DEF IInv, PerCall, AnswerSound
      <3>2. k \in WritesTo(call[r].api)
        BY <2>1, <3>1 DEF SameUrl
      <3>3. SameUrl(r, log[k].call)
        BY <2>1, <3>1 DEF SameUrl
      <3> QED BY <2>1, <3>1, <3>2, <3>3 DEF Misses
    <2>2. ASSUME NEW c \in Call, call[c].pc = "answered" PROVE call[c].age <= TTL
      BY <1>1, <2>2 DEF IInv, PerCall, CallSound
    <2> QED BY <2>1, <2>2, Zenon DEF AnswersAreRecent
  <1>2. IInv => AnswersAreRecent
    BY <1>1
  <1> QED BY <1>2, Invariant, PTL

(* "deleteApi": for any number of requests, an API that is gone comes back *)
(* only by a request whose body names its id, or by an update that was     *)
(* under way while it was deleted or had read a lagging replica.           *)
THEOREM DeletedStays == Spec => DeletedApisStayDeleted
  <1> DEFINE Comeback(a) ==
        table[a] = NoItem /\ table'[a] # NoItem =>
          \E c \in Call :
            /\ call[c].pc = "put" /\ call[c].target = a
            /\ \/ call[c].op = "create" \/ call[c].api # a
               \/ call[c].stale
               \/ \E k \in WritesTo(a) :
                    call[log[k].call].op = "delete"
                      /\ (log[k].call = c \/ Overlap(c, log[k].call))
  <1>1. ASSUME IInv, [Next]_vars PROVE \A a \in Api : Comeback(a)
    <2> SUFFICES ASSUME NEW a \in Api, table[a] = NoItem, table'[a] # NoItem
                 PROVE  Comeback(a)
      OBVIOUS
    <2>1. PICK c \in Call : Put(c) \/ Delete(c)
      <3>1. table' # table
        OBVIOUS
      <3>2. ASSUME NEW c \in Call, NEW r \in Request, Begin(c, r) PROVE FALSE
        BY <3>1, <3>2, Zenon DEF Begin, CreateApi, GetApi, UpdateApi, DeleteApi, Handle,
           AnswerFromCache
      <3>3. ~ Around
        BY <3>1 DEF Around, Restart, Replicate, Tick
      <3>4. PICK c \in Call : Continue(c)
        BY <1>1, <3>1, <3>2, <3>3 DEF Next, vars
      <3> QED BY <3>1, <3>4, Zenon DEF Continue, Get, Resend, Answer, Fail
    <2>2. call[c].pc = "put" /\ call[c].target = a
      BY <1>1, <2>1 DEF Put, Delete, Write, IInv, TypeOK
    <2>3. CallSound(c) /\ DeletionsOverlap(c)
      BY <1>1 DEF IInv, PerCall
    <2>4. call[c].op = "create" \/ call[c].stale \/ call[c].api # a \/ Fresh(c)
      BY <2>2, <2>3 DEF CallSound, Fresh
    <2> QED BY <2>2, <2>3, <2>4 DEF DeletionsOverlap
  <1>2. IInv /\ [Next]_vars => [\A a \in Api : Comeback(a)]_vars
    BY <1>1
  <1> QED BY <1>2, Invariant, PTL DEF Spec, DeletedApisStayDeleted

=============================================================================

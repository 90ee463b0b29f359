----------------------------- MODULE ApiRegistry -----------------------------
(***************************************************************************)
(* The registry of APIs: ApiController and ApiService of modules/api over  *)
(* one DynamoDB table, and CacheInterceptor of core/interceptors, which    *)
(* may stand before the controller (no module of the repository binds it:  *)
(* both are explored).  updateApi reads an item, merges and puts it back   *)
(* whole, with an await in between, under the id that the body of the      *)
(* request has, if it has one; the interceptor answers a url from its      *)
(* cache whatever the method, and fills the cache when a handler answers.  *)
(* Every process has a cache of its own, and loses it when it ends.        *)
(***************************************************************************)
EXTENDS Naturals, Sequences

CONSTANTS
  Call,       \* requests
  Api,        \* ids
  Field,      \* the properties of an item that are followed
  Server,     \* processes that serve requests
  Query,      \* query strings, which no handler looks at
  TTL,        \* stdTTL of the cache, in ticks of the clock
  MaxTime,    \* bound: the clock
  MaxWrites,  \* bound: writes the table takes
  NoItem      \* 'no item with this id', and the body of an answer to DELETE

ASSUME TimesAssumption == TTL \in Nat \ {0} /\ MaxTime \in Nat /\ MaxWrites \in Nat

VARIABLES
  intercepted,  \* whether CacheInterceptor stands before the controller
  table,        \* table[a]: the item, with the call that set each field
  replica,      \* replica[a]: what a read may return while replicas lag
  cache,        \* cache[key]: the call whose answer is kept, since and until when
  now,
  call,         \* local state of each call
  log           \* history: the writes of the table, in their order

vars == <<intercepted, table, replica, cache, now, call, log>>

Older == "older"   \* the author of fields set before the first call
Apis == "/apis"    \* the url of POST
Key == Server \X (Api \cup {Apis}) \X Query
Item == [Field -> Call \cup {Older}]
ASSUME NoItemAssumption == NoItem \notin Call /\ NoItem \notin Item
ASSUME UrlAssumption == Apis \notin Api

NoEntry == [from |-> NoItem, since |-> 0, expires |-> 0]

(* What a request asks for.  The id of a new API, its target, is the one   *)
(* its body gives, which need not be free, or else that of uuidv4; an      *)
(* update puts the item under the id of its body, or else of its url.  An  *)
(* update may set no property that is followed.                            *)
Request ==
  {r \in [op : {"create", "get", "update", "delete"}, server : Server,
          query : Query, api : Api, target : Api, fields : SUBSET Field] :
     /\ r.op # "update" => r.target = r.api
     /\ r.op = "create" => r.fields = Field
     /\ r.op \in {"get", "delete"} => r.fields = {}}

(* api: the id of the url; target: the id the item is put under; item: the *)
(* item read, to be answered or put; seen: the writes that were in it;     *)
(* stale: it was read from a replica that lagged; beside: the calls in     *)
(* flight when this one began; from: the call whose answer it is given,    *)
(* which was then age old.                                                 *)
CallState ==
  [pc : {"idle", "rejected"}]
    \cup [pc : {"get", "put", "delete", "answer", "answered", "failed"},
          op : {"create", "get", "update", "delete"}, server : Server,
          query : Query, api : Api, target : Api,
          fields : SUBSET Field, item : Item \cup {NoItem}, seen : Nat,
          stale : BOOLEAN, beside : SUBSET Call, from : Call, age : Nat]

Idle == [pc |-> "idle"]
Rejected == [pc |-> "rejected"]   \* ended without a write: nothing of it matters

TypeOK ==
  /\ intercepted \in BOOLEAN
  /\ table \in [Api -> Item \cup {NoItem}]
  /\ replica \in [Api -> Item \cup {NoItem}]
  /\ cache \in [Key -> [from : Call \cup {NoItem}, since : Nat, expires : Nat]]
  /\ now \in Nat
  /\ call \in [Call -> CallState]
  /\ log \in Seq([call : Call, api : Api])

Init ==
  /\ intercepted \in BOOLEAN
  /\ table \in [Api -> {NoItem, [f \in Field |-> Older]}]
  /\ replica = table
  /\ cache = [k \in Key |-> NoEntry]
  /\ now = 0
  /\ call = [c \in Call |-> Idle]
  /\ log = <<>>

-----------------------------------------------------------------------------
InFlight(c) == call[c].pc \in {"get", "put", "delete", "answer"}

(* Mutant: the key tells the methods apart, as far as reads are concerned. *)
CacheKeyOfReads(r) == <<r.server, IF r.op = "get" THEN r.api ELSE Apis, r.query>>

(* `${request.url}-${JSON.stringify(request.query)}`, in the process that  *)
(* has the request.                                                        *)
CacheKey(r) ==
  <<r.server, IF r.op = "create" THEN Apis ELSE r.api, r.query>>

(* this.cache.get: an entry is dropped once its time lies in the past, and *)
(* an undefined answer is no hit.                                          *)
Cached(k) == cache[k].from # NoItem /\ now <= cache[k].expires

(* What is remembered of a request from its arrival on.                    *)
Asked(r, pc, item, from, age) ==
  [op |-> r.op, server |-> r.server, query |-> r.query, api |-> r.api,
   target |-> r.target, fields |-> r.fields, pc |-> pc, item |-> item,
   from |-> from, age |-> age, seen |-> Len(log), stale |-> FALSE,
   beside |-> {d \in Call : InFlight(d)}]

(* return of(cachedResponse): no handler runs.                             *)
AnswerFromCache(c, r) ==
  LET entry == cache[CacheKey(r)] IN
  /\ call[c] = Idle
  /\ intercepted /\ Cached(CacheKey(r))
  /\ call' = [call EXCEPT ![c] = Asked(r, "answered", NoItem, entry.from,
                                       now - entry.since)]
  /\ UNCHANGED <<intercepted, table, replica, cache, now, log>>

Handle(c, r, pc, item) ==
  /\ call[c] = Idle
  /\ ~ (intercepted /\ Cached(CacheKey(r)))
  /\ call' = [call EXCEPT ![c] = Asked(r, pc, item, c, 0)]
  /\ UNCHANGED <<intercepted, table, replica, cache, now, log>>

CreateApi(c, r) ==
  r.op = "create" /\ Handle(c, r, "put", [f \in Field |-> c])

GetApi(c, r) == r.op = "get" /\ Handle(c, r, "get", NoItem)

UpdateApi(c, r) == r.op = "update" /\ Handle(c, r, "get", NoItem)

DeleteApi(c, r) == r.op = "delete" /\ Handle(c, r, "delete", NoItem)

-----------------------------------------------------------------------------
Goto(c, pc) == call' = [call EXCEPT ![c].pc = pc]

(* Mutant: an API that is not found is updated all the same.               *)
GetUnchecked(c) ==
  LET s == call[c] IN
  /\ s.pc = "get"
  /\ \E item \in {table[s.api], replica[s.api]} :
       call' = [call EXCEPT ![c] =
         [s EXCEPT !.seen = Len(log),
                   !.stale = item # table[s.api],
                   !.item = [f \in Field |-> IF f \in s.fields \/ item = NoItem
                                             THEN c ELSE item[f]],
                   !.pc = IF s.op = "get" THEN "answer" ELSE "put"]]
  /\ UNCHANGED <<intercepted, table, replica, cache, now, log>>

(* Mutant: the update is put without the rest of the item.                 *)
GetUnmerged(c) ==
  LET s == call[c] IN
  /\ s.pc = "get"
  /\ \E item \in {table[s.api], replica[s.api]} :
       call' = [call EXCEPT ![c] =
         IF item = NoItem THEN Rejected
         ELSE [s EXCEPT !.seen = Len(log),
                        !.stale = item # table[s.api],
                        !.item = [f \in Field |-> IF f \in s.fields THEN c ELSE Older],
                        !.pc = IF s.op = "get" THEN "answer" ELSE "put"]]
  /\ UNCHANGED <<intercepted, table, replica, cache, now, log>>

(* getApi's get, which does not ask for a consistent read; then            *)
(* 'API not found', or { ...api, ...updateData }.                          *)
Get(c) ==
  LET s == call[c] IN
  /\ s.pc = "get"
  /\ \E item \in {table[s.api], replica[s.api]} :
       call' = [call EXCEPT ![c] =
         IF item = NoItem THEN Rejected
         ELSE [s EXCEPT !.seen = Len(log),
                        !.stale = item # table[s.api],
                        !.item = [f \in Field |-> IF f \in s.fields THEN c ELSE item[f]],
                        !.pc = IF s.op = "get" THEN "answer" ELSE "put"]]
  /\ UNCHANGED <<intercepted, table, replica, cache, now, log>>

Write(c, item) ==
  LET a == call[c].target IN
  /\ Len(log) < MaxWrites
  /\ table' = [table EXCEPT ![a] = item]
  /\ log' = Append(log, [call |-> c, api |-> a])
  /\ Goto(c, "answer")
  /\ UNCHANGED <<intercepted, replica, cache, now>>

Put(c) == call[c].pc = "put" /\ Write(c, call[c].item)

Delete(c) == call[c].pc = "delete" /\ Write(c, NoItem)

(* The answer to a write is lost, and the SDK sends the write again.       *)
Resend(c) ==
  /\ call[c].pc = "answer" /\ call[c].op # "get"
  /\ Goto(c, IF call[c].op = "delete" THEN "delete" ELSE "put")
  /\ UNCHANGED <<intercepted, table, replica, cache, now, log>>

(* The handler has answered: tap keeps the answer, an empty one as well.   *)
Answer(c) ==
  LET s == call[c] IN
  /\ s.pc = "answer"
  /\ call' = [call EXCEPT ![c].pc = "answered", ![c].item = NoItem]
  /\ cache' = IF ~ intercepted THEN cache
              ELSE [cache EXCEPT ![CacheKey(s)] =
                      IF s.op = "delete" THEN NoEntry
                      ELSE [from |-> c, since |-> now, expires |-> now + TTL]]
  /\ UNCHANGED <<intercepted, table, replica, now, log>>

(* A request to the table is refused, its answer is lost for good, or the  *)
(* process ends.                                                           *)
Fail(c) ==
  /\ InFlight(c)
  /\ call' = [call EXCEPT ![c] = IF \E k \in DOMAIN log : log[k].call = c
                                 THEN [@ EXCEPT !.pc = "failed", !.item = NoItem]
                                 ELSE Rejected]
  /\ UNCHANGED <<intercepted, table, replica, cache, now, log>>

(* The process has ended, and all it had in flight with it; it is started  *)
(* again, with an empty cache.                                             *)
Restart(s) ==
  /\ \A c \in Call : InFlight(c) => call[c].server # s
  /\ cache' = [k \in Key |-> IF k[1] = s THEN NoEntry ELSE cache[k]]
  /\ UNCHANGED <<intercepted, table, replica, now, call, log>>

(* The last write of an item has reached every replica.                    *)
Replicate(a) ==
  /\ replica' = [replica EXCEPT ![a] = table[a]]
  /\ UNCHANGED <<intercepted, table, cache, now, call, log>>

(* Time, which only the cache looks at.                                    *)
Tick ==
  /\ intercepted /\ now < MaxTime
  /\ now' = now + 1
  /\ UNCHANGED <<intercepted, table, replica, cache, call, log>>

Begin(c, r) ==
  \/ CreateApi(c, r)
  \/ GetApi(c, r)
  \/ UpdateApi(c, r)
  \/ DeleteApi(c, r)
  \/ AnswerFromCache(c, r)

Continue(c) ==
  \/ Get(c)
  \/ Put(c)
  \/ Delete(c)
  \/ Resend(c)
  \/ Answer(c)
  \/ Fail(c)

Around ==
  \/ \E s \in Server : Restart(s)
  \/ \E a \in Api : Replicate(a)
  \/ Tick

Next ==
  \/ \E c \in Call : \/ \E r \in Request : Begin(c, r)
                    \/ Continue(c)
  \/ Around

Spec == Init /\ [][Next]_vars

-----------------------------------------------------------------------------
Overlap(c, d) == c \in call[d].beside \/ d \in call[c].beside

WritesTo(a) == {k \in DOMAIN log : log[k].api = a}

(* What removed field f of call c from the item that c wrote: a deletion,  *)
(* a write of the same field, the copy of another API put under this id,   *)
(* or an update that overlapped c or had read from a replica that lagged,  *)
(* and put back what it had read.                                          *)
Removes(d, c, f) ==
  \/ call[d].op = "delete" \/ f \in call[d].fields
  \/ call[d].api # call[d].target
  \/ Overlap(c, d) \/ call[d].stale

(* "createApi", "updateApi", "intercept": what was acknowledged was done,  *)
(* under the id the body gave, and stands until another call removes it;   *)
(* or it was answered from the cache, with what the same url had answered  *)
(* no more than a TTL before.                                              *)
AcknowledgedChangesHold ==
  \A c \in Call :
    call[c].pc = "answered" /\ call[c].op \in {"create", "update"} =>
      IF call[c].from # c
      THEN intercepted /\ call[c].age <= TTL
      ELSE \A f \in call[c].fields :
        LET a == call[c].target IN
        \/ table[a] # NoItem /\ table[a][f] = c
        \/ \E j, k \in WritesTo(a) :
             j < k /\ log[j].call = c /\ Removes(log[k].call, c, f)

(* "deleteApi": an API that is gone comes back only by a request whose     *)
(* body names its id, or by an update of it that was under way while it    *)
(* was deleted or had read a replica that lagged.                          *)
DeletedApisStayDeleted ==
  [][\A a \in Api : table[a] = NoItem /\ table'[a] # NoItem =>
       \E c \in Call :
         /\ call[c].pc = "put" /\ call[c].target = a
         /\ \/ call[c].op = "create" \/ call[c].api # a
            \/ call[c].stale
            \/ \E k \in WritesTo(a) :
                 call[log[k].call].op = "delete"
                   /\ (log[k].call = c \/ Overlap(c, log[k].call))]_vars

(* Two calls ask the same process about the same API and query string.     *)
SameUrl(c, d) ==
  /\ call[c].server = call[d].server /\ call[c].query = call[d].query
  /\ call[c].api = call[d].api
  /\ (call[c].op = "create") = (call[d].op = "create")

(* "intercept": an answer from the cache is no older than the TTL.  It may *)
(* miss what came by another process, another query string or another url; *)
(* what came by its own it misses only if the call that read it overlapped *)
(* the writer or met a replica that lagged.                                *)
AnswersAreRecent ==
  \A c \in Call :
    call[c].pc = "answered" /\ call[c].op = "get" =>
      LET r == call[c].from IN
      /\ call[c].age <= TTL
      /\ \A k \in WritesTo(call[c].api) :
           call[r].seen < k /\ k <= call[c].seen /\ SameUrl(c, log[k].call) =>
             \/ log[k].call = r
             \/ Overlap(r, log[k].call)
             \/ call[r].stale
=============================================================================

------------------------------ MODULE Metrics ------------------------------
(***************************************************************************)
(* The hand-written Prometheus metrics of the backend (internal/metrics),  *)
(* as the prediction route updates them (handlers, workers, the metrics    *)
(* middleware) while scrapers of GET /api/v1/metrics read them.  Counters  *)
(* are atomic; a vector's mutex guards its map of children, a histogram's  *)
(* mutex its buckets, the registry's mutex a whole scrape.                 *)
(***************************************************************************)
EXTENDS Naturals, Sequences, FiniteSets

CONSTANTS
  Requests,     \* requests of POST /api/v1/predict
  Scrapers,     \* requests of GET /api/v1/metrics
  None

ASSUME MetricsAssumption == None \notin Scrapers /\ IsFiniteSet(Requests)

Statuses == {"200", "400", "502", "503"}
Labels == ({"http"} \X Statuses) \cup ({"pred"} \X {"hit", "miss"})

\* Mutation: the cache counters are registered before prediction_requests_total.
FamiliesHitsFirst ==
  <<"http", "duration", "hit", "miss", "pred", "latency", "error", "active_trips">>

\* The order of registration, which Gather follows.  The gauges computed from
\* the pool are plain reads and left out.
Families ==
  <<"http", "duration", "pred", "latency", "error", "hit", "miss", "active_trips">>

Vectors == {"http", "pred"}
Histograms == {"duration", "latency"}
Counters == {"error", "hit", "miss"}

VARIABLES
  children,     \* the counters made for a label, of which the last is in the map
  counter,      \* the counters without a label
  hist,         \* observations of a histogram
  lock,         \* the scraper that holds the mutex of a vector or a histogram
  registry,     \* the scraper in Gather
  at,           \* the family a scraper writes, 0 before and one past the last after
  page,         \* the lines it has written
  pc,           \* where the handler of a request is
  kind,         \* "hit" or "miss", what the cache said
  status,       \* what the middleware's recorder holds
  ref,          \* the child WithLabelValues returned
  job,          \* the worker's side of a request
  counted       \* history: the counters a request has incremented

scrapeVars == <<registry, at, page>>
requestVars == <<pc, kind, status, ref, job>>
vars == <<children, counter, hist, lock, scrapeVars, requestVars, counted>>

Init ==
  /\ children = [l \in Labels |-> <<>>]
  /\ counter = [c \in Counters |-> 0]
  /\ hist = [h \in Histograms |-> 0]
  /\ lock = [f \in Vectors \cup Histograms |-> None]
  /\ registry = None
  /\ at = [s \in Scrapers |-> 0]
  /\ page = [s \in Scrapers |-> <<>>]
  /\ pc = [q \in Requests |-> "new"]
  /\ kind = [q \in Requests |-> "none"]
  /\ status = [q \in Requests |-> "200"]
  /\ ref = [q \in Requests |-> 0]
  /\ job = [q \in Requests |-> "none"]
  /\ counted = [q \in Requests |-> {}]

-----------------------------------------------------------------------------
\* Updates

Goto(q, label) == pc' = [pc EXCEPT ![q] = label]

\* Respond: what next.ServeHTTP leaves in the recorder, 200 by default.
Respond(q, code) == status' = [status EXCEPT ![q] = code] /\ Goto(q, "http_lookup")

IncCounter(q, c) ==
  /\ counter' = [counter EXCEPT ![c] = @ + 1]
  /\ counted' = [counted EXCEPT ![q] = @ \cup {<<c>>}]

\* Observe under the histogram's mutex. The middleware's histogram is the child
\* of a vector, whose mutex WithLabelValues takes first; a scraper holds both.
Observe(h) ==
  /\ lock[h] = None
  /\ hist' = [hist EXCEPT ![h] = @ + 1]

Label(q) ==
  IF pc[q] \in {"pred_lookup", "pred_inc"} THEN <<"pred", kind[q]>> ELSE <<"http", status[q]>>

\* Mutation: the child in the map is not looked for.
MakeChild(q) ==
  /\ pc[q] \in {"pred_lookup", "http_lookup"}
  /\ lock[Label(q)[1]] = None
  /\ children' = [children EXCEPT ![Label(q)] = Append(@, 0)]
  /\ ref' = [ref EXCEPT ![q] = Len(children'[Label(q)])]
  /\ Goto(q, IF pc[q] = "pred_lookup" THEN "pred_inc" ELSE "http_inc")
  /\ UNCHANGED <<counter, hist, lock, scrapeVars, kind, status, job, counted>>

\* The child is found or made under the vector's mutex, and counted afterwards.
WithLabelValues(q) ==
  /\ pc[q] \in {"pred_lookup", "http_lookup"}
  /\ lock[Label(q)[1]] = None
  /\ children' = [children EXCEPT ![Label(q)] = IF @ = <<>> THEN <<0>> ELSE @]
  /\ ref' = [ref EXCEPT ![q] = Len(children'[Label(q)])]
  /\ Goto(q, IF pc[q] = "pred_lookup" THEN "pred_inc" ELSE "http_inc")
  /\ UNCHANGED <<counter, hist, lock, scrapeVars, kind, status, job, counted>>

Inc(q) ==
  /\ pc[q] \in {"pred_inc", "http_inc"}
  /\ children' = [children EXCEPT ![Label(q)][ref[q]] = @ + 1]
  /\ counted' = [counted EXCEPT ![q] = @ \cup {Label(q)}]
  /\ CASE pc[q] = "http_inc" -> Goto(q, "observe") /\ UNCHANGED status
       [] pc[q] = "pred_inc" /\ kind[q] = "hit" -> Respond(q, "200")
       [] pc[q] = "pred_inc" /\ kind[q] = "miss" -> Goto(q, "predict") /\ UNCHANGED status
  /\ UNCHANGED <<counter, hist, lock, scrapeVars, kind, ref, job>>

-----------------------------------------------------------------------------
\* A request of the prediction route

Invalid(q) ==
  /\ pc[q] = "new"
  /\ Respond(q, "400")
  /\ UNCHANGED <<children, counter, hist, lock, scrapeVars, kind, ref, job, counted>>

CacheGet(q) ==
  /\ pc[q] = "new"
  /\ \E k \in {"hit", "miss"} : kind' = [kind EXCEPT ![q] = k] /\ IncCounter(q, k)
  /\ Goto(q, "pred_lookup")
  /\ UNCHANGED <<children, hist, lock, scrapeVars, status, ref, job>>

Submit(q) ==
  /\ pc[q] = "predict"
  /\ job[q] = "none"
  /\ \/ job' = [job EXCEPT ![q] = "running"] /\ UNCHANGED <<pc, status>>
     \/ Respond(q, "503") /\ UNCHANGED job
  /\ UNCHANGED <<children, counter, hist, lock, scrapeVars, kind, ref, counted>>

\* The worker, which goes on when its caller has left.
Predicted(q) ==
  /\ job[q] = "running"
  /\ Observe("latency")
  /\ \E outcome \in {"ok", "failed"} : job' = [job EXCEPT ![q] = outcome]
  /\ UNCHANGED <<children, counter, lock, scrapeVars, pc, kind, status, ref, counted>>

CountError(q) ==
  /\ job[q] = "failed"
  /\ IncCounter(q, "error")
  /\ job' = [job EXCEPT ![q] = "error"]
  /\ UNCHANGED <<children, hist, lock, scrapeVars, pc, kind, status, ref>>

Answer(q) ==
  /\ pc[q] = "predict"
  /\ \/ job[q] = "ok" /\ Respond(q, "200")
     \/ job[q] = "error" /\ Respond(q, "502")
  /\ UNCHANGED <<children, counter, hist, lock, scrapeVars, kind, ref, job, counted>>

\* The client left: nothing is written, which the recorder takes for a 200.
Abandon(q) ==
  /\ pc[q] = "predict"
  /\ job[q] # "none"
  /\ Goto(q, "http_lookup")
  /\ UNCHANGED <<children, counter, hist, lock, scrapeVars, kind, status, ref, job, counted>>

ObserveDuration(q) ==
  /\ pc[q] = "observe"
  /\ Observe("duration")
  /\ Goto(q, "done")
  /\ UNCHANGED <<children, counter, lock, scrapeVars, kind, status, ref, job, counted>>

Request(q) ==
  \/ Invalid(q) \/ CacheGet(q) \/ WithLabelValues(q) \/ Inc(q) \/ Submit(q)
  \/ Predicted(q) \/ CountError(q) \/ Answer(q) \/ Abandon(q) \/ ObserveDuration(q)

-----------------------------------------------------------------------------
\* A scrape

Family(s) == Families[at[s]]
Gathering(s) == at[s] \in 1..Len(Families)

\* The lines of a vector or a histogram, with their present values: of a histogram the bucket
\* +Inf, which stands for the others, and the count.
LineValues(f) ==
  CASE f \in Vectors ->
         [l \in {k \in Labels : k[1] = f /\ children[k] # <<>>} |-> children[l][Len(children[l])]]
    [] f \in Histograms ->
         [l \in {f} \X {"inf", "count"} |-> hist[f]]

\* Fprintf of the line l with the value v.
WriteTo(s, l, v) ==
  page' = [page EXCEPT ![s] = [m \in DOMAIN @ \cup {l} |-> IF m = l THEN v ELSE @[m]]]

GatherBegin(s) ==
  /\ at[s] = 0
  /\ registry = None
  /\ registry' = s
  /\ at' = [at EXCEPT ![s] = 1]
  /\ UNCHANGED <<children, counter, hist, lock, page, requestVars, counted>>

LockFamily(s) ==
  /\ Gathering(s)
  /\ Family(s) \in DOMAIN lock
  /\ lock[Family(s)] = None
  /\ lock' = [lock EXCEPT ![Family(s)] = s]
  /\ UNCHANGED <<children, counter, hist, scrapeVars, requestVars, counted>>

WriteCounter(s) ==
  /\ Gathering(s)
  /\ Family(s) \in Counters
  /\ WriteTo(s, <<Family(s)>>, counter[Family(s)])
  /\ at' = [at EXCEPT ![s] = @ + 1]
  /\ UNCHANGED <<children, counter, hist, lock, registry, requestVars, counted>>

Inside(s) == Gathering(s) /\ Family(s) \in DOMAIN lock /\ lock[Family(s)] = s

\* A line is read and written to the connection, which may block.
WriteLine(s) ==
  /\ Inside(s)
  /\ \E l \in DOMAIN LineValues(Family(s)) \ DOMAIN page[s] :
       WriteTo(s, l, LineValues(Family(s))[l])
  /\ UNCHANGED <<children, counter, hist, lock, registry, at, requestVars, counted>>

Written(s) == Inside(s) /\ DOMAIN LineValues(Family(s)) \subseteq DOMAIN page[s]

\* Mutation: defer m.mu.Unlock() in the loop.
KeepLock(s) ==
  /\ Written(s)
  /\ at' = [at EXCEPT ![s] = @ + 1]
  /\ UNCHANGED <<children, counter, hist, lock, registry, page, requestVars, counted>>

NextFamily(s) ==
  /\ Written(s)
  /\ lock' = [lock EXCEPT ![Family(s)] = None]
  /\ at' = [at EXCEPT ![s] = @ + 1]
  /\ UNCHANGED <<children, counter, hist, registry, page, requestVars, counted>>

\* The last family: its gauge asks the database, without a deadline.
GatherEnd(s) ==
  /\ Gathering(s)
  /\ Family(s) = "active_trips"
  /\ registry' = None
  /\ at' = [at EXCEPT ![s] = @ + 1]
  /\ page' = [page EXCEPT ![s] = <<>>]
  /\ UNCHANGED <<children, counter, hist, lock, requestVars, counted>>

Write(s) ==
  \/ GatherBegin(s) \/ LockFamily(s) \/ WriteLine(s) \/ NextFamily(s) \/ WriteCounter(s)

Idle ==
  /\ \A q \in Requests : pc[q] = "done" /\ job[q] \notin {"running", "failed"}
  /\ \A s \in Scrapers : at[s] > Len(Families)
  /\ UNCHANGED vars

Next ==
  \/ \E q \in Requests : Request(q)
  \/ \E s \in Scrapers : Write(s) \/ GatherEnd(s)
  \/ Idle

Spec == Init /\ [][Next]_vars

\* Goroutines run, calls of the model service end, and so does every write, by
\* the server's WriteTimeout.  The query behind the gauge may never be answered.
FairSpec ==
  /\ Spec
  /\ \A q \in Requests : WF_vars(Request(q))
  /\ \A s \in Scrapers : WF_vars(Write(s))

-----------------------------------------------------------------------------
\* Properties

\* Every variable keeps its type; one scraper is in Gather, and it holds the
\* mutex of no other family than the one it writes.
TypeOK ==
  /\ children \in [Labels -> Seq(Nat)]
  /\ counter \in [Counters -> Nat]
  /\ hist \in [Histograms -> Nat]
  /\ lock \in [Vectors \cup Histograms -> Scrapers \cup {None}]
  /\ registry \in Scrapers \cup {None}
  /\ at \in [Scrapers -> 0..Len(Families) + 1]
  /\ pc \in [Requests -> {"new", "pred_lookup", "pred_inc", "predict",
                          "http_lookup", "http_inc", "observe", "done"}]
  /\ kind \in [Requests -> {"none", "hit", "miss"}]
  /\ status \in [Requests -> Statuses]
  /\ ref \in [Requests -> Nat]
  /\ job \in [Requests -> {"none", "running", "failed", "ok", "error"}]
  /\ \A s \in Scrapers : Gathering(s) => registry = s
  /\ \A f \in DOMAIN lock : lock[f] # None => Family(lock[f]) = f

Shown(s, l) == IF l \in DOMAIN page[s] THEN page[s][l] ELSE 0

\* A page is written while the counters move, and families are read one after
\* the other; still no page shows an effect without its cause: no more answers
\* than cache lookups, no more lookups of a kind than the cache's own counter of
\* it, no more 502s than errors.  A histogram is shown as of one instant:
\* its last bucket, +Inf, is its count (metrics.go:99-101).
ScrapeConsistent ==
  \A s \in Scrapers : Gathering(s) /\ Family(s) = "active_trips" =>
    /\ Shown(s, <<"http", "200">>) + Shown(s, <<"http", "502">>) + Shown(s, <<"http", "503">>)
         <= Shown(s, <<"pred", "hit">>) + Shown(s, <<"pred", "miss">>)
    /\ \A k \in {"hit", "miss"} : Shown(s, <<"pred", k>>) <= Shown(s, <<k>>)
    /\ Shown(s, <<"http", "502">>) <= Shown(s, <<"error">>)
    /\ \A h \in Histograms : Shown(s, <<h, "inf">>) = Shown(s, <<h, "count">>)

\* Requests that meet a label first, together, count on one child: the value a
\* scrape shows is the number of requests that incremented the counter.
NoCountLost ==
  /\ \A l \in Labels :
       Cardinality({q \in Requests : l \in counted[q]})
         = IF children[l] = <<>> THEN 0 ELSE children[l][Len(children[l])]
  /\ \A c \in Counters : Cardinality({q \in Requests : <<c>> \in counted[q]}) = counter[c]

\* A scraper that reads slowly, or a gauge whose query hangs, holds back other
\* scrapers; every request of the prediction route still returns.
RequestsReturn == \A q \in Requests : pc[q] # "new" ~> pc[q] = "done"
=============================================================================

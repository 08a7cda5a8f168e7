--------------------------- MODULE Metrics_proofs ---------------------------
(***************************************************************************)
(* Proofs about Metrics, for any finite number of requests and any         *)
(* scrapers: the types and locks, that no increment is lost, and that no   *)
(* page of a scrape shows an effect without its cause.                     *)
(***************************************************************************)
EXTENDS Metrics, FiniteSetTheorems, TLAPS

Keys == Labels \cup {<<c>> : c \in Counters}

Types ==
  /\ children \in [Labels -> Seq(Nat)]
  /\ counter \in [Counters -> Nat]
  /\ hist \in [Histograms -> Nat]
  /\ lock \in [Vectors \cup Histograms -> Scrapers \cup {None}]
  /\ registry \in Scrapers \cup {None}
  /\ at \in [Scrapers -> 0..Len(Families) + 1]
  /\ pc \in [Requests -> {"new", "pred_lookup", "pred_inc", "predict",
                          "http_lookup", "http_inc", "observe", "done"}]
  /\ kind \in [Requests -> {"none", "hit", "miss"}]
  /\ status \in [Requests -> Statuses]
  /\ ref \in [Requests -> Nat]
  /\ job \in [Requests -> {"none", "running", "failed", "ok", "error"}]
  /\ counted \in [Requests -> SUBSET Keys]

\* A scraper in Gather holds the registry, and only the lock of its family.
Locking ==
  /\ \A s \in Scrapers : Gathering(s) => registry = s
  /\ \A f \in Vectors \cup Histograms :
       lock[f] # None => Gathering(lock[f]) /\ Family(lock[f]) = f

\* A label has at most one child, and who is to increment it was given that one.
OneChild ==
  /\ \A l \in Labels : children[l] = <<>> \/ \E n \in Nat : children[l] = <<n>>
  /\ \A q \in Requests : pc[q] \in {"pred_inc", "http_inc"} =>
       ref[q] = 1 /\ children[Label(q)] # <<>>

\* What a request has not counted yet.
Uncounted == \A q \in Requests :
  /\ pc[q] \in {"pred_lookup", "pred_inc", "predict"} => kind[q] \in {"hit", "miss"}
  /\ pc[q] = "new" => counted[q] = {}
  /\ pc[q] \in {"pred_lookup", "pred_inc"} => counted[q] = {<<kind[q]>>}
  /\ pc[q] \in {"new", "pred_lookup", "pred_inc"} => job[q] = "none"
  /\ job[q] # "error" => <<"error">> \notin counted[q]
  /\ pc[q] \in {"predict", "http_lookup", "http_inc"} =>
       \A x \in Statuses : <<"http", x>> \notin counted[q]

Counted(k) == {q \in Requests : k \in counted[q]}

\* The value of a counter.
Value(k) == IF k \in Labels THEN (IF children[k] = <<>> THEN 0 ELSE children[k][1]) ELSE counter[k[1]]

Exact == \A k \in Keys : Cardinality(Counted(k)) = Value(k)

IInv == Types /\ Locking /\ OneChild /\ Uncounted /\ Exact

-----------------------------------------------------------------------------
\* A key is a label or a counter's name, and never both.
LEMMA KeysDiffer ==
  /\ \A c \in Counters : <<c>> \notin Labels
  /\ \A l \in Labels : l = <<l[1], l[2]>>
  /\ \A x \in Statuses : <<"http", x>> \in Labels
  /\ \A x \in {"hit", "miss"} : <<"pred", x>> \in Labels
<1>1. \A c, x, y : <<c>> # <<x, y>>
  <2>1. \A c, x, y : Len(<<c>>) = 1 /\ Len(<<x, y>>) = 2
    OBVIOUS
  <2> QED
    BY <2>1
<1>2. \A l \in Labels : l = <<l[1], l[2]>>
  BY DEF Labels, Statuses
<1> QED
  BY <1>1, <1>2 DEF Labels, Statuses

\* Nothing has been counted.
LEMMA InitInv == Init => IInv
<1> SUFFICES ASSUME Init PROVE IInv
  OBVIOUS
<1>1. Types
  BY DEF Init, Types, Families, Keys, Statuses, Counters, Histograms
<1>2. Locking /\ OneChild
  BY DEF Init, Locking, Gathering, OneChild
<1>3. Uncounted
  BY DEF Init, Uncounted
<1>4. Exact
  <2>1. \A k \in Keys : Counted(k) = {}
    BY DEF Init, Counted
  <2>2. \A k \in Keys : Value(k) = 0
    BY KeysDiffer DEF Init, Value, Keys
  <2> QED
    BY <2>1, <2>2, FS_EmptySet DEF Exact
<1> QED
  BY <1>1, <1>2, <1>3, <1>4 DEF IInv

-----------------------------------------------------------------------------
\* Counting

\* One request more has incremented k, and k alone is one larger.
LEMMA CountUp ==
  ASSUME IInv, NEW q \in Requests, NEW k \in Keys, k \notin counted[q],
         counted' = [counted EXCEPT ![q] = @ \cup {k}],
         \A j \in Keys : Value(j)' = IF j = k THEN Value(j) + 1 ELSE Value(j)
  PROVE  Exact' /\ counted' \in [Requests -> SUBSET Keys]
<1>1. counted \in [Requests -> SUBSET Keys] /\ IsFiniteSet(Requests)
  BY MetricsAssumption DEF IInv, Types
<1>2. counted' \in [Requests -> SUBSET Keys]
  BY <1>1
<1>3. ASSUME NEW j \in Keys PROVE Cardinality(Counted(j)') = Value(j)'
  <2>1. IsFiniteSet(Counted(j)) /\ Cardinality(Counted(j)) = Value(j)
    BY <1>1, FS_Subset DEF Counted, IInv, Exact
  <2>2. CASE j = k
    <3>1. Counted(j)' = Counted(j) \cup {q} /\ q \notin Counted(j)
      BY <1>1, <2>2 DEF Counted
    <3>2. Cardinality(Counted(j) \cup {q}) = Cardinality(Counted(j)) + 1
      BY <2>1, <3>1, FS_AddElement
    <3> QED
      BY <2>1, <2>2, <3>1, <3>2
  <2>3. CASE j # k
    <3>1. Counted(j)' = Counted(j)
      BY <1>1, <2>3 DEF Counted
    <3> QED
      BY <2>1, <2>3, <3>1
  <2> QED
    BY <2>2, <2>3
<1> QED
  BY <1>2, <1>3 DEF Exact

\* Nothing is counted.
LEMMA ExactKept ==
  ASSUME IInv, UNCHANGED <<children, counter, counted>>
  PROVE  Exact'
<1>1. ASSUME NEW k \in Keys PROVE Value(k)' = Value(k)
  BY DEF Value
<1>2. ASSUME NEW k \in Keys PROVE Counted(k)' = Counted(k)
  BY DEF Counted
<1> QED
  BY <1>1, <1>2 DEF IInv, Exact

\* A counter without a label.
LEMMA CounterStep ==
  ASSUME IInv, NEW q \in Requests, NEW c \in Counters, <<c>> \notin counted[q],
         IncCounter(q, c), children' = children
  PROVE  Exact' /\ counted' \in [Requests -> SUBSET Keys] /\ counter' \in [Counters -> Nat]
<1>1. counter \in [Counters -> Nat] /\ counter' = [counter EXCEPT ![c] = @ + 1]
  BY DEF IInv, Types, IncCounter
<1>2. ASSUME NEW j \in Keys PROVE Value(j)' = IF j = <<c>> THEN Value(j) + 1 ELSE Value(j)
  <2>1. CASE j \in Labels
    BY <2>1, KeysDiffer DEF Value
  <2>2. ASSUME NEW d \in Counters, j = <<d>>
        PROVE  Value(j)' = IF j = <<c>> THEN Value(j) + 1 ELSE Value(j)
    <3>1. Value(j) = counter[d] /\ Value(j)' = counter'[d]
      BY <2>2, KeysDiffer DEF Value
    <3>2. j = <<c>> <=> d = c
      BY <2>2
    <3> QED
      BY <1>1, <3>1, <3>2
  <2> QED
    BY <2>1, <2>2 DEF Keys
<1>3. <<c>> \in Keys /\ counted' = [counted EXCEPT ![q] = @ \cup {<<c>>}]
  BY DEF Keys, IncCounter
<1>4. Exact' /\ counted' \in [Requests -> SUBSET Keys]
  BY <1>2, <1>3, CountUp
<1> QED
  BY <1>1, <1>4

-----------------------------------------------------------------------------
\* The steps

\* Steps of a handler that touch no counter.
LEMMA HandlerStep ==
  ASSUME IInv, NEW q \in Requests, Invalid(q) \/ Submit(q) \/ Answer(q) \/ Abandon(q)
  PROVE  IInv'
<1>1. UNCHANGED <<children, counter, hist, lock, registry, at, kind, ref, counted>>
  BY DEF Invalid, Submit, Answer, Abandon, scrapeVars
<1>2. /\ pc[q] = "new" \/ pc[q] = "predict"
      /\ pc' = pc \/ pc' = [pc EXCEPT ![q] = "http_lookup"]
      /\ status' = status \/ \E x \in Statuses : status' = [status EXCEPT ![q] = x]
      /\ job' = job \/ (pc[q] = "predict" /\ job' = [job EXCEPT ![q] = "running"])
      /\ pc[q] = "new" => pc' = [pc EXCEPT ![q] = "http_lookup"]
  BY DEF Invalid, Submit, Answer, Abandon, Respond, Goto, Statuses
<1>3. /\ pc \in [Requests -> {"new", "pred_lookup", "pred_inc", "predict",
                               "http_lookup", "http_inc", "observe", "done"}]
      /\ status \in [Requests -> Statuses]
      /\ job \in [Requests -> {"none", "running", "failed", "ok", "error"}]
  BY DEF IInv, Types
<1>4. /\ pc' \in [Requests -> {"new", "pred_lookup", "pred_inc", "predict",
                                "http_lookup", "http_inc", "observe", "done"}]
      /\ status' \in [Requests -> Statuses]
      /\ job' \in [Requests -> {"none", "running", "failed", "ok", "error"}]
  BY <1>2, <1>3
<1>5. Types'
  BY <1>1, <1>4 DEF IInv, Types
<1>6. Locking'
  BY <1>1 DEF IInv, Locking, Gathering, Family
<1>7. \A r \in Requests : r # q => pc'[r] = pc[r] /\ status'[r] = status[r] /\ job'[r] = job[r]
  BY <1>2, <1>3
<1>8. pc'[q] \in {pc[q], "http_lookup"} /\ pc'[q] # "new" /\ pc'[q] \notin {"pred_inc", "http_inc"}
  BY <1>2, <1>3
<1>9. OneChild'
  <2>1. \A r \in Requests : r # q => Label(r)' = Label(r)
    BY <1>1, <1>7 DEF Label
  <2> QED
    BY <1>1, <1>7, <1>8, <2>1 DEF IInv, OneChild
<1>10. Uncounted'
  <2>1. job'[q] \in {job[q], "running"} /\ (job'[q] # job[q] => job'[q] = "running" /\ job[q] = "none")
    BY <1>2, <1>3 DEF Invalid, Submit, Answer, Abandon
  <2>2. pc'[q] = "http_lookup" \/ pc'[q] = "predict"
    BY <1>2, <1>3
  <2>3. /\ <<"error">> \in counted[q] => job[q] = "error"
        /\ pc[q] = "predict" => kind[q] \in {"hit", "miss"}
        /\ \A x \in Statuses : <<"http", x>> \notin counted[q]
    BY <1>2 DEF IInv, Uncounted
  <2>4. /\ pc'[q] = "predict" => kind'[q] \in {"hit", "miss"}
        /\ job'[q] # "error" => <<"error">> \notin counted'[q]
        /\ \A x \in Statuses : <<"http", x>> \notin counted'[q]
    BY <1>1, <1>2, <1>3, <2>1, <2>3
  <2>5. ASSUME NEW r \in Requests, r # q
        PROVE  UNCHANGED <<pc[r], kind[r], counted[r], job[r]>>
    BY <1>1, <1>7, <2>5
  <2> QED
    BY <2>2, <2>4, <2>5 DEF IInv, Uncounted
<1>11. Exact'
  BY <1>1, ExactKept
<1> QED
  BY <1>5, <1>6, <1>9, <1>10, <1>11 DEF IInv

\* The cache's counters.
LEMMA CacheGetStep ==
  ASSUME IInv, NEW q \in Requests, CacheGet(q)
  PROVE  IInv'
<1>1. PICK k \in {"hit", "miss"} : kind' = [kind EXCEPT ![q] = k] /\ IncCounter(q, k)
  BY DEF CacheGet
<1>2. /\ UNCHANGED <<children, hist, lock, registry, at, status, ref, job>>
      /\ pc[q] = "new" /\ pc' = [pc EXCEPT ![q] = "pred_lookup"]
  BY DEF CacheGet, Goto, scrapeVars
<1>3. counted[q] = {} /\ job[q] = "none"
  BY <1>2 DEF IInv, Uncounted
<1>4. k \in Counters
  BY DEF Counters
<1>5. Exact' /\ counted' \in [Requests -> SUBSET Keys] /\ counter' \in [Counters -> Nat]
  BY <1>1, <1>2, <1>3, <1>4, CounterStep
<1>6. /\ pc \in [Requests -> {"new", "pred_lookup", "pred_inc", "predict",
                               "http_lookup", "http_inc", "observe", "done"}]
      /\ kind \in [Requests -> {"none", "hit", "miss"}]
      /\ counted \in [Requests -> SUBSET Keys]
  BY DEF IInv, Types
<1>7. Types'
  BY <1>1, <1>2, <1>5, <1>6 DEF IInv, Types
<1>8. Locking'
  BY <1>2 DEF IInv, Locking, Gathering, Family
<1>9. /\ \A r \in Requests : r # q => pc'[r] = pc[r] /\ kind'[r] = kind[r] /\ counted'[r] = counted[r]
      /\ pc'[q] = "pred_lookup" /\ kind'[q] = k /\ counted'[q] = {<<k>>}
  BY <1>1, <1>2, <1>3, <1>6 DEF IncCounter
<1>10. OneChild'
  <2>1. \A r \in Requests : r # q => Label(r)' = Label(r)
    BY <1>2, <1>9 DEF Label
  <2> QED
    BY <1>2, <1>9, <2>1 DEF IInv, OneChild
<1>11. Uncounted'
  <2>1. <<"error">> \notin counted'[q]
    <3>1. <<k>> # <<"error">>
      OBVIOUS
    <3> QED
      BY <1>9, <3>1
  <2> QED
    BY <1>2, <1>3, <1>9, <2>1 DEF IInv, Uncounted
<1> QED
  BY <1>5, <1>7, <1>8, <1>10, <1>11 DEF IInv

\* The label a request looks for, or increments.
LEMMA LabelOf ==
  ASSUME IInv, NEW q \in Requests, pc[q] \in {"pred_lookup", "pred_inc", "http_lookup", "http_inc"}
  PROVE  Label(q) \in Labels /\ Label(q) \notin counted[q]
<1>1. CASE pc[q] \in {"pred_lookup", "pred_inc"}
  <2>1. Label(q) = <<"pred", kind[q]>> /\ kind[q] \in {"hit", "miss"} /\ counted[q] = {<<kind[q]>>}
    BY <1>1 DEF Label, IInv, Uncounted
  <2>2. Label(q) \in Labels
    BY <2>1, KeysDiffer
  <2>3. <<kind[q]>> \notin Labels
    BY <2>1, KeysDiffer DEF Counters
  <2> QED
    BY <2>1, <2>2, <2>3
<1>2. CASE pc[q] \in {"http_lookup", "http_inc"}
  BY <1>2, KeysDiffer DEF Label, IInv, Types, Uncounted
<1> QED
  BY <1>1, <1>2

\* The child of a label is found, or made with the value 0.
LEMMA LookupStep ==
  ASSUME IInv, NEW q \in Requests, WithLabelValues(q)
  PROVE  IInv'
<1>1. /\ pc[q] \in {"pred_lookup", "http_lookup"}
      /\ UNCHANGED <<counter, hist, lock, registry, at, kind, status, job, counted>>
  BY DEF WithLabelValues, scrapeVars
<1>2. PICK l \in Labels : l = Label(q)
  BY <1>1, LabelOf
<1>3. /\ children' = [children EXCEPT ![l] = IF @ = <<>> THEN <<0>> ELSE @]
      /\ ref' = [ref EXCEPT ![q] = Len(children'[l])]
      /\ pc' = [pc EXCEPT ![q] = IF pc[q] = "pred_lookup" THEN "pred_inc" ELSE "http_inc"]
  BY <1>2, Zenon DEF WithLabelValues, Goto
<1>4. /\ children \in [Labels -> Seq(Nat)] /\ ref \in [Requests -> Nat]
      /\ pc \in [Requests -> {"new", "pred_lookup", "pred_inc", "predict",
                               "http_lookup", "http_inc", "observe", "done"}]
  BY DEF IInv, Types
<1>5. /\ \A k \in Labels : k # l => children'[k] = children[k]
      /\ children'[l] = IF children[l] = <<>> THEN <<0>> ELSE children[l]
  BY <1>3, <1>4
<1>6. /\ children[l] = <<>> => children'[l] = <<0>>
      /\ children[l] # <<>> => children'[l] = children[l] /\ \E n \in Nat : children'[l] = <<n>>
  BY <1>5 DEF IInv, OneChild
<1>7. children'[l] # <<>> /\ Len(children'[l]) = 1 /\ children'[l] \in Seq(Nat)
  <2>1. PICK n \in Nat : children'[l] = <<n>>
    BY <1>6
  <2> QED
    BY <2>1
<1>8. Types'
  <2>1. children' \in [Labels -> Seq(Nat)]
    BY <1>3, <1>4, <1>7
  <2>2. ref' \in [Requests -> Nat]
    BY <1>3, <1>4, <1>7
  <2>3. pc' \in [Requests -> {"new", "pred_lookup", "pred_inc", "predict",
                              "http_lookup", "http_inc", "observe", "done"}]
    BY <1>3, <1>4
  <2> QED
    BY <1>1, <2>1, <2>2, <2>3 DEF IInv, Types
<1>9. Locking'
  BY <1>1 DEF IInv, Locking, Gathering, Family
<1>10. /\ \A r \in Requests : r # q => pc'[r] = pc[r] /\ ref'[r] = ref[r]
       /\ pc'[q] = IF pc[q] = "pred_lookup" THEN "pred_inc" ELSE "http_inc"
       /\ ref'[q] = 1
  BY <1>3, <1>4, <1>7
<1>11. \A r \in Requests : Label(r)' = Label(r)
  BY <1>1, <1>10 DEF Label
<1>12. OneChild'
  <2>1. ASSUME NEW k \in Labels PROVE children'[k] = <<>> \/ \E n \in Nat : children'[k] = <<n>>
    BY <1>5, <1>6 DEF IInv, OneChild
  <2>2. ASSUME NEW r \in Requests, pc'[r] \in {"pred_inc", "http_inc"}
        PROVE  ref'[r] = 1 /\ children'[Label(r)'] # <<>>
    <3>1. CASE r = q
      BY <1>2, <1>7, <1>10, <1>11, <3>1
    <3>2. CASE r # q
      <4>1. ref'[r] = 1 /\ children[Label(r)] # <<>> /\ Label(r) \in Labels
        BY <1>10, <2>2, <3>2, LabelOf DEF IInv, OneChild
      <4> QED
        BY <1>5, <1>7, <1>11, <4>1
    <3> QED
      BY <3>1, <3>2
  <2> QED
    BY <2>1, <2>2 DEF OneChild
<1>13. Uncounted'
  BY <1>1, <1>10 DEF IInv, Uncounted
<1>14. Exact'
  <2>1. ASSUME NEW k \in Keys PROVE Counted(k)' = Counted(k)
    BY <1>1 DEF Counted
  <2>2. ASSUME NEW k \in Labels PROVE (IF children'[k] = <<>> THEN 0 ELSE children'[k][1])
                                      = (IF children[k] = <<>> THEN 0 ELSE children[k][1])
    BY <1>5, <1>6
  <2>3. ASSUME NEW k \in Keys PROVE Value(k)' = Value(k)
    BY <1>1, <2>2 DEF Value
  <2> QED
    BY <2>1, <2>3 DEF IInv, Exact
<1> QED
  BY <1>8, <1>9, <1>12, <1>13, <1>14 DEF IInv

\* The child is incremented.
LEMMA IncStep ==
  ASSUME IInv, NEW q \in Requests, Inc(q)
  PROVE  IInv'
<1>1. /\ pc[q] \in {"pred_inc", "http_inc"}
      /\ UNCHANGED <<counter, hist, lock, registry, at, kind, ref, job>>
  BY DEF Inc, scrapeVars
<1>2. PICK l \in Labels : l = Label(q) /\ l \notin counted[q]
  BY <1>1, LabelOf
<1>3. PICK n \in Nat : children[l] = <<n>> /\ ref[q] = 1
  BY <1>1, <1>2 DEF IInv, OneChild
<1>4. /\ children \in [Labels -> Seq(Nat)]
      /\ pc \in [Requests -> {"new", "pred_lookup", "pred_inc", "predict",
                               "http_lookup", "http_inc", "observe", "done"}]
      /\ status \in [Requests -> Statuses]
      /\ counted \in [Requests -> SUBSET Keys]
  BY DEF IInv, Types
<1>5. children' = [children EXCEPT ![l] = <<n + 1>>]
  <2>1. children' = [children EXCEPT ![l] = [children[l] EXCEPT ![1] = n + 1]]
    BY <1>2, <1>3 DEF Inc
  <2>2. [children[l] EXCEPT ![1] = n + 1] = <<n + 1>>
    BY <1>3
  <2> QED
    BY <2>1, <2>2
<1>6. counted' = [counted EXCEPT ![q] = @ \cup {l}]
  BY <1>2, Zenon DEF Inc
<1>7. /\ pc' = [pc EXCEPT ![q] = IF pc[q] = "http_inc" THEN "observe"
                                 ELSE IF kind[q] = "hit" THEN "http_lookup" ELSE "predict"]
      /\ status' = status \/ status' = [status EXCEPT ![q] = "200"]
      /\ pc[q] = "pred_inc" => kind[q] \in {"hit", "miss"}
  <2>1. pc[q] = "pred_inc" => kind[q] \in {"hit", "miss"}
    BY DEF IInv, Uncounted
  <2>2. CASE pc[q] = "http_inc"
    BY <2>2 DEF Inc, Goto
  <2>3. CASE pc[q] = "pred_inc" /\ kind[q] = "hit"
    BY <2>3 DEF Inc, Respond, Goto
  <2>4. CASE pc[q] = "pred_inc" /\ kind[q] = "miss"
    BY <2>4 DEF Inc, Goto
  <2> QED
    BY <1>1, <2>1, <2>2, <2>3, <2>4
<1>8. /\ \A k \in Labels : k # l => children'[k] = children[k]
      /\ children'[l] = <<n + 1>> /\ children'[l][1] = n + 1 /\ children[l][1] = n
      /\ children'[l] # <<>> /\ children[l] # <<>>
  BY <1>3, <1>4, <1>5
<1>9. Exact' /\ counted' \in [Requests -> SUBSET Keys]
  <2>1. ASSUME NEW j \in Keys PROVE Value(j)' = IF j = l THEN Value(j) + 1 ELSE Value(j)
    <3>1. CASE j = l
      BY <1>2, <1>8, <3>1 DEF Value
    <3>2. CASE j # l
      BY <1>1, <1>8, <3>2 DEF Value
    <3> QED
      BY <3>1, <3>2
  <2>2. l \in Keys
    BY DEF Keys
  <2> QED
    BY <1>2, <1>6, <2>1, <2>2, CountUp
<1>10. /\ \A r \in Requests : r # q => pc'[r] = pc[r] /\ status'[r] = status[r] /\ counted'[r] = counted[r]
       /\ pc'[q] = IF pc[q] = "http_inc" THEN "observe"
                   ELSE IF kind[q] = "hit" THEN "http_lookup" ELSE "predict"
       /\ counted'[q] = counted[q] \cup {l}
  BY <1>4, <1>6, <1>7
<1>11. Types'
  <2>1. children' \in [Labels -> Seq(Nat)]
    <3>1. <<n + 1>> \in Seq(Nat)
      OBVIOUS
    <3> QED
      BY <1>4, <1>5, <3>1
  <2>2. pc' \in [Requests -> {"new", "pred_lookup", "pred_inc", "predict",
                              "http_lookup", "http_inc", "observe", "done"}]
    BY <1>4, <1>7
  <2>3. status' \in [Requests -> Statuses]
    BY <1>4, <1>7 DEF Statuses
  <2> QED
    BY <1>1, <1>9, <2>1, <2>2, <2>3 DEF IInv, Types
<1>12. Locking'
  BY <1>1 DEF IInv, Locking, Gathering, Family
<1>13. OneChild'
  <2>1. ASSUME NEW k \in Labels PROVE children'[k] = <<>> \/ \E m \in Nat : children'[k] = <<m>>
    BY <1>8 DEF IInv, OneChild
  <2>2. ASSUME NEW r \in Requests, pc'[r] \in {"pred_inc", "http_inc"}
        PROVE  ref'[r] = 1 /\ children'[Label(r)'] # <<>>
    <3>1. r # q
      BY <1>10, <2>2
    <3>2. Label(r)' = Label(r)
      BY <1>1, <1>10, <3>1 DEF Label
    <3>3. ref'[r] = 1 /\ children[Label(r)] # <<>> /\ Label(r) \in Labels
      BY <1>1, <1>10, <2>2, <3>1, LabelOf DEF IInv, OneChild
    <3> QED
      BY <1>8, <3>2, <3>3
  <2> QED
    BY <2>1, <2>2 DEF OneChild
<1>14. Uncounted'
  <2>1. ASSUME NEW r \in Requests, r # q PROVE UNCHANGED <<pc[r], kind[r], counted[r], job[r]>>
    BY <1>1, <1>10, <2>1
  <2>2. l # <<"error">>
    BY KeysDiffer DEF Counters
  <2>3. job[q] # "error" => <<"error">> \notin counted'[q]
    BY <1>10, <2>2 DEF IInv, Uncounted
  <2>4. CASE pc[q] = "http_inc"
    BY <1>1, <1>10, <2>1, <2>3, <2>4 DEF IInv, Uncounted
  <2>5. CASE pc[q] = "pred_inc"
    <3>1. l = <<"pred", kind[q]>> /\ kind[q] \in {"hit", "miss"} /\ counted[q] = {<<kind[q]>>}
      BY <1>2, <2>5 DEF Label, IInv, Uncounted
    <3>2. <<kind[q]>> \notin Labels
      BY <3>1, KeysDiffer DEF Counters
    <3>3. \A x \in Statuses : <<"http", x>> \in Labels /\ <<"http", x>> # l
      BY <3>1, KeysDiffer
    <3>4. \A x \in Statuses : <<"http", x>> \notin counted'[q]
      BY <1>10, <3>1, <3>2, <3>3
    <3>5. pc'[q] \in {"http_lookup", "predict"}
      BY <1>10, <2>5
    <3> QED
      BY <1>1, <2>1, <2>3, <3>1, <3>4, <3>5 DEF IInv, Uncounted
  <2> QED
    BY <1>1, <2>4, <2>5
<1> QED
  BY <1>9, <1>11, <1>12, <1>13, <1>14 DEF IInv

\* Observations, which nothing here counts.
LEMMA ObserveStep ==
  ASSUME IInv, NEW q \in Requests, Predicted(q) \/ ObserveDuration(q)
  PROVE  IInv'
<1>1. UNCHANGED <<children, counter, lock, registry, at, kind, status, ref, counted>>
  BY DEF Predicted, ObserveDuration, scrapeVars
<1>2. PICK h \in Histograms : hist' = [hist EXCEPT ![h] = @ + 1]
  BY DEF Predicted, ObserveDuration, Observe, Histograms
<1>3. \/ /\ pc' = pc /\ job[q] = "running"
         /\ \E x \in {"ok", "failed"} : job' = [job EXCEPT ![q] = x]
      \/ pc[q] = "observe" /\ pc' = [pc EXCEPT ![q] = "done"] /\ job' = job
  BY DEF Predicted, ObserveDuration, Goto
<1>4. Types'
  <2>1. /\ hist \in [Histograms -> Nat]
        /\ pc \in [Requests -> {"new", "pred_lookup", "pred_inc", "predict",
                                 "http_lookup", "http_inc", "observe", "done"}]
        /\ job \in [Requests -> {"none", "running", "failed", "ok", "error"}]
    BY DEF IInv, Types
  <2>2. hist' \in [Histograms -> Nat]
    BY <1>2, <2>1
  <2>3. /\ pc' \in [Requests -> {"new", "pred_lookup", "pred_inc", "predict",
                                  "http_lookup", "http_inc", "observe", "done"}]
        /\ job' \in [Requests -> {"none", "running", "failed", "ok", "error"}]
    BY <1>3, <2>1
  <2> QED
    BY <1>1, <2>2, <2>3 DEF IInv, Types
<1>5. Locking'
  BY <1>1 DEF IInv, Locking, Gathering, Family
<1>6. \A r \in Requests : \/ pc'[r] = pc[r] /\ job'[r] = job[r]
                          \/ pc'[r] = pc[r] /\ job[r] = "running" /\ job'[r] \in {"ok", "failed"}
                          \/ pc'[r] = "done" /\ job'[r] = job[r]
  BY <1>3 DEF IInv, Types
<1>7. OneChild'
  <2>1. \A r \in Requests : pc'[r] \in {"pred_inc", "http_inc"} => Label(r)' = Label(r) /\ pc[r] = pc'[r]
    BY <1>1, <1>6 DEF Label
  <2> QED
    BY <1>1, <2>1 DEF IInv, OneChild
<1>8. Uncounted'
  BY <1>1, <1>6 DEF IInv, Uncounted
<1>9. Exact'
  BY <1>1, ExactKept
<1> QED
  BY <1>4, <1>5, <1>7, <1>8, <1>9 DEF IInv

\* The worker counts its error.
LEMMA ErrorStep ==
  ASSUME IInv, NEW q \in Requests, CountError(q)
  PROVE  IInv'
<1>1. /\ UNCHANGED <<children, hist, lock, registry, at, pc, kind, status, ref>>
      /\ job[q] = "failed" /\ job' = [job EXCEPT ![q] = "error"] /\ IncCounter(q, "error")
  BY DEF CountError, scrapeVars
<1>2. "error" \in Counters /\ <<"error">> \notin counted[q]
  BY <1>1 DEF Counters, IInv, Uncounted
<1>3. Exact' /\ counted' \in [Requests -> SUBSET Keys] /\ counter' \in [Counters -> Nat]
  BY <1>1, <1>2, CounterStep
<1>4. /\ job \in [Requests -> {"none", "running", "failed", "ok", "error"}]
      /\ counted \in [Requests -> SUBSET Keys]
      /\ counted' = [counted EXCEPT ![q] = @ \cup {<<"error">>}]
  BY <1>1 DEF IInv, Types, IncCounter
<1>5. Types'
  BY <1>1, <1>3, <1>4 DEF IInv, Types
<1>6. Locking' /\ OneChild'
  BY <1>1 DEF IInv, Locking, Gathering, Family, OneChild, Label
<1>7. Uncounted'
  <2>1. ASSUME NEW r \in Requests, r # q PROVE UNCHANGED <<pc[r], kind[r], counted[r], job[r]>>
    BY <1>1, <1>4, <2>1
  <2>2. \A x \in Statuses : <<"http", x>> # <<"error">>
    BY <1>2, KeysDiffer
  <2>3. counted'[q] = counted[q] \cup {<<"error">>} /\ job'[q] = "error"
    BY <1>1, <1>4
  <2>4. pc[q] \notin {"new", "pred_lookup", "pred_inc"}
    BY <1>1 DEF IInv, Uncounted
  <2> QED
    BY <1>1, <2>1, <2>2, <2>3, <2>4 DEF IInv, Uncounted
<1> QED
  BY <1>3, <1>5, <1>6, <1>7 DEF IInv

\* A scraper changes locks and its own page.
LEMMA ScrapeStep ==
  ASSUME IInv, NEW s \in Scrapers, Write(s) \/ GatherEnd(s)
  PROVE  IInv'
<1>1. UNCHANGED <<children, counter, hist, pc, kind, status, ref, job, counted>>
  BY DEF Write, GatherEnd, GatherBegin, LockFamily, WriteLine, NextFamily, WriteCounter, requestVars
<1>2. OneChild' /\ Uncounted' /\ Exact'
  BY <1>1, ExactKept DEF IInv, OneChild, Uncounted, Label
<1>3. /\ lock \in [Vectors \cup Histograms -> Scrapers \cup {None}]
      /\ at \in [Scrapers -> 0..Len(Families) + 1] /\ registry \in Scrapers \cup {None}
      /\ None \notin Scrapers
  BY MetricsAssumption DEF IInv, Types
<1>4. /\ Len(Families) = 8
      /\ Families \in [1..8 -> Vectors \cup Histograms \cup Counters \cup {"active_trips"}]
      /\ (Vectors \cup Histograms) \cap Counters = {}
      /\ "active_trips" \notin Vectors \cup Histograms
  BY DEF Families, Vectors, Histograms, Counters
<1>5. /\ \A x \in Scrapers : Gathering(x) => registry = x
      /\ \A f \in Vectors \cup Histograms :
           lock[f] # None => lock[f] \in Scrapers /\ Gathering(lock[f]) /\ Family(lock[f]) = f
  BY <1>3 DEF IInv, Locking
<1>6. CASE GatherBegin(s)
  <2>1. /\ at[s] = 0 /\ registry = None /\ registry' = s /\ at' = [at EXCEPT ![s] = 1] /\ lock' = lock
    BY <1>6 DEF GatherBegin
  <2>2. \A x \in Scrapers : ~Gathering(x)
    BY <1>3, <1>5, <2>1
  <2>3. \A f \in Vectors \cup Histograms : lock[f] = None
    BY <1>5, <2>2
  <2>4. \A x \in Scrapers : Gathering(x)' => x = s
    BY <1>3, <2>1, <2>2 DEF Gathering
  <2>5. Locking'
    BY <2>1, <2>3, <2>4 DEF Locking
  <2>6. Types'
    BY <1>1, <1>3, <1>4, <2>1 DEF IInv, Types
  <2> QED
    BY <1>2, <2>5, <2>6 DEF IInv
<1>7. CASE LockFamily(s)
  <2>1. /\ Gathering(s) /\ Family(s) \in Vectors \cup Histograms
        /\ lock' = [lock EXCEPT ![Family(s)] = s] /\ at' = at /\ registry' = registry
    BY <1>3, <1>7 DEF LockFamily, scrapeVars
  <2>2. Locking'
    BY <1>3, <1>5, <2>1 DEF Locking, Gathering, Family
  <2>3. Types'
    BY <1>1, <1>3, <2>1 DEF IInv, Types
  <2> QED
    BY <1>2, <2>2, <2>3 DEF IInv
<1>8. CASE WriteLine(s)
  <2>1. UNCHANGED <<lock, registry, at>>
    BY <1>8 DEF WriteLine
  <2> QED
    BY <1>1, <1>2, <2>1 DEF IInv, Types, Locking, Gathering, Family
<1>9. CASE NextFamily(s) \/ WriteCounter(s) \/ GatherEnd(s)
  <2>1. /\ Gathering(s) /\ at' = [at EXCEPT ![s] = @ + 1] /\ registry' \in {registry, None}
        /\ lock' \in [Vectors \cup Histograms -> Scrapers \cup {None}]
        /\ \A f \in Vectors \cup Histograms : lock'[f] # None => lock'[f] = lock[f] /\ f # Family(s)
    <3>1. CASE NextFamily(s)
      BY <1>3, <3>1 DEF NextFamily, Written, Inside
    <3>2. CASE WriteCounter(s)
      BY <1>3, <1>4, <3>2 DEF WriteCounter
    <3>3. CASE GatherEnd(s)
      BY <1>3, <1>4, <3>3 DEF GatherEnd
    <3> QED
      BY <1>9, <3>1, <3>2, <3>3
  <2>2. registry' = registry \/ (registry' = None /\ at[s] = 8)
    <3>1. \A i \in 1..8 : Families[i] = "active_trips" => i = 8
      BY DEF Families
    <3>2. GatherEnd(s) => at[s] = 8
      BY <1>4, <3>1 DEF GatherEnd, Gathering, Family
    <3> QED
      BY <1>9, <3>2 DEF NextFamily, WriteCounter, GatherEnd
  <2>3. \A x \in Scrapers : x # s => at'[x] = at[x] /\ ~Gathering(x)
    BY <1>3, <1>5, <2>1
  <2>4. at[s] \in 1..8 /\ at'[s] = at[s] + 1
    BY <1>3, <1>4, <2>1 DEF Gathering
  <2>5. \A f \in Vectors \cup Histograms : lock'[f] = None
    BY <1>3, <1>5, <2>1, <2>3
  <2>6. ASSUME NEW x \in Scrapers, Gathering(x)' PROVE registry' = x
    <3>1. x = s
      BY <2>3, <2>6 DEF Gathering
    <3>2. at[s] # 8
      BY <1>4, <2>4, <2>6, <3>1 DEF Gathering
    <3> QED
      BY <1>5, <2>1, <2>2, <3>1, <3>2
  <2>7. Locking'
    BY <2>5, <2>6 DEF Locking
  <2>8. at' \in [Scrapers -> 0..Len(Families) + 1]
    BY <1>3, <1>4, <2>1, <2>4
  <2>9. Types'
    BY <1>1, <1>3, <2>1, <2>8 DEF IInv, Types
  <2> QED
    BY <1>2, <2>7, <2>9 DEF IInv
<1> QED
  BY <1>6, <1>7, <1>8, <1>9 DEF Write

-----------------------------------------------------------------------------
\* The invariant and the properties

\* No step of a handler, a worker or a scraper breaks the invariant.
LEMMA StepInv == IInv /\ [Next]_vars => IInv'
<1> SUFFICES ASSUME IInv, [Next]_vars PROVE IInv'
  OBVIOUS
<1>1. ASSUME NEW q \in Requests, Request(q) PROVE IInv'
  BY <1>1, HandlerStep, CacheGetStep, LookupStep, IncStep, ObserveStep, ErrorStep DEF Request
<1>2. ASSUME NEW s \in Scrapers, Write(s) \/ GatherEnd(s) PROVE IInv'
  BY <1>2, ScrapeStep
<1>3. CASE UNCHANGED vars
  <2>1. Types' /\ Locking'
    BY <1>3 DEF vars, scrapeVars, requestVars, IInv, Types, Locking, Gathering, Family
  <2>2. OneChild' /\ Uncounted' /\ Exact'
    BY <1>3, ExactKept DEF vars, requestVars, IInv, OneChild, Uncounted, Label
  <2> QED
    BY <2>1, <2>2 DEF IInv
<1> QED
  BY <1>1, <1>2, <1>3 DEF Next, Idle

\* The inductive invariant holds in every reachable state.
LEMMA Invariance == Spec => []IInv
BY InitInv, StepInv, PTL DEF Spec

\* One scraper at a time is in Gather, and it holds the mutex of no other
\* family than the one it writes.
THEOREM TypeCorrect == Spec => []TypeOK
<1>1. IInv => TypeOK
  BY DEF IInv, Types, Locking, TypeOK
<1> QED
  BY <1>1, Invariance, PTL

\* Requests that meet a label first at the same time share its one child, so a
\* counter's value is the number of requests that incremented it.
THEOREM NoCountLostHolds == Spec => []NoCountLost
<1>1. IInv => NoCountLost
  <2> SUFFICES ASSUME IInv PROVE NoCountLost
    OBVIOUS
  <2>1. ASSUME NEW l \in Labels
        PROVE  Cardinality({q \in Requests : l \in counted[q]})
                 = IF children[l] = <<>> THEN 0 ELSE children[l][Len(children[l])]
    <3>1. l \in Keys
      BY DEF Keys
    <3>2. Cardinality({q \in Requests : l \in counted[q]}) = IF children[l] = <<>> THEN 0 ELSE children[l][1]
      <4>1. Cardinality(Counted(l)) = Value(l)
        BY <3>1 DEF IInv, Exact
      <4>2. Counted(l) = {q \in Requests : l \in counted[q]}
        BY DEF Counted
      <4>3. Value(l) = IF children[l] = <<>> THEN 0 ELSE children[l][1]
        BY <2>1 DEF Value
      <4> QED
        BY <4>1, <4>2, <4>3
    <3>3. children[l] # <<>> => Len(children[l]) = 1
      <4>1. children[l] = <<>> \/ \E n \in Nat : children[l] = <<n>>
        BY DEF IInv, OneChild
      <4>2. ASSUME NEW n \in Nat PROVE Len(<<n>>) = 1
        OBVIOUS
      <4> QED
        BY <4>1, <4>2
    <3> QED
      BY <3>2, <3>3
  <2>2. ASSUME NEW c \in Counters PROVE Cardinality({q \in Requests : <<c>> \in counted[q]}) = counter[c]
    BY KeysDiffer DEF Keys, IInv, Exact, Counted, Value
  <2> QED
    BY <2>1, <2>2 DEF NoCountLost
<1> QED
  BY <1>1, Invariance, PTL

-----------------------------------------------------------------------------
\* Causes are counted before their effects

Answering(q) == pc[q] \in {"http_lookup", "http_inc", "observe", "done"}

\* What a request has counted at its place.
CausedBy(q) ==
  /\ \A k \in {"hit", "miss"} : <<"pred", k>> \in counted[q] => <<k>> \in counted[q]
  /\ \A x \in Statuses : <<"http", x>> \in counted[q] => x = status[q] /\ pc[q] \in {"observe", "done"}
  /\ ~Answering(q) => status[q] = "200"
  /\ pc[q] = "predict" \/ (Answering(q) /\ status[q] # "400") =>
       kind[q] \in {"hit", "miss"} /\ <<"pred", kind[q]>> \in counted[q]
  /\ job[q] = "error" \/ (Answering(q) /\ status[q] = "502") => <<"error">> \in counted[q]

Caused == \A q \in Requests : CausedBy(q)

\* The keys are different.
LEMMA KeysApart ==
  /\ \A c, d, x : <<c>> # <<d, x>>
  /\ \A c, d : <<c>> = <<d>> => c = d
  /\ \A c, d, x, y : <<c, x>> = <<d, y>> => c = d /\ x = y
<1>1. \A c, d, x : Len(<<c>>) = 1 /\ Len(<<d, x>>) = 2
  OBVIOUS
<1> QED
  BY <1>1

\* A step of one request that leaves it caused.
LEMMA CausedKept ==
  ASSUME IInv, Caused, NEW q \in Requests, Request(q)
  PROVE  Caused'
<1>1. /\ pc \in [Requests -> {"new", "pred_lookup", "pred_inc", "predict",
                               "http_lookup", "http_inc", "observe", "done"}]
      /\ kind \in [Requests -> {"none", "hit", "miss"}]
      /\ status \in [Requests -> Statuses]
      /\ job \in [Requests -> {"none", "running", "failed", "ok", "error"}]
      /\ counted \in [Requests -> SUBSET Keys]
  BY DEF IInv, Types
<1>2. \A r \in Requests : r # q => UNCHANGED <<pc[r], kind[r], status[r], job[r], counted[r]>>
  <2>1. CASE Invalid(q) \/ Submit(q) \/ Answer(q) \/ Abandon(q)
    <3>1. /\ pc' = pc \/ pc' = [pc EXCEPT ![q] = "http_lookup"]
          /\ status' = status \/ \E x \in Statuses : status' = [status EXCEPT ![q] = x]
          /\ job' = job \/ job' = [job EXCEPT ![q] = "running"]
          /\ UNCHANGED <<kind, counted>>
      BY <2>1 DEF Invalid, Submit, Answer, Abandon, Respond, Goto, Statuses
    <3> QED
      BY <1>1, <3>1
  <2>2. CASE CacheGet(q)
    <3>1. PICK k \in {"hit", "miss"} : kind' = [kind EXCEPT ![q] = k] /\ IncCounter(q, k)
      BY <2>2 DEF CacheGet
    <3> QED
      BY <1>1, <2>2, <3>1 DEF CacheGet, IncCounter, Goto
  <2>3. CASE WithLabelValues(q)
    BY <1>1, <2>3 DEF WithLabelValues, Goto
  <2>4. CASE Inc(q)
    <3>1. counted' = [counted EXCEPT ![q] = @ \cup {Label(q)}] /\ UNCHANGED <<kind, job>>
      BY <2>4 DEF Inc
    <3>2. CASE pc[q] = "http_inc"
      <4>1. pc' = [pc EXCEPT ![q] = "observe"] /\ status' = status
        BY <2>4, <3>2 DEF Inc, Goto
      <4> QED
        BY <1>1, <3>1, <4>1
    <3>3. CASE pc[q] = "pred_inc"
      <4>1. kind[q] \in {"hit", "miss"}
        BY <3>3 DEF IInv, Uncounted
      <4>2. CASE kind[q] = "hit"
        <5>1. pc' = [pc EXCEPT ![q] = "http_lookup"] /\ status' = [status EXCEPT ![q] = "200"]
          BY <2>4, <3>3, <4>2 DEF Inc, Respond, Goto
        <5> QED
          BY <1>1, <3>1, <5>1
      <4>3. CASE kind[q] = "miss"
        <5>1. pc' = [pc EXCEPT ![q] = "predict"] /\ status' = status
          BY <2>4, <3>3, <4>3 DEF Inc, Goto
        <5> QED
          BY <1>1, <3>1, <5>1
      <4> QED
        BY <4>1, <4>2, <4>3
    <3> QED
      BY <2>4, <3>2, <3>3 DEF Inc
  <2>5. CASE Predicted(q) \/ ObserveDuration(q)
    <3>1. /\ pc' = pc \/ pc' = [pc EXCEPT ![q] = "done"]
          /\ job' = job \/ \E x \in {"ok", "failed"} : job' = [job EXCEPT ![q] = x]
          /\ UNCHANGED <<kind, status, counted>>
      BY <2>5 DEF Predicted, ObserveDuration, Goto
    <3> QED
      BY <1>1, <3>1
  <2>6. CASE CountError(q)
    BY <1>1, <2>6 DEF CountError, IncCounter
  <2> QED
    BY <2>1, <2>2, <2>3, <2>4, <2>5, <2>6 DEF Request
<1>3. ~Answering(q) => status[q] = "200"
  BY DEF Caused, CausedBy
<1>4. CausedBy(q)'
  <2>1. CASE Invalid(q)
    <3>1. /\ pc'[q] = "http_lookup" /\ status'[q] = "400" /\ UNCHANGED <<kind, job, counted>>
          /\ counted[q] = {} /\ job[q] = "none"
      BY <1>1, <2>1 DEF Invalid, Respond, Goto, IInv, Uncounted
    <3> QED
      BY <3>1 DEF CausedBy, Answering
  <2>2. CASE CacheGet(q)
    <3>1. PICK k \in {"hit", "miss"} : kind' = [kind EXCEPT ![q] = k] /\ IncCounter(q, k)
      BY <2>2 DEF CacheGet
    <3>2. pc[q] = "new" /\ pc' = [pc EXCEPT ![q] = "pred_lookup"] /\ UNCHANGED <<status, job>>
      BY <2>2 DEF CacheGet, Goto
    <3>3. counted[q] = {} /\ job[q] = "none" /\ status[q] = "200"
      BY <1>3, <3>2 DEF IInv, Uncounted, Answering
    <3>4. counted'[q] = {<<k>>} /\ pc'[q] = "pred_lookup"
      BY <1>1, <3>1, <3>2, <3>3 DEF IncCounter
    <3> QED
      BY <3>2, <3>3, <3>4, KeysApart DEF CausedBy, Answering
  <2>3. CASE WithLabelValues(q)
    <3>1. /\ \/ pc[q] = "pred_lookup" /\ pc'[q] = "pred_inc"
             \/ pc[q] = "http_lookup" /\ pc'[q] = "http_inc"
          /\ UNCHANGED <<kind, status, job, counted>>
      BY <1>1, <2>3 DEF WithLabelValues, Goto
    <3> QED
      BY <3>1 DEF CausedBy, Answering, Caused
  <2>4. CASE Inc(q)
    <3>1. UNCHANGED <<kind, job>> /\ counted'[q] = counted[q] \cup {Label(q)}
      BY <1>1, <2>4 DEF Inc
    <3>2. CASE pc[q] = "pred_inc"
      <4>1. /\ counted[q] = {<<kind[q]>>} /\ kind[q] \in {"hit", "miss"} /\ job[q] = "none"
            /\ Label(q) = <<"pred", kind[q]>> /\ status[q] = "200"
        BY <1>3, <3>2 DEF IInv, Uncounted, Label, Answering
      <4>2. pc'[q] \in {"http_lookup", "predict"} /\ status'[q] = "200"
        BY <1>1, <2>4, <3>2, <4>1 DEF Inc, Respond, Goto
      <4> QED
        BY <3>1, <4>1, <4>2, KeysApart DEF CausedBy, Answering
    <3>3. CASE pc[q] = "http_inc"
      <4>1. Label(q) = <<"http", status[q]>> /\ pc'[q] = "observe" /\ status'[q] = status[q]
        BY <1>1, <2>4, <3>3 DEF Inc, Goto, Label
      <4>2. \A x \in Statuses : <<"http", x>> \notin counted[q]
        BY <3>3 DEF IInv, Uncounted
      <4> QED
        BY <3>1, <3>3, <4>1, <4>2, KeysApart DEF CausedBy, Answering, Caused
    <3> QED
      BY <2>4, <3>2, <3>3 DEF Inc
  <2>5. CASE Submit(q) \/ Answer(q) \/ Abandon(q)
    <3>1. /\ pc[q] = "predict" /\ UNCHANGED <<kind, counted>>
          /\ \/ pc'[q] = "predict" /\ status' = status /\ job'[q] = "running"
             \/ pc'[q] = "http_lookup" /\ status'[q] \in {"200", "503"} /\ job' = job
             \/ pc'[q] = "http_lookup" /\ status'[q] = "502" /\ job' = job /\ job[q] = "error"
      BY <1>1, <1>3, <2>5 DEF Submit, Answer, Abandon, Respond, Goto, Caused, Answering
    <3> QED
      BY <3>1 DEF CausedBy, Answering, Caused
  <2>6. CASE Predicted(q) \/ ObserveDuration(q)
    <3>1. /\ UNCHANGED <<kind, counted, status>>
          /\ \/ pc' = pc /\ job'[q] # "error"
             \/ pc[q] = "observe" /\ pc'[q] = "done" /\ job' = job
      BY <1>1, <2>6 DEF Predicted, ObserveDuration, Goto
    <3> QED
      BY <3>1 DEF CausedBy, Answering, Caused
  <2>7. CASE CountError(q)
    <3>1. UNCHANGED <<pc, kind, status>> /\ counted'[q] = counted[q] \cup {<<"error">>}
      BY <1>1, <2>7 DEF CountError, IncCounter
    <3> QED
      BY <3>1, KeysApart DEF CausedBy, Answering, Caused
  <2> QED
    BY <2>1, <2>2, <2>3, <2>4, <2>5, <2>6, <2>7 DEF Request
<1> QED
  BY <1>2, <1>4 DEF Caused, CausedBy, Answering

\* Counters show no more effects than causes.
LEMMA CausesFirst ==
  ASSUME IInv, Caused
  PROVE  /\ \A k \in Keys : Value(k) \in Nat
         /\ Value(<<"http", "200">>) + Value(<<"http", "502">>) + Value(<<"http", "503">>)
              <= Value(<<"pred", "hit">>) + Value(<<"pred", "miss">>)
         /\ \A k \in {"hit", "miss"} : Value(<<"pred", k>>) <= Value(<<k>>)
         /\ Value(<<"http", "502">>) <= Value(<<"error">>)
<1>1. ASSUME NEW k \in Keys
      PROVE  IsFiniteSet(Counted(k)) /\ Cardinality(Counted(k)) \in Nat /\ Value(k) = Cardinality(Counted(k))
  <2>1. IsFiniteSet(Counted(k))
    BY MetricsAssumption, FS_Subset DEF Counted
  <2> QED
    BY <2>1, FS_CardinalityType DEF IInv, Exact
<1>2. /\ \A x \in Statuses : <<"http", x>> \in Keys
      /\ \A k \in {"hit", "miss"} : <<"pred", k>> \in Keys /\ <<k>> \in Keys
      /\ <<"error">> \in Keys
  BY KeysDiffer DEF Keys, Counters
<1> DEFINE ok == Counted(<<"http", "200">>)
           bad == Counted(<<"http", "502">>)
           full == Counted(<<"http", "503">>)
           hits == Counted(<<"pred", "hit">>)
           misses == Counted(<<"pred", "miss">>)
<1>3. "200" \in Statuses /\ "502" \in Statuses /\ "503" \in Statuses
  BY DEF Statuses
<1>4. ok \cap bad = {} /\ (ok \cup bad) \cap full = {}
  BY <1>3 DEF Caused, CausedBy, Counted
<1>5. (ok \cup bad) \cup full \subseteq hits \cup misses
  BY <1>3 DEF Caused, CausedBy, Counted, Answering
<1>6. Cardinality((ok \cup bad) \cup full) = Cardinality(ok) + Cardinality(bad) + Cardinality(full)
  <2>1. IsFiniteSet(ok) /\ IsFiniteSet(bad) /\ IsFiniteSet(full)
    BY <1>1, <1>2, <1>3
  <2>2. Cardinality(ok \cup bad) = Cardinality(ok) + Cardinality(bad) - Cardinality(ok \cap bad) /\ IsFiniteSet(ok \cup bad)
    BY <2>1, FS_Union
  <2>3. Cardinality((ok \cup bad) \cup full) = Cardinality(ok \cup bad) + Cardinality(full) - Cardinality((ok \cup bad) \cap full)
    BY <2>1, <2>2, FS_Union
  <2> QED
    <3>1. Cardinality(ok) \in Nat /\ Cardinality(bad) \in Nat /\ Cardinality(full) \in Nat
      BY <1>1, <1>2, <1>3
    <3> QED
      BY <1>4, <2>2, <2>3, <3>1, FS_EmptySet
<1>7. Cardinality((ok \cup bad) \cup full) <= Cardinality(hits) + Cardinality(misses)
  <2>1. IsFiniteSet(hits) /\ IsFiniteSet(misses)
    BY <1>1, <1>2
  <2>2. /\ IsFiniteSet(hits \cup misses)
        /\ Cardinality(hits \cup misses) = Cardinality(hits) + Cardinality(misses) - Cardinality(hits \cap misses)
    BY <2>1, FS_Union
  <2>3. Cardinality(hits \cap misses) \in Nat
    BY <2>1, FS_Intersection, FS_CardinalityType
  <2>4. Cardinality((ok \cup bad) \cup full) <= Cardinality(hits \cup misses)
    BY <1>5, <2>2, FS_Subset
  <2>5. Cardinality(hits) \in Nat /\ Cardinality(misses) \in Nat /\ Cardinality((ok \cup bad) \cup full) \in Nat
    BY <1>1, <1>2, <1>3, <1>6
  <2> QED
    BY <2>2, <2>3, <2>4, <2>5
<1>8. ASSUME NEW k \in {"hit", "miss"} PROVE Value(<<"pred", k>>) <= Value(<<k>>)
  <2>1. Counted(<<"pred", k>>) \subseteq Counted(<<k>>)
    BY DEF Caused, CausedBy, Counted
  <2>2. Cardinality(Counted(<<"pred", k>>)) <= Cardinality(Counted(<<k>>))
    BY <1>1, <1>2, <2>1, FS_Subset
  <2> QED
    BY <1>1, <1>2, <2>2
<1>9. Value(<<"http", "502">>) <= Value(<<"error">>)
  <2>1. bad \subseteq Counted(<<"error">>)
    BY <1>3 DEF Caused, CausedBy, Counted, Answering
  <2>2. Cardinality(bad) <= Cardinality(Counted(<<"error">>))
    BY <1>1, <1>2, <2>1, FS_Subset
  <2> QED
    BY <1>1, <1>2, <1>3, <2>2
<1> QED
  BY <1>1, <1>2, <1>3, <1>6, <1>7, <1>8, <1>9
-----------------------------------------------------------------------------
\* What the pages show

\* What the page of s will show of l, a line of family i, if nothing is counted
\* any more: what is written, or else what is to be read.
Reading(s, l, i) ==
  IF l \in DOMAIN page[s] THEN page[s][l] ELSE IF at[s] > i THEN 0 ELSE Value(l)

\* Lines are of the families reached, a counter's of a family left, and of
\* values that counters had.
Lines(s) ==
  /\ \A l \in DOMAIN page[s] :
       /\ page[s][l] \in Nat
       /\ \E i \in 1..at[s] : l[1] = Families[i] /\ (i = at[s] => l[1] \notin Counters)
  /\ \A l \in DOMAIN page[s] \cap Labels : page[s][l] <= Value(l)

\* Causes shown, or to be shown, cover the effects shown.
Effects(s) ==
  /\ Shown(s, <<"http", "200">>) + Shown(s, <<"http", "502">>) + Shown(s, <<"http", "503">>)
       <= Reading(s, <<"pred", "hit">>, 3) + Reading(s, <<"pred", "miss">>, 3)
  /\ Shown(s, <<"pred", "hit">>) <= Reading(s, <<"hit">>, 6)
  /\ Shown(s, <<"pred", "miss">>) <= Reading(s, <<"miss">>, 7)
  /\ Shown(s, <<"http", "502">>) <= Reading(s, <<"error">>, 5)

\* The lines of a histogram are its present value while its mutex is held.
Instant(s) == \A i \in {2, 4} :
  /\ at[s] = i => \A x \in {"inf", "count"} : <<Families[i], x>> \in DOMAIN page[s] =>
                    lock[Families[i]] = s /\ page[s][<<Families[i], x>>] = hist[Families[i]]
  /\ at[s] > i => Shown(s, <<Families[i], "inf">>) = Shown(s, <<Families[i], "count">>)

Pages ==
  /\ Caused
  /\ DOMAIN page = Scrapers
  /\ \A s \in Scrapers : Lines(s) /\ Effects(s) /\ Instant(s)

\* The families, in order.
LEMMA Order ==
  /\ Families[1] = "http" /\ Families[2] = "duration" /\ Families[3] = "pred"
  /\ Families[4] = "latency" /\ Families[5] = "error" /\ Families[6] = "hit"
  /\ Families[7] = "miss" /\ Families[8] = "active_trips" /\ Len(Families) = 8
  /\ \A i, j \in 1..8 : Families[i] = Families[j] => i = j
BY DEF Families

\* A page has no line yet of a family that is to be written.
LEMMA NotYet ==
  ASSUME NEW s \in Scrapers, Lines(s), at[s] \in Nat, NEW i \in 1..8, at[s] < i,
         NEW l, l[1] = Families[i]
  PROVE  l \notin DOMAIN page[s]
<1> SUFFICES ASSUME l \in DOMAIN page[s] PROVE FALSE
  OBVIOUS
<1>1. PICK j \in 1..at[s] : l[1] = Families[j]
  BY DEF Lines
<1>2. j \in 1..8 /\ j # i
  BY <1>1
<1> QED
  BY <1>1, <1>2, Order

\* The lines of a family.
LEMMA LinesOfFamily ==
  ASSUME IInv
  PROVE  /\ \A f \in Vectors, l \in Labels :
              l \in DOMAIN LineValues(f) <=> l[1] = f /\ children[l] # <<>>
         /\ \A f \in Vectors : \A l \in DOMAIN LineValues(f) :
              l \in Labels /\ l[1] = f /\ LineValues(f)[l] = Value(l)
         /\ \A f \in Histograms : DOMAIN LineValues(f) = {f} \X {"inf", "count"}
         /\ \A f \in Histograms : \A l \in DOMAIN LineValues(f) : LineValues(f)[l] = hist[f]
<1>1. Vectors \cap Histograms = {}
  BY DEF Vectors, Histograms
<1>2. ASSUME NEW f \in Vectors
      PROVE  /\ DOMAIN LineValues(f) = {k \in Labels : k[1] = f /\ children[k] # <<>>}
             /\ \A l \in DOMAIN LineValues(f) : LineValues(f)[l] = children[l][Len(children[l])]
  <2>1. f \notin Histograms
    BY <1>1, <1>2
  <2>2. LineValues(f) = [l \in {k \in Labels : k[1] = f /\ children[k] # <<>>} |->
                           children[l][Len(children[l])]]
    BY <1>2, <2>1, Zenon DEF LineValues
  <2> QED
    BY <2>2
<1>3. ASSUME NEW l \in Labels, children[l] # <<>> PROVE children[l][Len(children[l])] = Value(l)
  <2>1. PICK n \in Nat : children[l] = <<n>>
    BY <1>3 DEF IInv, OneChild
  <2>2. Len(children[l]) = 1
    BY <2>1
  <2> QED
    BY <1>3, <2>2 DEF Value
<1>4. ASSUME NEW f \in Histograms
      PROVE  /\ DOMAIN LineValues(f) = {f} \X {"inf", "count"}
             /\ \A l \in DOMAIN LineValues(f) : LineValues(f)[l] = hist[f]
  <2>1. f \notin Vectors
    BY <1>1, <1>4
  <2>2. LineValues(f) = [l \in {f} \X {"inf", "count"} |-> hist[f]]
    BY <1>4, <2>1, Zenon DEF LineValues
  <2> QED
    BY <2>2
<1>5. ASSUME NEW f \in Vectors, NEW l \in DOMAIN LineValues(f)
      PROVE  l \in Labels /\ l[1] = f /\ LineValues(f)[l] = Value(l)
  <2>1. l \in Labels /\ l[1] = f /\ children[l] # <<>>
    BY <1>2, <1>5
  <2>2. LineValues(f)[l] = children[l][Len(children[l])]
    BY <1>2, <1>5
  <2> QED
    BY <1>3, <2>1, <2>2
<1>6. ASSUME NEW f \in Vectors, NEW l \in Labels
      PROVE  l \in DOMAIN LineValues(f) <=> l[1] = f /\ children[l] # <<>>
  BY <1>2, <1>6
<1> QED
  BY <1>4, <1>5, <1>6

\* Values are numbers.
LEMMA Numbers ==
  ASSUME IInv
  PROVE  \A k \in Keys : Value(k) \in Nat
<1>1. \A k \in Keys : IsFiniteSet(Counted(k)) /\ Value(k) = Cardinality(Counted(k))
  BY MetricsAssumption, FS_Subset DEF Counted, IInv, Exact
<1> QED
  BY <1>1, FS_CardinalityType

\* The keys the properties relate.
LEMMA KeysNamed ==
  /\ \A x \in {"200", "502", "503"} : <<"http", x>> \in Keys /\ <<"http", x>> \in Labels
  /\ \A k \in {"hit", "miss"} :
       <<"pred", k>> \in Keys /\ <<"pred", k>> \in Labels /\ <<k>> \in Keys
  /\ <<"error">> \in Keys
BY KeysDiffer DEF Keys, Counters, Statuses

\* An empty page.
LEMMA EmptyPage ==
  ASSUME NEW s \in Scrapers, DOMAIN page[s] = {}, \A k \in Keys : Value(k) \in Nat
  PROVE  Lines(s) /\ Effects(s) /\ Instant(s)
BY KeysNamed DEF Lines, Effects, Instant, Shown, Reading

\* A page that nobody writes, while requests go on.
LEMMA PageKept ==
  ASSUME NEW s \in Scrapers, Lines(s), Effects(s), Instant(s), UNCHANGED <<page[s], at[s]>>,
         \A k \in Keys : Value(k) \in Nat /\ Value(k)' \in Nat /\ Value(k) <= Value(k)',
         \A f \in Vectors \cup Histograms : lock[f] = s => lock'[f] = s,
         \A h \in Histograms : lock[h] = s => hist'[h] = hist[h]
  PROVE  Lines(s)' /\ Effects(s)' /\ Instant(s)'
<1>1. Lines(s)'
  <2>1. \A l \in DOMAIN page[s] \cap Labels : page[s][l] \in Nat /\ page[s][l] <= Value(l) /\ l \in Keys
    BY DEF Lines, Keys
  <2> QED
    BY <2>1 DEF Lines
<1>2. \A l : Shown(s, l)' = Shown(s, l)
  BY DEF Shown
<1>3. \A l \in Keys, i \in 1..8 :
        Reading(s, l, i) \in Nat /\ Reading(s, l, i)' \in Nat /\ Reading(s, l, i) <= Reading(s, l, i)'
  BY DEF Reading, Lines
<1>4. \A l : Shown(s, l) \in Nat
  BY DEF Shown, Lines
<1>5. Effects(s)'
  BY <1>2, <1>3, <1>4, KeysNamed DEF Effects
<1>6. Instant(s)'
  <2>1. Families[2] \in Histograms /\ Families[4] \in Histograms
    BY Order DEF Histograms
  <2> QED
    BY <1>2, <2>1 DEF Instant
<1> QED
  BY <1>1, <1>5, <1>6

-----------------------------------------------------------------------------
\* The steps

\* Requests count, and histograms that are held do not move.
LEMMA RequestPages ==
  ASSUME IInv, IInv', Pages, NEW q \in Requests, Request(q)
  PROVE  Pages'
<1>1. UNCHANGED <<page, at, lock>>
  BY DEF Request, Invalid, CacheGet, WithLabelValues, Inc, Submit, Predicted, CountError,
         Answer, Abandon, ObserveDuration, scrapeVars
<1>2. \A h \in Histograms : lock[h] # None => hist'[h] = hist[h]
  <2>1. hist \in [Histograms -> Nat]
    BY DEF IInv, Types
  <2>2. hist' = hist \/ \E h \in Histograms : lock[h] = None /\ hist' = [hist EXCEPT ![h] = @ + 1]
    BY DEF Request, Invalid, CacheGet, WithLabelValues, Inc, Submit, Predicted, CountError,
           Answer, Abandon, ObserveDuration, Observe, Histograms
  <2> QED
    BY <2>1, <2>2
<1>3. \A r \in Requests : counted[r] \subseteq counted'[r]
  <2>1. counted \in [Requests -> SUBSET Keys]
    BY DEF IInv, Types
  <2>2. counted' = counted \/ \E k : counted' = [counted EXCEPT ![q] = @ \cup {k}]
    <3>1. CASE Inc(q)
      BY <3>1, Zenon DEF Inc
    <3>2. CASE CacheGet(q) \/ CountError(q)
      BY <3>2 DEF CacheGet, CountError, IncCounter
    <3> QED
      BY <3>1, <3>2 DEF Request, Invalid, WithLabelValues, Submit, Predicted, Answer, Abandon,
                        ObserveDuration
  <2> QED
    BY <2>1, <2>2
<1>4. ASSUME NEW k \in Keys PROVE Value(k) \in Nat /\ Value(k)' \in Nat /\ Value(k) <= Value(k)'
  <2>1. Counted(k) \subseteq Counted(k)'
    BY <1>3 DEF Counted
  <2>2. IsFiniteSet(Counted(k)) /\ IsFiniteSet(Counted(k)')
    BY MetricsAssumption, FS_Subset DEF Counted
  <2>3. Cardinality(Counted(k)) = Value(k) /\ Cardinality(Counted(k)') = Value(k)'
    BY DEF IInv, Exact
  <2>4. Cardinality(Counted(k)) <= Cardinality(Counted(k)')
    BY <2>1, <2>2, FS_Subset
  <2> QED
    BY <2>2, <2>3, <2>4, FS_CardinalityType
<1>5. ASSUME NEW s \in Scrapers PROVE Lines(s)' /\ Effects(s)' /\ Instant(s)'
  <2>1. Lines(s) /\ Effects(s) /\ Instant(s) /\ UNCHANGED <<page[s], at[s]>> /\ s # None
    BY <1>1, MetricsAssumption DEF Pages
  <2> QED
    BY <1>1, <1>2, <1>4, <2>1, PageKept
<1>6. Caused'
  BY CausedKept DEF Pages
<1> QED
  BY <1>1, <1>5, <1>6 DEF Pages

\* What a page has after Fprintf.
LEMMA PageWritten ==
  ASSUME NEW s \in Scrapers, DOMAIN page = Scrapers, NEW l, NEW v, WriteTo(s, l, v)
  PROVE  /\ DOMAIN page' = Scrapers
         /\ \A x \in Scrapers : x # s => page'[x] = page[x]
         /\ DOMAIN page'[s] = DOMAIN page[s] \cup {l}
         /\ page'[s][l] = v
         /\ \A m \in DOMAIN page[s] : m # l => page'[s][m] = page[s][m]
<1>1. page' = [page EXCEPT ![s] = [m \in DOMAIN page[s] \cup {l} |-> IF m = l THEN v ELSE page[s][m]]]
  BY DEF WriteTo
<1>2. page'[s] = [m \in DOMAIN page[s] \cup {l} |-> IF m = l THEN v ELSE page[s][m]]
  BY <1>1
<1> QED
  BY <1>1, <1>2

\* A line of a vector or a histogram is written under its mutex.
LEMMA LineStep ==
  ASSUME IInv, Pages, NEW s \in Scrapers, WriteLine(s)
  PROVE  DOMAIN page' = Scrapers /\ Lines(s)' /\ Effects(s)' /\ Instant(s)'
<1> DEFINE f == Family(s)
<1>1. PICK l \in DOMAIN LineValues(f) \ DOMAIN page[s] : WriteTo(s, l, LineValues(f)[l])
  BY DEF WriteLine
<1> DEFINE v == LineValues(f)[l]
<1>2. UNCHANGED <<children, counter, hist, lock, at>> /\ Inside(s)
  BY DEF WriteLine
<1>3. at[s] \in {1, 2, 3, 4} /\ lock[f] = s /\ f = Families[at[s]]
  <2>1. at[s] \in 1..8 /\ lock \in [Vectors \cup Histograms -> Scrapers \cup {None}]
    BY <1>2, Order DEF Inside, Gathering, IInv, Types
  <2> QED
    BY <1>2, <2>1, Order DEF Inside, Family, Vectors, Histograms
<1>4. /\ DOMAIN page = Scrapers /\ Lines(s) /\ Effects(s) /\ Instant(s) /\ Caused
      /\ \A k \in Keys : Value(k) \in Nat /\ Value(k)' = Value(k)
  BY <1>2, Numbers DEF Pages, Value
<1>5. /\ DOMAIN page' = Scrapers
      /\ DOMAIN page'[s] = DOMAIN page[s] \cup {l} /\ page'[s][l] = v
      /\ \A m \in DOMAIN page[s] : m # l => page'[s][m] = page[s][m]
  BY <1>1, <1>4, PageWritten
<1>6. l \notin DOMAIN page[s]
  BY <1>1
<1>7. /\ f \in Vectors => l \in Labels /\ l[1] = f /\ v = Value(l) /\ v \in Nat
      /\ f \in Histograms => l \in {f} \X {"inf", "count"} /\ l[1] = f /\ v = hist[f] /\ v \in Nat
      /\ f \in Vectors \cup Histograms
  <2>1. hist \in [Histograms -> Nat]
    BY DEF IInv, Types
  <2>2. f \in Vectors \cup Histograms
    BY <1>3, Order DEF Vectors, Histograms
  <2>3. f \in Vectors => l \in Labels /\ l[1] = f /\ v = Value(l)
    BY <1>1, LinesOfFamily
  <2>4. f \in Histograms => l \in {f} \X {"inf", "count"} /\ v = hist[f]
    BY <1>1, LinesOfFamily
  <2> QED
    BY <1>4, <2>1, <2>2, <2>3, <2>4 DEF Keys
<1>8. Lines(s)'
  <2>1. ASSUME NEW m \in DOMAIN page'[s]
        PROVE  /\ page'[s][m] \in Nat
               /\ \E i \in 1..at[s] : m[1] = Families[i] /\ (i = at[s] => m[1] \notin Counters)
               /\ m \in Labels => page'[s][m] <= Value(m)
    <3>1. CASE m = l
      <4>1. (l \in Labels => f \in Vectors) /\ f \notin Counters
        BY <1>7 DEF Labels, Vectors, Histograms, Counters
      <4> QED
        BY <1>3, <1>5, <1>7, <3>1, <4>1
    <3>2. CASE m # l
      BY <1>4, <1>5, <3>2 DEF Lines
    <3> QED
      BY <3>1, <3>2
  <2> QED
    BY <1>2, <1>4, <2>1 DEF Lines, Keys
<1>9. /\ \A m : m # l => Shown(s, m)' = Shown(s, m)
      /\ Shown(s, l) = 0 /\ Shown(s, l)' = v
      /\ \A m : Shown(s, m) \in Nat
  BY <1>4, <1>5, <1>6 DEF Shown, Lines
<1>10. ASSUME NEW m \in Keys, NEW i \in 1..8, m[1] = Families[i]
       PROVE  /\ Reading(s, m, i)' = Reading(s, m, i) /\ Reading(s, m, i) \in Nat
              /\ at[s] < i => Reading(s, m, i) = Value(m)
  <2>1. m # l => Reading(s, m, i)' = Reading(s, m, i)
    BY <1>2, <1>4, <1>5 DEF Reading
  <2>2. m = l => at[s] = i /\ f \in Vectors
    BY <1>3, <1>7, <1>10, Order DEF Keys, Labels, Counters, Vectors, Histograms
  <2>3. m = l => Reading(s, m, i)' = Value(m) /\ Reading(s, m, i) = Value(m)
    BY <1>2, <1>4, <1>5, <1>6, <1>7, <2>2 DEF Reading
  <2>4. Reading(s, m, i) \in Nat
    BY <1>4 DEF Reading, Lines
  <2>5. at[s] < i => Reading(s, m, i) = Value(m)
    BY <1>3, <1>4, <1>10, NotYet DEF Reading
  <2> QED
    BY <2>1, <2>3, <2>4, <2>5
<1>11. Effects(s)'
  <2>1. \A m \in Labels : Shown(s, m) <= Value(m)
    BY <1>4 DEF Lines, Shown, Keys
  <2>2. \A m \in Labels : Shown(s, m)' <= Value(m) /\ Shown(s, m)' \in Nat
    BY <1>4, <1>7, <1>9, <2>1 DEF Keys, Labels, Vectors, Histograms
  <2>3. /\ Reading(s, <<"pred", "hit">>, 3)' = Reading(s, <<"pred", "hit">>, 3)
        /\ Reading(s, <<"pred", "miss">>, 3)' = Reading(s, <<"pred", "miss">>, 3)
        /\ Reading(s, <<"pred", "hit">>, 3) \in Nat /\ Reading(s, <<"pred", "miss">>, 3) \in Nat
        /\ at[s] < 3 => /\ Reading(s, <<"pred", "hit">>, 3) = Value(<<"pred", "hit">>)
                        /\ Reading(s, <<"pred", "miss">>, 3) = Value(<<"pred", "miss">>)
        /\ Reading(s, <<"hit">>, 6)' = Reading(s, <<"hit">>, 6) /\ Reading(s, <<"hit">>, 6) = Value(<<"hit">>)
        /\ Reading(s, <<"miss">>, 7)' = Reading(s, <<"miss">>, 7) /\ Reading(s, <<"miss">>, 7) = Value(<<"miss">>)
        /\ Reading(s, <<"error">>, 5)' = Reading(s, <<"error">>, 5) /\ Reading(s, <<"error">>, 5) = Value(<<"error">>)
    BY <1>3, <1>10, Order, KeysNamed
  <2>4. /\ Shown(s, <<"http", "200">>)' <= Value(<<"http", "200">>) /\ Shown(s, <<"http", "200">>)' \in Nat
        /\ Shown(s, <<"http", "502">>)' <= Value(<<"http", "502">>) /\ Shown(s, <<"http", "502">>)' \in Nat
        /\ Shown(s, <<"http", "503">>)' <= Value(<<"http", "503">>) /\ Shown(s, <<"http", "503">>)' \in Nat
        /\ Shown(s, <<"pred", "hit">>)' <= Value(<<"pred", "hit">>) /\ Shown(s, <<"pred", "hit">>)' \in Nat
        /\ Shown(s, <<"pred", "miss">>)' <= Value(<<"pred", "miss">>) /\ Shown(s, <<"pred", "miss">>)' \in Nat
    BY <2>2, KeysNamed
  <2>5. /\ Value(<<"http", "200">>) + Value(<<"http", "502">>) + Value(<<"http", "503">>)
             <= Value(<<"pred", "hit">>) + Value(<<"pred", "miss">>)
        /\ Value(<<"pred", "hit">>) <= Value(<<"hit">>) /\ Value(<<"pred", "miss">>) <= Value(<<"miss">>)
        /\ Value(<<"http", "502">>) <= Value(<<"error">>)
        /\ Value(<<"http", "200">>) \in Nat /\ Value(<<"http", "502">>) \in Nat /\ Value(<<"http", "503">>) \in Nat
        /\ Value(<<"pred", "hit">>) \in Nat /\ Value(<<"pred", "miss">>) \in Nat
        /\ Value(<<"hit">>) \in Nat /\ Value(<<"miss">>) \in Nat /\ Value(<<"error">>) \in Nat
    BY <1>4, CausesFirst, KeysNamed
  <2>6. CASE at[s] = 1
    <3>1. l[1] = "http"
      BY <1>3, <1>7, <2>6, Order
    <3>2. \A k : <<"pred", k>> \notin DOMAIN page[s] /\ <<"pred", k>> # l
      BY <1>4, <2>6, <3>1, Order, NotYet
    <3>3. Shown(s, <<"pred", "hit">>) = 0 /\ Shown(s, <<"pred", "miss">>) = 0
      BY <3>2 DEF Shown
    <3>4. Shown(s, <<"pred", "hit">>)' = 0 /\ Shown(s, <<"pred", "miss">>)' = 0
      BY <1>9, <3>2, <3>3
    <3>5. /\ Shown(s, <<"pred", "hit">>)' = 0 /\ Shown(s, <<"pred", "miss">>)' = 0
          /\ Reading(s, <<"pred", "hit">>, 3)' = Value(<<"pred", "hit">>)
          /\ Reading(s, <<"pred", "miss">>, 3)' = Value(<<"pred", "miss">>)
      BY <2>3, <2>6, <3>4
    <3> QED
      BY <2>3, <2>4, <2>5, <3>5 DEF Effects
  <2>7. CASE at[s] = 3
    <3>1. l[1] = "pred"
      BY <1>3, <1>7, <2>7, Order
    <3>2. \A x : <<"http", x>> # l
      BY <3>1
    <3>3. /\ Shown(s, <<"http", "200">>)' = Shown(s, <<"http", "200">>)
          /\ Shown(s, <<"http", "502">>)' = Shown(s, <<"http", "502">>)
          /\ Shown(s, <<"http", "503">>)' = Shown(s, <<"http", "503">>)
      BY <1>9, <3>2
    <3> QED
      BY <1>4, <2>3, <2>4, <2>5, <3>3 DEF Effects
  <2>8. CASE at[s] \in {2, 4}
    <3>1. l[1] \in {"duration", "latency"}
      BY <1>3, <1>7, <2>8, Order
    <3>2. \A x : <<"http", x>> # l /\ <<"pred", x>> # l
      BY <3>1
    <3>3. /\ Shown(s, <<"http", "200">>)' = Shown(s, <<"http", "200">>)
          /\ Shown(s, <<"http", "502">>)' = Shown(s, <<"http", "502">>)
          /\ Shown(s, <<"http", "503">>)' = Shown(s, <<"http", "503">>)
          /\ Shown(s, <<"pred", "hit">>)' = Shown(s, <<"pred", "hit">>)
          /\ Shown(s, <<"pred", "miss">>)' = Shown(s, <<"pred", "miss">>)
      BY <1>9, <3>2
    <3> QED
      BY <1>4, <2>3, <3>3 DEF Effects
  <2> QED
    BY <1>3, <2>6, <2>7, <2>8
<1>12. Instant(s)'
  <2>1. ASSUME NEW i \in {2, 4}, at[s] = i, NEW x \in {"inf", "count"},
               <<Families[i], x>> \in DOMAIN page'[s]
        PROVE  lock[Families[i]] = s /\ page'[s][<<Families[i], x>>] = hist[Families[i]]
    <3>1. f \in Histograms /\ f = Families[i]
      BY <1>3, <2>1, Order DEF Histograms
    <3>2. CASE <<Families[i], x>> = l
      BY <1>3, <1>5, <1>7, <3>1, <3>2
    <3>3. CASE <<Families[i], x>> # l
      BY <1>4, <1>5, <2>1, <3>3 DEF Instant
    <3> QED
      BY <3>2, <3>3
  <2>2. ASSUME NEW i \in {2, 4}, at[s] > i
        PROVE  Shown(s, <<Families[i], "inf">>)' = Shown(s, <<Families[i], "count">>)'
    <3>1. l[1] # Families[i]
      BY <1>3, <1>7, <2>2, Order
    <3>2. <<Families[i], "inf">> # l /\ <<Families[i], "count">> # l
      BY <3>1
    <3>3. Shown(s, <<Families[i], "inf">>) = Shown(s, <<Families[i], "count">>)
      BY <1>4, <2>2 DEF Instant
    <3> QED
      BY <1>9, <3>2, <3>3
  <2> QED
    BY <1>2, <2>1, <2>2 DEF Instant
<1> QED
  BY <1>5, <1>8, <1>11, <1>12

\* A counter is read and written.
LEMMA CounterLine ==
  ASSUME IInv, Pages, NEW s \in Scrapers, WriteCounter(s)
  PROVE  DOMAIN page' = Scrapers /\ Lines(s)' /\ Effects(s)' /\ Instant(s)'
<1> DEFINE c == Family(s)
           l == <<c>>
<1>1. WriteTo(s, l, counter[c]) /\ UNCHANGED <<children, counter, hist, lock>>
  BY DEF WriteCounter
<1>2. at[s] \in {5, 6, 7} /\ c = Families[at[s]] /\ c \in Counters /\ at'[s] = at[s] + 1
  <2>1. at[s] \in 1..8 /\ c \in Counters /\ at \in [Scrapers -> 0..9]
    BY Order DEF WriteCounter, Gathering, IInv, Types
  <2>2. at'[s] = at[s] + 1
    BY <2>1 DEF WriteCounter
  <2> QED
    BY <2>1, <2>2, Order DEF Family, Counters
<1>3. /\ DOMAIN page = Scrapers /\ Lines(s) /\ Effects(s) /\ Instant(s)
      /\ \A k \in Keys : Value(k) \in Nat /\ Value(k)' = Value(k)
  BY <1>1, Numbers DEF Pages, Value
<1>4. l \in Keys /\ Value(l) = counter[c] /\ l \notin Labels /\ counter[c] \in Nat
  BY <1>2, KeysDiffer DEF Keys, Value, IInv, Types
<1>5. /\ DOMAIN page' = Scrapers
      /\ DOMAIN page'[s] = DOMAIN page[s] \cup {l} /\ page'[s][l] = counter[c]
      /\ \A m \in DOMAIN page[s] : m # l => page'[s][m] = page[s][m]
  BY <1>1, <1>3, PageWritten
<1>6. l \notin DOMAIN page[s]
  BY <1>2, <1>3, Order DEF Lines
<1>7. Lines(s)'
  <2>1. ASSUME NEW m \in DOMAIN page'[s]
        PROVE  /\ page'[s][m] \in Nat /\ \E i \in 1..at[s] : m[1] = Families[i]
               /\ m \in Labels => page'[s][m] <= Value(m)
    <3>1. CASE m = l
      BY <1>2, <1>4, <1>5, <3>1
    <3>2. CASE m # l
      BY <1>3, <1>5, <3>2 DEF Lines
    <3> QED
      BY <3>1, <3>2
  <2> QED
    BY <1>2, <1>3, <2>1 DEF Lines, Keys
<1>8. \A m : Len(m) = 2 => Shown(s, m)' = Shown(s, m)
  <2>1. Len(l) = 1
    OBVIOUS
  <2> QED
    BY <1>3, <1>5, <2>1 DEF Shown
<1>9. ASSUME NEW m \in Keys, NEW i \in 1..8, m[1] = Families[i], i = at[s] => m = l
      PROVE  Reading(s, m, i)' = Reading(s, m, i)
  <2>1. CASE m = l
    <3>1. i = at[s]
      BY <1>2, <1>9, <2>1, Order
    <3> QED
      BY <1>2, <1>3, <1>4, <1>5, <1>6, <2>1, <3>1 DEF Reading
  <2>2. CASE m # l
    BY <1>2, <1>3, <1>5, <1>9, <2>2 DEF Reading
  <2> QED
    BY <2>1, <2>2
<1>10. Effects(s)'
  <2>1. /\ Shown(s, <<"http", "200">>)' = Shown(s, <<"http", "200">>)
        /\ Shown(s, <<"http", "502">>)' = Shown(s, <<"http", "502">>)
        /\ Shown(s, <<"http", "503">>)' = Shown(s, <<"http", "503">>)
        /\ Shown(s, <<"pred", "hit">>)' = Shown(s, <<"pred", "hit">>)
        /\ Shown(s, <<"pred", "miss">>)' = Shown(s, <<"pred", "miss">>)
    BY <1>8
  <2>2. /\ Reading(s, <<"pred", "hit">>, 3)' = Reading(s, <<"pred", "hit">>, 3)
        /\ Reading(s, <<"pred", "miss">>, 3)' = Reading(s, <<"pred", "miss">>, 3)
    BY <1>2, <1>9, Order, KeysNamed
  <2>3. /\ Reading(s, <<"hit">>, 6)' = Reading(s, <<"hit">>, 6)
        /\ Reading(s, <<"miss">>, 7)' = Reading(s, <<"miss">>, 7)
        /\ Reading(s, <<"error">>, 5)' = Reading(s, <<"error">>, 5)
    BY <1>2, <1>9, Order, KeysNamed
  <2> QED
    BY <1>3, <2>1, <2>2, <2>3 DEF Effects
<1>11. Instant(s)'
  <2>1. ASSUME NEW i \in {2, 4}, at[s] + 1 > i
        PROVE  Shown(s, <<Families[i], "inf">>)' = Shown(s, <<Families[i], "count">>)'
    <3>1. Shown(s, <<Families[i], "inf">>) = Shown(s, <<Families[i], "count">>)
      BY <1>2, <1>3 DEF Instant
    <3>2. Len(<<Families[i], "inf">>) = 2 /\ Len(<<Families[i], "count">>) = 2
      OBVIOUS
    <3> QED
      BY <1>8, <3>1, <3>2
  <2> QED
    BY <1>2, <2>1 DEF Instant
<1> QED
  BY <1>5, <1>7, <1>10, <1>11

\* A family is left when each of its lines is written.
LEMMA LeaveFamily ==
  ASSUME IInv, Pages, NEW s \in Scrapers, NextFamily(s)
  PROVE  Lines(s)' /\ Effects(s)' /\ Instant(s)'
<1> DEFINE f == Family(s)
<1>1. UNCHANGED <<children, counter, hist, page>> /\ Written(s) /\ Inside(s)
  BY DEF NextFamily, Written
<1>2. at[s] \in {1, 2, 3, 4} /\ f = Families[at[s]] /\ lock[f] = s /\ at'[s] = at[s] + 1
  <2>1. /\ at[s] \in 1..8 /\ lock \in [Vectors \cup Histograms -> Scrapers \cup {None}]
        /\ at \in [Scrapers -> 0..9]
    BY <1>1, Order DEF Inside, Gathering, IInv, Types
  <2>2. at'[s] = at[s] + 1
    BY <2>1 DEF NextFamily
  <2> QED
    BY <1>1, <2>1, <2>2, Order DEF Inside, Family, Vectors, Histograms
<1>3. /\ Lines(s) /\ Effects(s) /\ Instant(s)
      /\ \A k \in Keys : Value(k) \in Nat /\ Value(k)' = Value(k)
  BY <1>1, Numbers DEF Pages, Value
<1>4. f \notin Counters
  BY <1>2, Order DEF Counters
<1>5. Lines(s)'
  <2>1. ASSUME NEW m \in DOMAIN page[s]
        PROVE  /\ page[s][m] \in Nat /\ \E i \in 1..at[s] : m[1] = Families[i]
               /\ m \in Labels => page[s][m] <= Value(m)
    BY <1>3 DEF Lines
  <2> QED
    BY <1>1, <1>2, <1>3, <2>1 DEF Lines, Keys
<1>6. \A m : Shown(s, m)' = Shown(s, m)
  BY <1>1 DEF Shown
<1>7. ASSUME NEW m \in Keys, NEW i \in 1..8, m[1] = Families[i], i = at[s] => m \in Labels
      PROVE  Reading(s, m, i)' = Reading(s, m, i)
  <2>1. CASE i = at[s] /\ m \notin DOMAIN page[s]
    <3>1. f \in Vectors /\ m[1] = f
      BY <1>2, <1>7, <2>1, Order DEF Labels, Vectors
    <3>2. m \notin DOMAIN LineValues(f)
      BY <1>1, <2>1 DEF Written
    <3>3. children[m] = <<>>
      BY <1>7, <2>1, <3>1, <3>2, LinesOfFamily
    <3>4. Value(m) = 0
      BY <1>7, <2>1, <3>3 DEF Value
    <3> QED
      BY <1>1, <1>2, <2>1, <3>4 DEF Reading
  <2>2. CASE i # at[s] \/ m \in DOMAIN page[s]
    BY <1>1, <1>2, <1>3, <2>2 DEF Reading
  <2> QED
    BY <2>1, <2>2
<1>8. Effects(s)'
  <2>1. /\ Reading(s, <<"pred", "hit">>, 3)' = Reading(s, <<"pred", "hit">>, 3)
        /\ Reading(s, <<"pred", "miss">>, 3)' = Reading(s, <<"pred", "miss">>, 3)
    BY <1>7, Order, KeysNamed
  <2>2. /\ Reading(s, <<"hit">>, 6)' = Reading(s, <<"hit">>, 6)
        /\ Reading(s, <<"miss">>, 7)' = Reading(s, <<"miss">>, 7)
        /\ Reading(s, <<"error">>, 5)' = Reading(s, <<"error">>, 5)
    BY <1>2, <1>7, Order, KeysNamed
  <2> QED
    BY <1>3, <1>6, <2>1, <2>2 DEF Effects
<1>9. Instant(s)'
  <2>1. ASSUME NEW i \in {2, 4}, at[s] + 1 > i
        PROVE  Shown(s, <<Families[i], "inf">>) = Shown(s, <<Families[i], "count">>)
    <3>1. CASE at[s] = i
      <4>1. f \in Histograms
        BY <1>2, <3>1, Order DEF Histograms
      <4>2. <<f, "inf">> \in DOMAIN page[s] /\ <<f, "count">> \in DOMAIN page[s]
        <5>1. DOMAIN LineValues(f) = {f} \X {"inf", "count"} /\ DOMAIN LineValues(f) \subseteq DOMAIN page[s]
          BY <1>1, <4>1, LinesOfFamily DEF Written
        <5>2. <<f, "inf">> \in {f} \X {"inf", "count"} /\ <<f, "count">> \in {f} \X {"inf", "count"}
          OBVIOUS
        <5> QED
          BY <5>1, <5>2
      <4> QED
        BY <1>2, <1>3, <3>1, <4>2 DEF Instant, Shown
    <3>2. CASE at[s] # i
      BY <1>2, <1>3, <2>1, <3>2 DEF Instant
    <3> QED
      BY <3>1, <3>2
  <2>2. ASSUME NEW i \in {2, 4}, at[s] + 1 = i, NEW x
        PROVE  <<Families[i], x>> \notin DOMAIN page[s]
    BY <1>2, <1>3, <2>2, NotYet
  <2> QED
    BY <1>1, <1>2, <1>6, <2>1, <2>2 DEF Instant
<1> QED
  BY <1>5, <1>8, <1>9

\* A step of a scraper.
LEMMA ScrapePages ==
  ASSUME IInv, Pages, NEW s \in Scrapers, Write(s) \/ GatherEnd(s)
  PROVE  Pages'
<1>1. UNCHANGED <<children, counter, hist, pc, kind, status, ref, job, counted>>
  BY DEF Write, GatherEnd, GatherBegin, LockFamily, WriteLine, NextFamily, WriteCounter, requestVars
<1>2. Caused'
  BY <1>1 DEF Pages, Caused, CausedBy, Answering
<1>3. /\ \A x \in Scrapers : Lines(x) /\ Effects(x) /\ Instant(x)
      /\ DOMAIN page = Scrapers /\ None \notin Scrapers
      /\ lock \in [Vectors \cup Histograms -> Scrapers \cup {None}]
      /\ at \in [Scrapers -> 0..9]
  BY MetricsAssumption, Order DEF Pages, IInv, Types
<1>4. \A k \in Keys : Value(k) \in Nat /\ Value(k)' = Value(k) /\ Value(k) <= Value(k)'
  BY <1>1, Numbers DEF Value
<1>5. DOMAIN page' = Scrapers /\ \A x \in Scrapers : x # s => page'[x] = page[x]
  <2>1. CASE page' = page
    BY <1>3, <2>1
  <2>2. CASE WriteLine(s) \/ WriteCounter(s)
    BY <1>3, <2>2, PageWritten DEF WriteLine, WriteCounter
  <2>3. CASE GatherEnd(s)
    BY <1>3, <2>3 DEF GatherEnd
  <2> QED
    BY <2>1, <2>2, <2>3 DEF Write, GatherBegin, LockFamily, NextFamily, scrapeVars
<1>6. /\ \A x \in Scrapers : x # s => at'[x] = at[x]
      /\ \A x \in Scrapers, f \in Vectors \cup Histograms :
           lock[f] = x => lock'[f] = x \/ (x = s /\ NextFamily(s))
  <2>1. at' = at \/ \E n : at' = [at EXCEPT ![s] = n]
    BY DEF Write, GatherBegin, LockFamily, WriteLine, NextFamily, WriteCounter, GatherEnd, scrapeVars
  <2>2. ASSUME NEW x \in Scrapers, NEW f \in Vectors \cup Histograms, lock[f] = x
        PROVE  lock'[f] = x \/ (x = s /\ NextFamily(s))
    <3>1. CASE LockFamily(s)
      BY <1>3, <2>2, <3>1 DEF LockFamily
    <3>2. CASE NextFamily(s)
      BY <1>3, <2>2, <3>2 DEF NextFamily, Written, Inside
    <3> QED
      BY <2>2, <3>1, <3>2 DEF Write, GatherBegin, WriteLine, WriteCounter, GatherEnd
  <2> QED
    BY <1>3, <2>1, <2>2
<1>7. ASSUME NEW x \in Scrapers, x # s PROVE Lines(x)' /\ Effects(x)' /\ Instant(x)'
  BY <1>1, <1>3, <1>4, <1>5, <1>6, <1>7, PageKept
<1>8. Lines(s)' /\ Effects(s)' /\ Instant(s)'
  <2>1. CASE GatherBegin(s) \/ GatherEnd(s)
    <3>1. DOMAIN page'[s] = {}
      <4>1. CASE GatherBegin(s)
        <5>1. at[s] = 0 /\ page'[s] = page[s]
          BY <4>1 DEF GatherBegin
        <5> QED
          BY <1>3, <5>1 DEF Lines
      <4>2. CASE GatherEnd(s)
        <5>1. page'[s] = <<>>
          BY <1>3, <4>2 DEF GatherEnd
        <5> QED
          BY <5>1
      <4> QED
        BY <2>1, <4>1, <4>2
    <3>2. \A k \in Keys : Value(k)' \in Nat
      BY <1>4
    <3> QED
      BY <3>1, <3>2, KeysNamed DEF Lines, Effects, Instant, Shown, Reading
  <2>2. CASE LockFamily(s)
    BY <1>1, <1>3, <1>4, <1>6, <2>2, PageKept DEF LockFamily, scrapeVars, NextFamily
  <2>3. CASE WriteLine(s)
    BY <2>3, LineStep
  <2>4. CASE WriteCounter(s)
    BY <2>4, CounterLine
  <2>5. CASE NextFamily(s)
    BY <2>5, LeaveFamily
  <2> QED
    BY <2>1, <2>2, <2>3, <2>4, <2>5 DEF Write
<1> QED
  BY <1>2, <1>5, <1>7, <1>8 DEF Pages

-----------------------------------------------------------------------------
\* No page shows an effect without its cause, and a histogram is of one instant.
THEOREM ScrapeConsistentHolds == Spec => []ScrapeConsistent
<1>1. Init => Pages
  <2> SUFFICES ASSUME Init PROVE Pages
    OBVIOUS
  <2>1. Caused
    BY DEF Init, Caused, CausedBy, Answering
  <2>2. \A k \in Keys : Value(k) \in Nat
    BY InitInv, Numbers
  <2>3. DOMAIN page = Scrapers /\ \A s \in Scrapers : DOMAIN page[s] = {}
    BY DEF Init
  <2> QED
    BY <2>1, <2>2, <2>3, EmptyPage DEF Pages
<1>2. IInv /\ Pages /\ IInv' /\ [Next]_vars => Pages'
  <2> SUFFICES ASSUME IInv, Pages, IInv', [Next]_vars PROVE Pages'
    OBVIOUS
  <2>1. ASSUME NEW q \in Requests, Request(q) PROVE Pages'
    BY <2>1, RequestPages
  <2>2. ASSUME NEW s \in Scrapers, Write(s) \/ GatherEnd(s) PROVE Pages'
    BY <2>2, ScrapePages
  <2>3. CASE UNCHANGED vars
    <3>1. Caused' /\ DOMAIN page' = Scrapers
      BY <2>3 DEF vars, scrapeVars, requestVars, Pages, Caused, CausedBy, Answering
    <3>2. ASSUME NEW s \in Scrapers PROVE Lines(s)' /\ Effects(s)' /\ Instant(s)'
      <4>1. \A k \in Keys : Value(k) \in Nat /\ Value(k)' \in Nat /\ Value(k) <= Value(k)'
        BY <2>3, Numbers DEF vars, Value
      <4> QED
        BY <2>3, <4>1, PageKept DEF vars, scrapeVars, Pages
    <3> QED
      BY <3>1, <3>2 DEF Pages
  <2> QED
    BY <2>1, <2>2, <2>3 DEF Next, Idle
<1>3. IInv /\ Pages => ScrapeConsistent
  <2> SUFFICES ASSUME IInv, Pages, NEW s \in Scrapers, Gathering(s), Family(s) = "active_trips"
               PROVE  /\ Shown(s, <<"http", "200">>) + Shown(s, <<"http", "502">>) + Shown(s, <<"http", "503">>)
                           <= Shown(s, <<"pred", "hit">>) + Shown(s, <<"pred", "miss">>)
                      /\ \A k \in {"hit", "miss"} : Shown(s, <<"pred", k>>) <= Shown(s, <<k>>)
                      /\ Shown(s, <<"http", "502">>) <= Shown(s, <<"error">>)
                      /\ \A h \in Histograms : Shown(s, <<h, "inf">>) = Shown(s, <<h, "count">>)
    BY DEF ScrapeConsistent
  <2>1. at[s] = 8
    BY Order DEF Gathering, Family
  <2>2. \A m, i : i \in 1..7 => Reading(s, m, i) = Shown(s, m)
    BY <2>1 DEF Reading, Shown
  <2>3. Effects(s) /\ Instant(s)
    BY DEF Pages
  <2>4. \A h \in Histograms : h = Families[2] \/ h = Families[4]
    BY Order DEF Histograms
  <2> QED
    BY <2>1, <2>2, <2>3, <2>4 DEF Effects, Instant
<1> QED
  BY <1>1, <1>2, <1>3, Invariance, PTL DEF Spec
=============================================================================

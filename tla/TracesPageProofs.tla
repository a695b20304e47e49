-------------------------- MODULE TracesPageProofs --------------------------
(***************************************************************************)
(* Proofs about the Traces page and its paginated query for every set of   *)
(* traces, projects, filters and page sizes and any number of requests.    *)
(***************************************************************************)
EXTENDS TracesPage, FiniteSetTheorems, SequenceTheorems, TLAPS

Cursors == Traces \cup {NoCursor}
Queries == [project : Projects, filter : Filters]
ListRow == [trace : Traces, query : Queries]
SentRequest == [status : {"sent"}, append : BOOLEAN, cursor : Cursors, query : Queries, size : PageSizes]
OkRequest == [status : {"ok"}, append : BOOLEAN, query : Queries,
              page : [rows : Seq(Traces), next : Cursors], base : SUBSET Traces]
RefusedRequest == [status : {"refused"}, append : BOOLEAN]

(* Type correctness of the page. *)
TypeInv ==
    /\ stored \in SUBSET Traces
    /\ project \in Projects
    /\ filter \in Filters
    /\ pageSize \in PageSizes
    /\ spans \in Seq(ListRow)
    /\ nextCursor \in Cursors
    /\ loading \in BOOLEAN
    /\ requestSeq \in 0..MaxSeq
    /\ requests \in [1..MaxSeq -> {Idle} \cup SentRequest \cup OkRequest \cup RefusedRequest]
    /\ base \in SUBSET stored

(* The traces that the query q reads from S after the cursor c. *)
Found(S, q, c) == {t \in S : Owner[t] = q.project /\ (c = NoCursor \/ Beyond(t, c))}

(* What the answer to q after the cursor c promises about the traces S     *)
(* that were stored: rows in order, and none skipped before the last row.  *)
PageSound(page, S, q, c) ==
    /\ page.rows \in Seq(Traces)
    /\ page.next # NoCursor => page.rows # <<>> /\ page.next = page.rows[Len(page.rows)]
    /\ \A i \in 1..Len(page.rows) : page.rows[i] \in Found(S, q, c)
    /\ \A i, j \in 1..Len(page.rows) : i < j => Newer(page.rows[i], page.rows[j])
    /\ q.filter = NoFilter => \A t \in Found(S, q, c) :
        /\ page.rows # <<>>
        /\ Ordered(t, page.rows[Len(page.rows)]) => \E i \in 1..Len(page.rows) : page.rows[i] = t

(* The cursor that the latest request continues from. *)
From(r) == IF r.append THEN nextCursor ELSE NoCursor

LatestOK(r) ==
    /\ loading <=> r.status # "none"
    /\ r.status # "none" =>
        /\ r.append => nextCursor # NoCursor
        /\ ~r.append => queryState = "pending"
    /\ r.status = "sent" => r.query = Query /\ r.cursor = From(r)
    /\ r.status = "ok" =>
        /\ r.query = Query
        /\ PageSound(r.page, r.base, r.query, From(r))
        /\ r.base \subseteq stored
        /\ r.append => base \subseteq r.base

(* The latest request, whose answer is the only one to be shown, asks what *)
(* the page asks now and continues the list that is on screen now.         *)
LatestInv ==
    /\ loading => requestSeq # 0
    /\ requestSeq # 0 => LatestOK(requests[requestSeq])

(* The cursor is the last row's, and an empty list that was answered is    *)
(* empty for a reason.                                                     *)
ListInv ==
    /\ nextCursor # NoCursor => spans # <<>> /\ nextCursor = spans[Len(spans)].trace
    /\ \A i \in 1..Len(spans) : spans[i].trace \in stored
    /\ spans = <<>> /\ queryState = "resolved" /\ filter = NoFilter => \A t \in base : Owner[t] # project

DistinctStarts == \A s, t \in stored : s # t => StartTime[s] # StartTime[t]

(* The rows all answer the unfiltered query of project p. *)
Uniform(p) == \A i \in 1..Len(spans) : spans[i].query = [project |-> p, filter |-> NoFilter]

(* An unfiltered list of one project, even one left behind, goes back in   *)
(* time without a gap.                                                     *)
ChainInv ==
    \A p \in Projects : spans # <<>> /\ Uniform(p) /\ DistinctStarts =>
        /\ \A i, j \in 1..Len(spans) : i < j => StartTime[spans[j].trace] < StartTime[spans[i].trace]
        /\ \A t \in base : Owner[t] = p /\ StartTime[t] >= StartTime[spans[Len(spans)].trace]
                => \E i \in 1..Len(spans) : spans[i].trace = t

(* The inductive invariant. *)
IInv == TypeInv /\ LatestInv /\ ListInv /\ ChainInv

-----------------------------------------------------------------------------
(* The order of the rows.                                                  *)

LEMMA NewerOrder ==
    /\ \A s \in Traces : ~Newer(s, s)
    /\ \A s, t \in Traces : s = t \/ Newer(s, t) \/ Newer(t, s)
    /\ \A s, t, u \in Traces : Newer(s, t) /\ Newer(t, u) => Newer(s, u)
  <1>1. \A t \in Traces : StartTime[t] \in Nat /\ t \in Nat
    BY ConstantsAssumption
  <1>2. QED  BY <1>1 DEF Newer

LEMMA FiniteTraces ==
    ASSUME NEW S \in SUBSET Traces
    PROVE  IsFiniteSet(S) /\ Cardinality(S) \in Nat
  BY ConstantsAssumption, FS_Subset, FS_CardinalityType

(* A row has fewer rows before it than the rows after it have. *)
LEMMA RankOrder ==
    ASSUME NEW S \in SUBSET Traces, NEW s \in S
    PROVE  /\ Rank(s, S) \in 0..(Cardinality(S) - 1)
           /\ \A t \in S : Newer(s, t) => Rank(s, S) < Rank(t, S)
  <1> DEFINE Before(t) == {u \in S : Newer(u, t)}
  <1>1. \A t \in S : Before(t) \in SUBSET S /\ Cardinality(Before(t)) \in Nat /\ IsFiniteSet(Before(t))
    BY FiniteTraces
  <1>2. Cardinality(Before(s)) <= Cardinality(S) /\ Cardinality(Before(s)) # Cardinality(S)
    <2>1. s \notin Before(s)
      BY NewerOrder
    <2>2. QED  BY <1>1, <2>1, FiniteTraces, FS_Subset
  <1>3. ASSUME NEW t \in S, Newer(s, t) PROVE Cardinality(Before(s)) < Cardinality(Before(t))
    <2>1. Before(s) \in SUBSET Before(t)
      BY <1>3, NewerOrder
    <2>2. s \in Before(t) /\ s \notin Before(s)
      BY <1>3, NewerOrder
    <2>3. Cardinality(Before(s)) <= Cardinality(Before(t)) /\ Cardinality(Before(s)) # Cardinality(Before(t))
      BY <1>1, <2>1, <2>2, FS_Subset
    <2>4. QED  BY <1>1, <2>3
  <1>4. QED  BY <1>1, <1>2, <1>3, FiniteTraces DEF Rank

(* ORDER BY returns every row once, in order. *)
LEMMA OrderBySorts ==
    ASSUME NEW S \in SUBSET Traces
    PROVE  /\ OrderBy(S) \in [1..Cardinality(S) -> S]
           /\ \A t \in S : \E i \in 1..Cardinality(S) : OrderBy(S)[i] = t
           /\ \A i, j \in 1..Cardinality(S) : i < j => Newer(OrderBy(S)[i], OrderBy(S)[j])
           /\ \A i \in 1..Cardinality(S) : Rank(OrderBy(S)[i], S) = i - 1
  <1> DEFINE n == Cardinality(S)
             rank == [t \in S |-> Rank(t, S)]
  <1>1. n \in Nat /\ IsFiniteSet(S)
    BY FiniteTraces
  <1>2. rank \in [S -> 0..(n - 1)]
    BY RankOrder
  <1>3. \A s, t \in S : Rank(s, S) = Rank(t, S) => s = t
    <2>1. \A s, t \in S : s # t => Newer(s, t) \/ Newer(t, s)
      BY NewerOrder
    <2>2. QED  BY <1>1, <2>1, RankOrder
  <1>4. rank \in Injection(S, 0..(n - 1))
    BY <1>2, <1>3 DEF Injection, IsInjective
  <1>5. IsFiniteSet(0..(n - 1)) /\ Cardinality(0..(n - 1)) = n
    BY <1>1, FS_Interval
  <1>6. rank \in Surjection(S, 0..(n - 1))
    BY <1>4, <1>5, FS_Injection
  <1>7. \A i \in 1..n : \E t \in S : Rank(t, S) = i - 1
    <2>1. \A k \in 0..(n - 1) : \E t \in S : Rank(t, S) = k
      BY <1>6 DEF Surjection
    <2>2. \A i \in 1..n : i - 1 \in 0..(n - 1)
      BY <1>1
    <2>3. QED  BY <2>1, <2>2
  <1>8. \A i \in 1..n : OrderBy(S)[i] \in S /\ Rank(OrderBy(S)[i], S) = i - 1
    BY <1>7 DEF OrderBy
  <1>9. ASSUME NEW t \in S PROVE \E i \in 1..n : OrderBy(S)[i] = t
    <2>1. Rank(t, S) + 1 \in 1..n
      BY <1>1, RankOrder
    <2>2. Rank(OrderBy(S)[Rank(t, S) + 1], S) = Rank(t, S)
      BY <1>1, <1>8, <2>1, RankOrder
    <2>3. QED  BY <1>3, <1>8, <2>1, <2>2
  <1>10. ASSUME NEW i \in 1..n, NEW j \in 1..n, i < j PROVE Newer(OrderBy(S)[i], OrderBy(S)[j])
    <2> DEFINE s == OrderBy(S)[i]
               t == OrderBy(S)[j]
    <2>1. s \in S /\ t \in S /\ Rank(s, S) < Rank(t, S)
      BY <1>1, <1>8, <1>10
    <2>2. s # t /\ ~Newer(t, s)
      BY <1>1, <2>1, RankOrder
    <2>3. QED  BY <2>1, <2>2, NewerOrder
  <1>11. QED  BY <1>8, <1>9, <1>10 DEF OrderBy

-----------------------------------------------------------------------------
(* A page has its rows in order, skips no match before its last row, and   *)
(* hands out the cursor of that row.                                       *)
LEMMA PageIsSound ==
    ASSUME stored \in SUBSET Traces, NEW r \in SentRequest
    PROVE  /\ PageSound(Page(r), stored, r.query, r.cursor)
           /\ Page(r) \in [rows : Seq(Traces), next : Cursors]
  <1> DEFINE found == Found(stored, r.query, r.cursor)
             one == {t \in found : Rank(t, found) <= r.size}
             main == one \cap Matches[r.query.filter]
             n == Cardinality(main)
             s == OrderBy(main)
  <1>1. /\ found \in SUBSET Traces /\ found \in SUBSET stored
        /\ one \in SUBSET found /\ main \in SUBSET found /\ main \in SUBSET Traces
    BY DEF Found
  <1>2. MainRows(r) = s
    BY DEF MainRows, PhaseOne, Found
  <1>3. n \in Nat /\ r.size \in Nat \ {0}
    BY <1>1, FiniteTraces, ConstantsAssumption DEF SentRequest
  <1>4. /\ s \in [1..n -> main]
        /\ \A t \in main : \E i \in 1..n : s[i] = t
        /\ \A i, j \in 1..n : i < j => Newer(s[i], s[j])
    BY <1>1, OrderBySorts
  <1>5. s \in Seq(Traces) /\ Len(s) = n
    <2>1. s \in [1..n -> Traces]
      BY <1>1, <1>4
    <2>2. QED  BY <1>3, <2>1
  <1>6. /\ \A t \in one : t \in found /\ Rank(t, found) <= r.size
        /\ \A t \in found : Rank(t, found) <= r.size => t \in one
        /\ r.query.filter = NoFilter => main = one
        /\ found # {} => \E u \in found : Rank(u, found) = 0
    <2>1. r.query.filter = NoFilter => main = one
      BY <1>1, ConstantsAssumption
    <2>2. ASSUME found # {} PROVE \E u \in found : Rank(u, found) = 0
      <3> HIDE DEF found
      <3>1. Cardinality(found) \in Nat /\ Cardinality(found) # 0
        BY <1>1, <2>2, FiniteTraces, FS_EmptySet
      <3>2. 1 \in 1..Cardinality(found)
        BY <3>1
      <3>3. OrderBy(found)[1] \in found /\ Rank(OrderBy(found)[1], found) = 0
        <4>1. OrderBy(found) \in [1..Cardinality(found) -> found]
          BY <1>1, OrderBySorts
        <4>2. Rank(OrderBy(found)[1], found) = 1 - 1
          BY <1>1, <3>2, OrderBySorts
        <4>3. QED  BY <3>2, <4>1, <4>2
      <3>4. QED  BY <3>3
    <2>3. QED  BY <2>1, <2>2
  <1>7. main # {} => n # 0
    <2> HIDE DEF main
    <2>1. QED  BY <1>1, FiniteTraces, FS_EmptySet
  <1>8. \A t \in found : t \in stored /\ t \in Traces
    BY <1>1
  <1>9. \A t \in main : t \in one /\ t \in Traces
    BY <1>1
  <1> HIDE DEF found, one, main, n, s
  <1>10. PICK rows, next :
        /\ Page(r) = [rows |-> rows, next |-> next]
        /\ rows \in Seq(Traces)
        /\ Len(rows) = IF n > r.size THEN r.size ELSE n
        /\ \A i \in 1..Len(rows) : i \in 1..n /\ rows[i] = s[i]
        /\ next = IF n > r.size THEN s[r.size] ELSE NoCursor
    <2>1. CASE n > r.size
      <3>1. Page(r) = [rows |-> SubSeq(s, 1, r.size), next |-> s[r.size]]
        BY <1>2, <1>5, <2>1 DEF Page
      <3>2. \A i \in 1..r.size : s[i] \in Traces /\ i \in 1..n
        BY <1>3, <1>4, <1>9, <2>1
      <3>3. /\ SubSeq(s, 1, r.size) \in Seq(Traces) /\ Len(SubSeq(s, 1, r.size)) = r.size
            /\ \A i \in 1..r.size : SubSeq(s, 1, r.size)[i] = s[i]
        BY <1>3, <3>2, SubSeqProperties
      <3>4. QED  BY <2>1, <3>1, <3>2, <3>3
    <2>2. CASE ~(n > r.size)
      <3>1. Page(r) = [rows |-> s, next |-> NoCursor]
        BY <1>2, <1>5, <2>2 DEF Page
      <3>2. QED  BY <1>5, <2>2, <3>1
    <2>3. QED  BY <2>1, <2>2
  <1>11. rows = <<>> <=> Len(rows) = 0
    BY <1>10
  <1>12. next # NoCursor => rows # <<>> /\ next = rows[Len(rows)]
    BY <1>3, <1>10, <1>11
  <1>13. Page(r) \in [rows : Seq(Traces), next : Cursors]
    <2>1. n > r.size => r.size \in 1..n
      BY <1>3
    <2>2. n > r.size => s[r.size] \in Traces
      BY <1>4, <1>9, <2>1
    <2>3. QED  BY <1>10, <2>2 DEF Cursors
  <1>14. \A i \in 1..Len(rows) : rows[i] \in found
    BY <1>1, <1>4, <1>10
  <1>15. \A i, j \in 1..Len(rows) : i < j => Newer(rows[i], rows[j])
    BY <1>4, <1>10
  <1>16. ASSUME r.query.filter = NoFilter, NEW t \in found
         PROVE  /\ rows # <<>>
                /\ Ordered(t, rows[Len(rows)]) => \E i \in 1..Len(rows) : rows[i] = t
    <2>1. main = one
      BY <1>16, <1>6
    <2>2. rows # <<>>
      <3>1. \E u \in found : Rank(u, found) = 0
        BY <1>16, <1>6
      <3>2. main # {}
        BY <1>3, <1>6, <2>1, <3>1
      <3>3. n # 0
        BY <1>7, <3>2
      <3>4. QED  BY <1>3, <1>10, <1>11, <3>3
    <2>3. ASSUME Ordered(t, rows[Len(rows)]) PROVE \E i \in 1..Len(rows) : rows[i] = t
      <3> DEFINE k == Len(rows)
      <3>1. k \in 1..Len(rows) /\ k \in 1..n /\ rows[k] = s[k] /\ s[k] \in main
        BY <1>3, <1>4, <1>10, <1>11, <2>2
      <3>2. t \in main
        <4>1. Rank(s[k], found) <= r.size /\ s[k] \in found
          BY <1>6, <2>1, <3>1
        <4>2. CASE t = s[k]
          BY <3>1, <4>2
        <4>3. CASE Newer(t, s[k])
          <5>1. Rank(t, found) \in Int /\ Rank(s[k], found) \in Int /\ Rank(t, found) < Rank(s[k], found)
            <6>1. Cardinality(found) \in Nat
              BY <1>1, FiniteTraces
            <6>2. \A u \in found : Rank(u, found) \in 0..(Cardinality(found) - 1)
              BY <1>1, RankOrder
            <6>3. Rank(t, found) < Rank(s[k], found)
              BY <1>1, <1>16, <4>1, <4>3, RankOrder
            <6>4. QED  BY <1>16, <4>1, <6>1, <6>2, <6>3
          <5>2. QED  BY <1>3, <1>6, <2>1, <4>1, <5>1
        <4>4. QED  BY <2>3, <3>1, <4>2, <4>3 DEF Ordered
      <3>3. PICK i \in 1..n : s[i] = t
        BY <1>4, <3>2
      <3>4. ~Newer(s[k], s[i])
        <4>1. t \in Traces /\ s[k] \in Traces
          BY <1>9, <3>1, <3>2
        <4>2. QED  BY <2>3, <3>1, <3>3, <4>1, NewerOrder DEF Ordered
      <3>5. i <= k
        BY <1>3, <1>4, <3>1, <3>4
      <3>6. QED  BY <1>3, <1>10, <3>1, <3>3, <3>5
    <2>4. QED  BY <2>2, <2>3
  <1>17. found = Found(stored, r.query, r.cursor) /\ Page(r).rows = rows /\ Page(r).next = next
    BY <1>10 DEF found
  <1>18. PageSound(Page(r), stored, r.query, r.cursor)
    BY <1>10, <1>12, <1>14, <1>15, <1>16, <1>17 DEF PageSound
  <1>19. QED  BY <1>13, <1>18

-----------------------------------------------------------------------------
LEMMA InitIInv == Init => IInv
  <1> SUFFICES ASSUME Init PROVE IInv
    OBVIOUS
  <1>1. TypeInv
    <2>1. <<>> \in Seq(ListRow) /\ 0 \in 0..MaxSeq
      BY ConstantsAssumption
    <2>2. QED  BY <2>1, ConstantsAssumption DEF Init, TypeInv, Cursors
  <1>2. LatestInv
    BY DEF Init, LatestInv
  <1>3. ListInv /\ ChainInv
    BY DEF Init, ListInv, ChainInv
  <1>4. QED  BY <1>1, <1>2, <1>3 DEF IInv

(* The kind of a request is in its status. *)
LEMMA RequestKinds ==
    ASSUME TypeInv, NEW n \in 1..MaxSeq
    PROVE  /\ requests[n].status = "sent" => requests[n] \in SentRequest
           /\ requests[n].status = "ok" => requests[n] \in OkRequest
           /\ requests[n].status = "refused" => requests[n] \in RefusedRequest
  BY DEF TypeInv, Idle, SentRequest, OkRequest, RefusedRequest

(* A new request makes every other one obsolete. *)
LEMMA FetchIInv ==
    ASSUME IInv, NEW cursor \in Cursors, NEW append \in BOOLEAN,
           project' \in Projects, filter' \in Filters, pageSize' \in PageSizes,
           FetchSpans(cursor, append, Query', pageSize'),
           append => cursor = nextCursor /\ nextCursor # NoCursor /\ UNCHANGED <<project, filter>>,
           ~append => cursor = NoCursor,
           UNCHANGED <<stored, spans, nextCursor, base>>
    PROVE  IInv'
  <1> USE DEF IInv
  <1> DEFINE sent == Sent(append, cursor, Query', pageSize')
             n == requestSeq + 1
  <1>1. n \in 1..MaxSeq /\ n # 0
    BY ConstantsAssumption DEF FetchSpans, TypeInv
  <1>2. /\ requestSeq' = n /\ loading' = TRUE
        /\ queryState' = IF append THEN queryState ELSE "pending"
        /\ requests' = [requests EXCEPT ![n] = sent]
    BY DEF FetchSpans
  <1>3. Query' \in Queries
    BY DEF Query, Queries
  <1>4. sent \in SentRequest
    BY <1>3 DEF Sent, SentRequest
  <1>5. TypeInv'
    <2>1. requests' \in [1..MaxSeq -> {Idle} \cup SentRequest \cup OkRequest \cup RefusedRequest]
      BY <1>2, <1>4 DEF TypeInv
    <2>2. requestSeq' \in 0..MaxSeq
      BY <1>1, <1>2, ConstantsAssumption
    <2>3. QED  BY <1>2, <2>1, <2>2 DEF TypeInv
  <1>6. LatestInv'
    <2>1. requests'[requestSeq'] = sent
      BY <1>1, <1>2 DEF TypeInv
    <2>2. /\ sent.status = "sent" /\ sent.append = append /\ sent.cursor = cursor
          /\ sent.query = Query'
      BY DEF Sent
    <2>3. PICK q : q = sent
      OBVIOUS
    <2>4. q.status = "sent" /\ q.append = append /\ q.cursor = cursor /\ q.query = Query'
      BY <2>2, <2>3
    <2>5. LatestOK(q)'
      <3> HIDE DEF sent, n
      <3>1. q.status # "none" /\ q.status # "ok"
        BY <2>4
      <3>2. From(q)' = cursor
        BY <2>4 DEF From
      <3>3. ~append => queryState' = "pending"
        BY <1>2
      <3>4. append => nextCursor' # NoCursor
        OBVIOUS
      <3>5. QED  BY <1>2, <2>4, <3>1, <3>2, <3>3, <3>4 DEF LatestOK
    <2>6. requests'[requestSeq'] = q /\ requestSeq' # 0
      BY <1>1, <1>2, <2>1, <2>3
    <2>7. QED  BY <2>5, <2>6 DEF LatestInv
  <1>7. ListInv'
    BY <1>2 DEF ListInv
  <1>8. ChainInv'
    BY DEF ChainInv, Uniform, DistinctStarts
  <1>9. QED  BY <1>5, <1>6, <1>7, <1>8

LEMMA UnmountIInv ==
    ASSUME IInv, Unmount
    PROVE  IInv'
  <1> USE DEF IInv
  <1>1. TypeInv'
    <2>1. <<>> \in Seq(ListRow) /\ 0 \in 0..MaxSeq
      BY ConstantsAssumption
    <2>2. QED  BY <2>1, ConstantsAssumption DEF Unmount, TypeInv, Cursors
  <1>2. LatestInv' /\ ListInv' /\ ChainInv'
    BY DEF Unmount, LatestInv, ListInv, ChainInv
  <1>3. QED  BY <1>1, <1>2

(* More traces make no statement about the past untrue. *)
LEMMA IngestIInv ==
    ASSUME IInv, NEW t \in Traces, Ingest(t)
    PROVE  IInv'
  <1> USE DEF IInv, Ingest, pageVars
  <1>1. stored \subseteq stored' /\ (DistinctStarts' => DistinctStarts)
    BY DEF DistinctStarts
  <1>2. TypeInv'
    BY DEF TypeInv
  <1>3. LatestInv'
    <2>1. \A r : LatestOK(r) => LatestOK(r)'
      BY <1>1 DEF LatestOK, From, Query
    <2>2. QED  BY <2>1 DEF LatestInv
  <1>4. ListInv'
    BY <1>1 DEF ListInv
  <1>5. ChainInv'
    BY <1>1 DEF ChainInv, Uniform
  <1>6. QED  BY <1>2, <1>3, <1>4, <1>5

(* The server's answer is a sound page of what is stored. *)
LEMMA AnswerIInv ==
    ASSUME IInv, NEW n \in 1..MaxSeq, Answer(n)
    PROVE  IInv'
  <1> USE DEF IInv
  <1> DEFINE r == requests[n]
             ok == [status |-> "ok", append |-> r.append, query |-> r.query, page |-> Page(r), base |-> stored]
             refused == [status |-> "refused", append |-> r.append]
  <1>1. r.status = "sent" /\ r \in SentRequest
    BY RequestKinds DEF Answer
  <1>2. UNCHANGED <<stored, mounted, project, filter, pageSize, spans, nextCursor, loading, queryState, requestSeq, base>>
    BY DEF Answer
  <1>3. \E a \in {ok, refused} : requests' = [requests EXCEPT ![n] = a]
    BY DEF Answer
  <1>4. PageSound(Page(r), stored, r.query, r.cursor) /\ Page(r) \in [rows : Seq(Traces), next : Cursors]
    BY <1>1, PageIsSound DEF TypeInv
  <1>5. ok \in OkRequest /\ refused \in RefusedRequest
    BY <1>1, <1>4 DEF OkRequest, RefusedRequest, SentRequest, TypeInv
  <1>6. TypeInv'
    <2>1. requests' \in [1..MaxSeq -> {Idle} \cup SentRequest \cup OkRequest \cup RefusedRequest]
      BY <1>3, <1>5 DEF TypeInv
    <2>2. QED  BY <1>2, <2>1 DEF TypeInv
  <1>7. LatestInv'
    <2>1. CASE n # requestSeq
      <3>1. requestSeq # 0 => requests'[requestSeq] = requests[requestSeq]
        BY <1>3, <2>1 DEF TypeInv
      <3>2. \A q : LatestOK(q) => LatestOK(q)'
        BY <1>2 DEF LatestOK, From, Query
      <3>3. QED  BY <1>2, <3>1, <3>2 DEF LatestInv
    <2>2. CASE n = requestSeq
      <3>1. requests'[n] = ok \/ requests'[n] = refused
        BY <1>3 DEF TypeInv
      <3>2. LatestOK(r)
        BY <2>2 DEF LatestInv
      <3>3. r.query = Query /\ r.cursor = From(r) /\ loading
        BY <1>1, <3>2 DEF LatestOK
      <3>4. PICK q : q = requests'[n]
        OBVIOUS
      <3>5. q.status # "none" /\ q.append = r.append /\ From(q)' = From(r)
        BY <1>2, <3>1, <3>4 DEF From
      <3>6. CASE q = ok
        <4>1. q.status = "ok" /\ q.query = r.query /\ q.page = Page(r) /\ q.base = stored
          BY <3>6
        <4> HIDE DEF ok, refused
        <4>2. q.query = Query' /\ q.base \subseteq stored' /\ base' \subseteq q.base
          BY <1>2, <3>3, <4>1 DEF Query, TypeInv
        <4>3. PageSound(q.page, q.base, q.query, From(q)')
          BY <1>4, <3>3, <3>5, <4>1
        <4>4. r.append => nextCursor' # NoCursor
          BY <1>1, <1>2, <3>2 DEF LatestOK
        <4>5. ~r.append => queryState' = "pending"
          BY <1>1, <1>2, <3>2 DEF LatestOK
        <4>6. LatestOK(q)'
          <5> HIDE DEF r
          <5>1. QED  BY <1>2, <3>3, <3>5, <4>1, <4>2, <4>3, <4>4, <4>5 DEF LatestOK
        <4>7. QED  BY <1>2, <2>2, <3>4, <4>6, <1>6, <3>3 DEF LatestInv
      <3>7. CASE q = refused
        <4>1. q.status = "refused"
          BY <3>7
        <4> HIDE DEF ok, refused
        <4>2. r.append => nextCursor' # NoCursor
          BY <1>1, <1>2, <3>2 DEF LatestOK
        <4>3. ~r.append => queryState' = "pending"
          BY <1>1, <1>2, <3>2 DEF LatestOK
        <4>4. LatestOK(q)'
          <5> HIDE DEF r
          <5>1. QED  BY <1>2, <3>3, <3>5, <4>1, <4>2, <4>3 DEF LatestOK
        <4>5. QED  BY <1>2, <2>2, <3>4, <4>4 DEF LatestInv
      <3>8. QED  BY <3>1, <3>4, <3>6, <3>7
    <2>3. QED  BY <2>1, <2>2
  <1>8. ListInv'
    BY <1>2 DEF ListInv
  <1>9. ChainInv'
    BY <1>2 DEF ChainInv, Uniform, DistinctStarts
  <1>10. QED  BY <1>6, <1>7, <1>8, <1>9

-----------------------------------------------------------------------------
(* The rows of an answer, as they enter the list. *)
LEMMA TaggedRows ==
    ASSUME NEW r \in OkRequest
    PROVE  /\ Tagged(r) \in Seq(ListRow)
           /\ Len(Tagged(r)) = Len(r.page.rows)
           /\ \A i \in 1..Len(r.page.rows) :
                Tagged(r)[i] = [trace |-> r.page.rows[i], query |-> r.query]
  <1> DEFINE rows == r.page.rows
  <1>1. rows \in Seq(Traces) /\ r.query \in Queries /\ Len(rows) \in Nat
    BY DEF OkRequest
  <1>2. \A i \in 1..Len(rows) : rows[i] \in Traces
    BY <1>1
  <1>3. Tagged(r) = [i \in 1..Len(rows) |-> [trace |-> rows[i], query |-> r.query]]
    BY DEF Tagged
  <1> HIDE DEF rows
  <1>4. Tagged(r) \in [1..Len(rows) -> ListRow]
    BY <1>1, <1>2, <1>3 DEF ListRow
  <1>5. Tagged(r) \in Seq(ListRow) /\ Len(Tagged(r)) = Len(rows)
    BY <1>1, <1>4
  <1>6. QED  BY <1>3, <1>5 DEF rows

(* A page that goes back in time from its cursor without a gap. *)
Backwards(page, S, q, c) ==
    /\ \A i, j \in 1..Len(page.rows) :
        i < j => StartTime[page.rows[j]] < StartTime[page.rows[i]]
    /\ c # NoCursor => \A i \in 1..Len(page.rows) : StartTime[page.rows[i]] < StartTime[c]
    /\ \A t \in S : /\ Owner[t] = q.project
                    /\ c = NoCursor \/ StartTime[t] < StartTime[c]
                    /\ StartTime[t] >= StartTime[page.rows[Len(page.rows)]]
        => \E i \in 1..Len(page.rows) : page.rows[i] = t

(* A sound page of an unfiltered query is one, where no two traces started *)
(* in the same instant.                                                    *)
LEMMA PageChain ==
    ASSUME TypeInv, DistinctStarts,
           NEW S \in SUBSET stored, NEW q \in Queries, NEW c \in Cursors, NEW page,
           PageSound(page, S, q, c), q.filter = NoFilter,
           c # NoCursor => c \in stored
    PROVE  Backwards(page, S, q, c)
  <1> DEFINE rows == page.rows
  <1>1. /\ rows \in Seq(Traces) /\ Len(rows) \in Nat
        /\ \A i \in 1..Len(rows) : rows[i] \in Found(S, q, c)
        /\ \A i, j \in 1..Len(rows) : i < j => Newer(rows[i], rows[j])
        /\ \A t \in Found(S, q, c) :
            /\ rows # <<>>
            /\ Ordered(t, rows[Len(rows)]) => \E i \in 1..Len(rows) : rows[i] = t
    BY DEF PageSound
  <1> HIDE DEF rows
  <1>2. \A t \in stored : t \in Traces /\ t \in Nat /\ StartTime[t] \in Nat
    BY ConstantsAssumption DEF TypeInv
  <1>3. \A i \in 1..Len(rows) : rows[i] \in stored
    BY <1>1 DEF Found
  <1>4. \A s, t \in stored : Newer(s, t) => StartTime[t] < StartTime[s]
    <2>1. \A s, t \in stored : Newer(s, t) => s # t
      BY <1>2, NewerOrder
    <2>2. QED  BY <1>2, <2>1 DEF Newer, DistinctStarts
  <1>5. ASSUME NEW i \in 1..Len(rows), NEW j \in 1..Len(rows), i < j
        PROVE  StartTime[rows[j]] < StartTime[rows[i]]
    BY <1>1, <1>3, <1>4, <1>5
  <1>6. ASSUME c # NoCursor, NEW i \in 1..Len(rows)
        PROVE  StartTime[rows[i]] < StartTime[c]
    <2>1. Beyond(rows[i], c) /\ rows[i] \in stored /\ c \in stored
      BY <1>1, <1>3, <1>6 DEF Found
    <2>2. QED  BY <1>2, <2>1 DEF Beyond, DistinctStarts
  <1>7. ASSUME NEW t \in S, Owner[t] = q.project,
               c = NoCursor \/ StartTime[t] < StartTime[c],
               StartTime[t] >= StartTime[rows[Len(rows)]]
        PROVE  \E i \in 1..Len(rows) : rows[i] = t
    <2>1. t \in Found(S, q, c)
      BY <1>7 DEF Found, Beyond
    <2>2. rows # <<>>
      BY <1>1, <2>1
    <2>3. Len(rows) \in 1..Len(rows)
      BY <1>1, <2>2
    <2>4. rows[Len(rows)] \in stored /\ t \in stored
      BY <1>3, <2>3
    <2>5. Ordered(t, rows[Len(rows)])
      BY <1>2, <1>7, <2>4 DEF Ordered, Newer, DistinctStarts
    <2>6. QED  BY <1>1, <2>1, <2>5
  <1>8. QED  BY <1>5, <1>6, <1>7 DEF rows, Backwards

(* What every end of a request does to the requests. *)
LEMMA EndedTypes ==
    ASSUME IInv, NEW n \in 1..MaxSeq, Finally(n), Keep,
           spans' \in Seq(ListRow), nextCursor' \in Cursors, base' \in SUBSET stored
    PROVE  TypeInv' /\ (n = requestSeq => LatestInv')
  <1>1. requests' = [requests EXCEPT ![n] = Idle] /\ loading' = IF n = requestSeq THEN FALSE ELSE loading
    BY DEF Finally, Current
  <1>2. TypeInv'
    <2>1. requests' \in [1..MaxSeq -> {Idle} \cup SentRequest \cup OkRequest \cup RefusedRequest]
      BY <1>1 DEF IInv, TypeInv
    <2>2. loading' \in BOOLEAN
      BY <1>1 DEF IInv, TypeInv
    <2>3. QED  BY <2>1, <2>2 DEF IInv, TypeInv, Keep
  <1>3. ASSUME n = requestSeq PROVE LatestInv'
    <2>1. requests'[requestSeq'] = Idle /\ loading' = FALSE
      BY <1>1, <1>3 DEF IInv, TypeInv, Keep
    <2>2. LatestOK(Idle)'
      BY <2>1 DEF LatestOK, Idle
    <2>3. QED  BY <2>1, <2>2 DEF LatestInv
  <1>4. QED  BY <1>2, <1>3

(* An answer that is too old changes nothing that is shown. *)
LEMMA ObsoleteIInv ==
    ASSUME IInv, NEW n \in 1..MaxSeq, n # requestSeq, Return(n)
    PROVE  IInv' /\ UNCHANGED <<spans, queryState, loading>>
  <1> USE DEF IInv
  <1>1. UNCHANGED <<spans, nextCursor, queryState, base>> /\ Finally(n) /\ Keep
    BY DEF Return, FetchSucceeds, FetchRefused, FetchFails, BodyFails, Current
  <1>2. TypeInv'
    <2>1. spans' \in Seq(ListRow) /\ nextCursor' \in Cursors /\ base' \in SUBSET stored
      BY <1>1 DEF TypeInv
    <2>2. QED  BY <1>1, <2>1, EndedTypes
  <1>3. loading' = loading /\ requests' = [requests EXCEPT ![n] = Idle]
    BY <1>1 DEF Finally, Current
  <1>4. LatestInv'
    <2>1. requestSeq # 0 => requests'[requestSeq] = requests[requestSeq]
      BY <1>3 DEF TypeInv
    <2>2. \A q : LatestOK(q) => LatestOK(q)'
      BY <1>1, <1>3 DEF LatestOK, From, Query, Keep
    <2>3. QED  BY <1>1, <1>3, <2>1, <2>2 DEF LatestInv, Keep
  <1>5. ListInv'
    BY <1>1 DEF ListInv, Keep
  <1>6. ChainInv'
    BY <1>1 DEF ChainInv, Uniform, DistinctStarts, Keep
  <1>7. QED  BY <1>1, <1>2, <1>3, <1>4, <1>5, <1>6

(* An answer that does not come, or is an error: a list that is kept stays *)
(* as it was, and an empty one is not called answered.                     *)
LEMMA FailureIInv ==
    ASSUME IInv, NEW n \in 1..MaxSeq, n = requestSeq,
           FetchRefused(n) \/ FetchFails(n) \/ BodyFails(n)
    PROVE  IInv'
  <1> USE DEF IInv
  <1>1. Finally(n) /\ Keep /\ UNCHANGED base
    BY DEF FetchRefused, FetchFails, BodyFails
  <1>2. \/ /\ spans' = <<>> /\ nextCursor' = NoCursor /\ queryState' = "error"
        \/ /\ UNCHANGED <<spans, nextCursor>>
           /\ queryState' = "error" \/ queryState' = queryState
    BY DEF FetchRefused, FetchFails, BodyFails
  <1>3. TypeInv' /\ LatestInv'
    <2>1. <<>> \in Seq(ListRow) /\ NoCursor \in Cursors
      BY DEF Cursors
    <2>2. spans' \in Seq(ListRow) /\ nextCursor' \in Cursors /\ base' \in SUBSET stored
      BY <1>1, <1>2, <2>1 DEF TypeInv
    <2>3. QED  BY <1>1, <2>2, EndedTypes
  <1>4. CASE spans' = <<>> /\ nextCursor' = NoCursor /\ queryState' = "error"
    <2>1. ListInv' /\ ChainInv'
      BY <1>4 DEF ListInv, ChainInv
    <2>2. QED  BY <1>3, <2>1
  <1>5. CASE /\ UNCHANGED <<spans, nextCursor>>
             /\ queryState' = "error" \/ queryState' = queryState
    <2>1. ListInv'
      BY <1>1, <1>5 DEF ListInv, Keep
    <2>2. ChainInv'
      BY <1>1, <1>5 DEF ChainInv, Uniform, DistinctStarts, Keep
    <2>3. QED  BY <1>3, <2>1, <2>2
  <1>6. QED  BY <1>2, <1>4, <1>5

(* A fresh answer starts a new list. *)
LEMMA FreshIInv ==
    ASSUME IInv, NEW n \in 1..MaxSeq, n = requestSeq, FetchSucceeds(n), ~requests[n].append
    PROVE  IInv' /\ \A i \in 1..Len(spans') : spans'[i].query = Query'
  <1> USE DEF IInv
  <1> DEFINE r == requests[n]
             rows == r.page.rows
             m == Len(rows)
  <1>1. r \in OkRequest /\ r.status = "ok"
    BY RequestKinds DEF FetchSucceeds
  <1>2. /\ spans' = Tagged(r) /\ nextCursor' = r.page.next /\ base' = r.base
        /\ Finally(n) /\ Keep
    BY DEF FetchSucceeds, Current
  <1>3. r.query = Query /\ PageSound(r.page, r.base, Query, NoCursor) /\ r.base \subseteq stored
    BY <1>1 DEF LatestInv, LatestOK, From, TypeInv
  <1>4. /\ spans' \in Seq(ListRow) /\ Len(spans') = m /\ m \in Nat
        /\ \A i \in 1..m : spans'[i] = [trace |-> rows[i], query |-> Query]
    BY <1>1, <1>2, <1>3, TaggedRows DEF OkRequest
  <1>5. /\ r.page.next # NoCursor => rows # <<>> /\ r.page.next = rows[m]
        /\ \A i \in 1..m : rows[i] \in stored
        /\ filter = NoFilter => \A t \in r.base : Owner[t] = project => rows # <<>>
    BY <1>3 DEF PageSound, Found, Query
  <1>6. rows = <<>> <=> m = 0
    BY <1>1 DEF OkRequest
  <1>7. TypeInv' /\ LatestInv'
    BY <1>1, <1>2, <1>3, <1>4, EndedTypes DEF OkRequest
  <1>8. stored' = stored /\ project' = project /\ filter' = filter /\ Query' = Query
    BY <1>2 DEF Keep, Query
  <1>9. r.page.next \in Cursors
    BY <1>1 DEF OkRequest
  <1> HIDE DEF r, rows, m
  <1>10. ListInv'
    <2>1. ASSUME nextCursor' # NoCursor PROVE spans' # <<>> /\ nextCursor' = spans'[Len(spans')].trace
      BY <1>2, <1>4, <1>5, <1>6, <2>1
    <2>2. \A i \in 1..Len(spans') : spans'[i].trace \in stored'
      BY <1>4, <1>5, <1>8
    <2>3. ASSUME spans' = <<>>, filter' = NoFilter PROVE \A t \in base' : Owner[t] # project'
      BY <1>2, <1>4, <1>5, <1>6, <1>8, <2>3
    <2>4. QED  BY <2>1, <2>2, <2>3 DEF ListInv
  <1>11. ChainInv'
    <2> SUFFICES ASSUME NEW p \in Projects, spans' # <<>>, Uniform(p)', DistinctStarts'
                 PROVE  /\ \A i, j \in 1..Len(spans') : i < j => StartTime[spans'[j].trace] < StartTime[spans'[i].trace]
                        /\ \A t \in base' : Owner[t] = p /\ StartTime[t] >= StartTime[spans'[Len(spans')].trace]
                                => \E i \in 1..Len(spans') : spans'[i].trace = t
      BY DEF ChainInv
    <2>1. m # 0 /\ m \in 1..m
      BY <1>4
    <2>2. Query = [project |-> p, filter |-> NoFilter]
      BY <1>4, <2>1 DEF Uniform
    <2>3. Query.project = p /\ Query.filter = NoFilter
      BY <2>2
    <2>4. DistinctStarts
      BY <1>8 DEF DistinctStarts
    <2>5. NoCursor \in Cursors
      BY DEF Cursors
    <2>6. /\ \A i, j \in 1..m : i < j => StartTime[rows[j]] < StartTime[rows[i]]
          /\ \A t \in r.base : Owner[t] = p /\ StartTime[t] >= StartTime[rows[m]]
                => \E i \in 1..m : rows[i] = t
      <3>1. TypeInv /\ r.base \in SUBSET stored
        BY <1>3
      <3> HIDE DEF IInv
      <3>2. Query \in Queries
        BY <3>1 DEF Query, Queries, TypeInv
      <3>3. Backwards(r.page, r.base, Query, NoCursor)
        BY <1>3, <2>3, <2>4, <2>5, <3>1, <3>2, PageChain
      <3>4. QED  BY <1>3, <2>3, <3>3 DEF rows, m, Backwards
    <2>7. QED  BY <1>2, <1>4, <2>1, <2>6
  <1>12. \A i \in 1..Len(spans') : spans'[i].query = Query'
    BY <1>4, <1>8
  <1>13. QED  BY <1>7, <1>10, <1>11, <1>12

(* Load Next continues the list after its last row. *)
LEMMA AppendIInv ==
    ASSUME IInv, NEW n \in 1..MaxSeq, n = requestSeq, FetchSucceeds(n), requests[n].append
    PROVE  /\ IInv'
           /\ \A i \in 1..Len(spans') :
                i > Len(spans) \/ spans'[i] # spans[i] => spans'[i].query = Query'
  <1> USE DEF IInv
  <1> DEFINE r == requests[n]
             rows == r.page.rows
             m == Len(rows)
             k == Len(spans)
  <1>1. r \in OkRequest /\ r.status = "ok"
    BY RequestKinds DEF FetchSucceeds
  <1>2. /\ spans' = spans \o Tagged(r) /\ nextCursor' = r.page.next /\ base' = base
        /\ Finally(n) /\ Keep
    BY DEF FetchSucceeds, Current
  <1>3. /\ r.query = Query /\ PageSound(r.page, r.base, Query, nextCursor) /\ r.base \subseteq stored
        /\ base \subseteq r.base /\ nextCursor # NoCursor
    BY <1>1 DEF LatestInv, LatestOK, From, TypeInv
  <1>4. /\ spans \in Seq(ListRow) /\ k \in Nat /\ k # 0 /\ k \in 1..k
        /\ nextCursor = spans[k].trace /\ nextCursor \in stored
    BY <1>3 DEF ListInv, TypeInv
  <1>5. /\ spans' \in Seq(ListRow) /\ Len(spans') = k + m /\ m \in Nat
        /\ \A i \in 1..k : spans'[i] = spans[i]
        /\ \A i \in (k + 1)..(k + m) : /\ i - k \in 1..m
                                       /\ spans'[i].trace = rows[i - k] /\ spans'[i].query = Query
    <2>1. /\ Tagged(r) \in Seq(ListRow) /\ Len(Tagged(r)) = m /\ m \in Nat
          /\ \A i \in 1..m : Tagged(r)[i] = [trace |-> rows[i], query |-> Query]
      BY <1>1, <1>3, TaggedRows DEF OkRequest
    <2> HIDE DEF r, rows, m
    <2>2. spans' \in Seq(ListRow) /\ Len(spans') = k + m
      BY <1>2, <1>4, <2>1, ConcatProperties DEF k
    <2>3. \A i \in 1..(k + m) : spans'[i] = IF i <= k THEN spans[i] ELSE Tagged(r)[i - k]
      BY <1>2, <1>4, <2>1, ConcatProperties DEF k
    <2> HIDE DEF k
    <2>4. \A i \in (k + 1)..(k + m) : i \in 1..(k + m) /\ ~(i <= k) /\ i - k \in 1..m
      BY <1>4, <2>1
    <2>5. \A i \in (k + 1)..(k + m) : spans'[i] = [trace |-> rows[i - k], query |-> Query]
      BY <2>1, <2>3, <2>4
    <2>6. \A i \in 1..k : spans'[i] = spans[i]
      BY <1>4, <2>1, <2>3
    <2>7. QED  BY <2>1, <2>2, <2>4, <2>5, <2>6
  <1>6. /\ r.page.next # NoCursor => rows # <<>> /\ r.page.next = rows[m]
        /\ \A i \in 1..m : rows[i] \in stored
    BY <1>3 DEF PageSound, Found
  <1>7. rows = <<>> <=> m = 0
    BY <1>1 DEF OkRequest
  <1>8. TypeInv' /\ LatestInv'
    <2>1. nextCursor' \in Cursors /\ base' \in SUBSET stored
      BY <1>1, <1>2 DEF OkRequest, TypeInv
    <2>2. QED  BY <1>2, <1>5, <2>1, EndedTypes
  <1>9. stored' = stored /\ project' = project /\ filter' = filter /\ Query' = Query
    BY <1>2 DEF Keep, Query
  <1> HIDE DEF r, rows, m, k
  <1>10. \A i \in 1..Len(spans') : i \in 1..k \/ i \in (k + 1)..(k + m)
    BY <1>4, <1>5
  <1>11. ListInv'
    <2>1. spans' # <<>>
      BY <1>4, <1>5
    <2>2. ASSUME nextCursor' # NoCursor PROVE nextCursor' = spans'[Len(spans')].trace
      <3>1. Len(spans') \in (k + 1)..(k + m) /\ Len(spans') - k = m
        BY <1>2, <1>4, <1>5, <1>6, <1>7, <2>2
      <3>2. spans'[Len(spans')].trace = rows[m] /\ spans'[Len(spans')].query = Query
        BY <1>5, <3>1
      <3>3. QED  BY <1>2, <1>6, <2>2, <3>2
    <2>3. ASSUME NEW i \in 1..Len(spans') PROVE spans'[i].trace \in stored'
      <3>1. CASE i \in 1..k
        BY <1>5, <1>9, <3>1 DEF ListInv, k
      <3>2. CASE i \in (k + 1)..(k + m)
        BY <1>5, <1>6, <1>9, <3>2
      <3>3. QED  BY <1>10, <3>1, <3>2
    <2>4. QED  BY <2>1, <2>2, <2>3 DEF ListInv
  <1>12. ChainInv'
    <2> SUFFICES ASSUME NEW p \in Projects, Uniform(p)', DistinctStarts'
                 PROVE  /\ \A i, j \in 1..Len(spans') : i < j => StartTime[spans'[j].trace] < StartTime[spans'[i].trace]
                        /\ \A t \in base' : Owner[t] = p /\ StartTime[t] >= StartTime[spans'[Len(spans')].trace]
                                => \E i \in 1..Len(spans') : spans'[i].trace = t
      BY DEF ChainInv
    <2>1. DistinctStarts /\ Uniform(p) /\ spans # <<>>
      BY <1>4, <1>5, <1>9 DEF DistinctStarts, Uniform, k
    <2>2. /\ \A i, j \in 1..k : i < j => StartTime[spans[j].trace] < StartTime[spans[i].trace]
          /\ \A t \in base : Owner[t] = p /\ StartTime[t] >= StartTime[spans[k].trace]
                => \E i \in 1..k : spans[i].trace = t
      BY <2>1 DEF ChainInv, k
    <2>3. CASE m = 0
      <3>1. Len(spans') = k
        BY <1>4, <1>5, <2>3
      <3>2. \A i \in 1..Len(spans') : i \in 1..k /\ spans'[i] = spans[i]
        BY <1>5, <3>1
      <3>3. spans'[Len(spans')] = spans[k]
        BY <1>4, <3>1, <3>2
      <3>4. \A i, j \in 1..Len(spans') : i < j => StartTime[spans'[j].trace] < StartTime[spans'[i].trace]
        BY <2>2, <3>2
      <3>5. ASSUME NEW t \in base', Owner[t] = p,
                   StartTime[t] >= StartTime[spans'[Len(spans')].trace]
            PROVE  \E i \in 1..Len(spans') : spans'[i].trace = t
        <4>1. PICK i \in 1..k : spans[i].trace = t
          BY <1>2, <2>2, <3>3, <3>5
        <4>2. QED  BY <3>1, <3>2, <4>1
      <3>6. QED  BY <3>4, <3>5
    <2>4. CASE m # 0
      <3>1. /\ Len(spans') \in 1..Len(spans') /\ Len(spans') \in (k + 1)..(k + m)
            /\ Len(spans') - k = m
        BY <1>4, <1>5, <2>4
      <3>2. spans'[Len(spans')].trace = rows[m] /\ spans'[Len(spans')].query = Query
        BY <1>5, <3>1
      <3>3. Query = [project |-> p, filter |-> NoFilter]
        BY <3>1, <3>2 DEF Uniform
      <3>4. Query.project = p /\ Query.filter = NoFilter
        BY <3>3
      <3>5. nextCursor \in Cursors
        BY DEF TypeInv
      <3>6. /\ \A i, j \in 1..m : i < j => StartTime[rows[j]] < StartTime[rows[i]]
            /\ \A i \in 1..m : StartTime[rows[i]] < StartTime[nextCursor]
            /\ \A t \in r.base : /\ Owner[t] = p
                                 /\ StartTime[t] < StartTime[nextCursor]
                                 /\ StartTime[t] >= StartTime[rows[m]]
                    => \E i \in 1..m : rows[i] = t
        <4>1. TypeInv /\ r.base \in SUBSET stored
          BY <1>3
        <4> HIDE DEF IInv
        <4>2. Query \in Queries
          BY <4>1 DEF Query, Queries, TypeInv
        <4>3. Backwards(r.page, r.base, Query, nextCursor)
          BY <1>3, <1>4, <2>1, <3>4, <3>5, <4>1, <4>2, PageChain
        <4>4. QED  BY <1>3, <3>4, <4>3 DEF rows, m, Backwards
      <3>7. \A t \in stored : StartTime[t] \in Nat
        BY ConstantsAssumption DEF TypeInv
      <3>8. \A i \in 1..k : spans[i].trace \in stored
        BY DEF ListInv, k
      <3>9. ASSUME NEW i \in 1..Len(spans'), NEW j \in 1..Len(spans'), i < j
            PROVE  StartTime[spans'[j].trace] < StartTime[spans'[i].trace]
        <4>1. CASE i \in 1..k /\ j \in 1..k
          BY <1>5, <2>2, <3>9, <4>1
        <4>2. CASE i \in 1..k /\ j \in (k + 1)..(k + m)
          <5>1. spans'[i] = spans[i] /\ spans'[j].trace = rows[j - k]
            BY <1>5, <4>2
          <5>2. j - k \in 1..m /\ StartTime[rows[j - k]] < StartTime[spans[k].trace]
            BY <1>4, <1>5, <3>6, <4>2
          <5>3. i = k \/ StartTime[spans[k].trace] < StartTime[spans[i].trace]
            BY <1>4, <2>2, <4>2
          <5>4. StartTime[rows[j - k]] \in Nat /\ StartTime[spans[k].trace] \in Nat /\ StartTime[spans[i].trace] \in Nat
            BY <1>4, <1>6, <3>7, <3>8, <4>2, <5>2
          <5>5. QED  BY <5>1, <5>2, <5>3, <5>4
        <4>3. CASE i \in (k + 1)..(k + m) /\ j \in (k + 1)..(k + m)
          <5>1. spans'[i].trace = rows[i - k] /\ spans'[j].trace = rows[j - k]
            BY <1>5, <4>3
          <5>2. i - k \in 1..m /\ j - k \in 1..m /\ i - k < j - k
            BY <1>4, <1>5, <3>9, <4>3
          <5>3. QED  BY <3>6, <5>1, <5>2
        <4>4. QED  BY <1>4, <1>10, <3>9, <4>1, <4>2, <4>3
      <3>10. ASSUME NEW t \in base', Owner[t] = p,
                    StartTime[t] >= StartTime[spans'[Len(spans')].trace]
             PROVE  \E i \in 1..Len(spans') : spans'[i].trace = t
        <4>1. t \in base /\ t \in r.base /\ StartTime[t] >= StartTime[rows[m]]
          BY <1>2, <1>3, <3>2, <3>10
        <4>2. StartTime[t] \in Nat /\ StartTime[nextCursor] \in Nat
          BY <1>3, <1>4, <3>7, <4>1
        <4>3. CASE StartTime[t] < StartTime[nextCursor]
          <5>1. PICK i \in 1..m : rows[i] = t
            BY <3>6, <3>10, <4>1, <4>3
          <5>2. PICK l \in 1..Len(spans') : l \in (k + 1)..(k + m) /\ l - k = i
            BY <1>4, <1>5
          <5>3. spans'[l].trace = t
            BY <1>5, <5>1, <5>2
          <5>4. QED  BY <5>3
        <4>4. CASE StartTime[t] >= StartTime[nextCursor]
          <5>1. PICK i \in 1..k : spans[i].trace = t
            BY <1>4, <2>2, <3>10, <4>1, <4>4
          <5>2. i \in 1..Len(spans') /\ spans'[i] = spans[i]
            BY <1>4, <1>5
          <5>3. QED  BY <5>1, <5>2
        <4>5. QED  BY <4>2, <4>3, <4>4
      <3>11. QED  BY <3>9, <3>10
    <2>5. QED  BY <2>3, <2>4
  <1>13. ASSUME NEW i \in 1..Len(spans'), i > Len(spans) \/ spans'[i] # spans[i]
         PROVE  spans'[i].query = Query'
    <2>1. i \notin 1..k
      BY <1>4, <1>5, <1>13 DEF k
    <2>2. i \in (k + 1)..(k + m)
      BY <1>10, <2>1
    <2>3. QED  BY <1>5, <1>9, <2>2
  <1>14. QED  BY <1>8, <1>11, <1>12, <1>13

-----------------------------------------------------------------------------
(* The rows that a step brings on screen answer the query on screen. *)
NewRowsFresh ==
    \A i \in 1..Len(spans') :
        i > Len(spans) \/ spans'[i] # spans[i] => spans'[i].query = Query'

LEMMA KeptRowsFresh ==
    ASSUME TypeInv, UNCHANGED spans
    PROVE  NewRowsFresh
  <1>1. Len(spans) \in Nat
    BY DEF TypeInv
  <1>2. QED  BY <1>1 DEF NewRowsFresh

LEMMA ReturnIInv ==
    ASSUME IInv, NEW n \in 1..MaxSeq, Return(n)
    PROVE  IInv' /\ NewRowsFresh
  <1>1. TypeInv
    BY DEF IInv
  <1>2. CASE n # requestSeq
    BY <1>1, <1>2, ObsoleteIInv, KeptRowsFresh
  <1>3. CASE n = requestSeq /\ FetchSucceeds(n)
    <2>1. CASE requests[n].append
      BY <1>3, <2>1, AppendIInv DEF NewRowsFresh
    <2>2. CASE ~requests[n].append
      BY <1>3, <2>2, FreshIInv DEF NewRowsFresh
    <2>3. QED  BY <2>1, <2>2
  <1>4. CASE n = requestSeq /\ (FetchRefused(n) \/ FetchFails(n) \/ BodyFails(n))
    <2>1. IInv'
      BY <1>4, FailureIInv
    <2>2. spans' = spans \/ spans' = <<>>
      BY <1>4 DEF FetchRefused, FetchFails, BodyFails
    <2>3. CASE spans' = <<>>
      BY <2>1, <2>3 DEF NewRowsFresh
    <2>4. QED  BY <1>1, <2>1, <2>2, <2>3, KeptRowsFresh
  <1>5. QED  BY <1>2, <1>3, <1>4 DEF Return

LEMMA NextIInv ==
    ASSUME IInv, [Next]_vars
    PROVE  IInv' /\ NewRowsFresh
  <1>1. TypeInv
    BY DEF IInv
  <1>2. CASE UNCHANGED vars
    <2>1. UNCHANGED <<stored, mounted, project, filter, pageSize, spans, nextCursor,
                      loading, queryState, requestSeq, requests, base>>
      BY <1>2 DEF vars, pageVars
    <2>2. TypeInv'
      BY <1>1, <2>1 DEF TypeInv
    <2>3. LatestInv'
      BY <2>1 DEF IInv, LatestInv, LatestOK, From, Query
    <2>4. ListInv'
      BY <2>1 DEF IInv, ListInv
    <2>5. ChainInv'
      BY <2>1 DEF IInv, ChainInv, Uniform, DistinctStarts
    <2>6. QED  BY <1>1, <2>1, <2>2, <2>3, <2>4, <2>5, KeptRowsFresh DEF IInv
  <1>3. ASSUME NEW t \in Traces, Ingest(t) PROVE IInv' /\ NewRowsFresh
    BY <1>1, <1>3, IngestIInv, KeptRowsFresh DEF Ingest, pageVars
  <1>4. CASE Unmount
    <2>1. spans' = <<>>
      BY <1>4 DEF Unmount
    <2>2. NewRowsFresh
      BY <2>1 DEF NewRowsFresh
    <2>3. QED  BY <1>4, <2>2, UnmountIInv
  <1>5. NoCursor \in Cursors /\ project \in Projects /\ filter \in Filters /\ pageSize \in PageSizes
    BY <1>1 DEF Cursors, TypeInv
  <1>6. ASSUME Refetch, UNCHANGED <<stored, spans, nextCursor, base>>,
               project' \in Projects, filter' \in Filters, pageSize' \in PageSizes
        PROVE  IInv' /\ NewRowsFresh
    BY <1>1, <1>5, <1>6, FetchIInv, KeptRowsFresh DEF Refetch
  <1>7. CASE Mount \/ Refresh
    BY <1>5, <1>6, <1>7 DEF Mount, Refresh
  <1>8. ASSUME NEW p \in Projects, SwitchProject(p) PROVE IInv' /\ NewRowsFresh
    BY <1>5, <1>6, <1>8 DEF SwitchProject
  <1>9. ASSUME NEW f \in Filters, ApplyFilter(f) PROVE IInv' /\ NewRowsFresh
    BY <1>5, <1>6, <1>9 DEF ApplyFilter
  <1>10. ASSUME NEW n \in PageSizes, SetPageSize(n) PROVE IInv' /\ NewRowsFresh
    BY <1>5, <1>6, <1>10 DEF SetPageSize
  <1>11. CASE LoadNext
    <2>1. nextCursor # NoCursor /\ UNCHANGED <<stored, spans, nextCursor, base, project, filter, pageSize>>
      BY <1>11 DEF LoadNext
    <2>2. Query' = Query /\ nextCursor \in Cursors
      BY <1>1, <2>1 DEF Query, TypeInv
    <2>3. FetchSpans(nextCursor, TRUE, Query', pageSize')
      BY <1>11, <2>1, <2>2 DEF LoadNext
    <2>4. IInv'
      BY <1>5, <2>1, <2>2, <2>3, FetchIInv
    <2>5. QED  BY <1>1, <2>1, <2>4, KeptRowsFresh
  <1>12. ASSUME NEW n \in 1..MaxSeq, Answer(n) PROVE IInv' /\ NewRowsFresh
    BY <1>1, <1>12, AnswerIInv, KeptRowsFresh DEF Answer
  <1>13. ASSUME NEW n \in 1..MaxSeq, Return(n) PROVE IInv' /\ NewRowsFresh
    BY <1>13, ReturnIInv
  <1>14. QED
    BY <1>2, <1>3, <1>4, <1>7, <1>8, <1>9, <1>10, <1>11, <1>12, <1>13 DEF Next, UserStep

(* The invariant holds in every state of the page. *)
THEOREM Invariance == Spec => []IInv
  <1>1. Init => IInv
    BY InitIInv
  <1>2. IInv /\ [Next]_vars => IInv'
    BY NextIInv
  <1>3. QED  BY <1>1, <1>2, PTL DEF Spec

(* Rows that appear belong to the project and filters selected now: for    *)
(* any number of requests under way, fetchSpans drops every answer but the *)
(* one to the question on screen.                                          *)
THEOREM FreshRowsTheorem == Spec => FreshRows
  <1>1. IInv /\ [Next]_vars => [NewRowsFresh]_vars
    BY NextIInv
  <1>2. QED  BY <1>1, Invariance, PTL DEF Spec, FreshRows, NewRowsFresh

(* The empty-state panel shows only when the query on screen has been      *)
(* answered and nothing is loading, and then, unfiltered, the project had  *)
(* no trace.                                                               *)
THEOREM EmptyMeansAnsweredTheorem == Spec => []EmptyMeansAnswered
  <1>1. IInv => EmptyMeansAnswered
    <2> SUFFICES ASSUME IInv, Shown = "empty"
                 PROVE  ~loading /\ (filter = NoFilter => \A t \in base : Owner[t] # project)
      BY DEF EmptyMeansAnswered
    <2>1. spans = <<>> /\ queryState = "resolved"
      BY DEF Shown
    <2>2. nextCursor = NoCursor /\ (filter = NoFilter => \A t \in base : Owner[t] # project)
      BY <2>1 DEF IInv, ListInv
    <2>3. ~loading
      BY <2>1, <2>2 DEF IInv, LatestInv, LatestOK
    <2>4. QED  BY <2>2, <2>3
  <1>2. QED  BY <1>1, Invariance, PTL

(* Paging shows no trace twice and skips none that was stored when the     *)
(* first page was read, for every page size and every interleaving of      *)
(* ingestion, refreshes and failures, when start times are distinct.       *)
THEOREM PagesContiguousTheorem == Spec => []PagesContiguous
  <1>1. IInv => PagesContiguous
    <2> SUFFICES ASSUME IInv, spans # <<>>,
                        \A i \in 1..Len(spans) : spans[i].query = [project |-> project, filter |-> NoFilter],
                        \A s, t \in stored : s # t => StartTime[s] # StartTime[t]
                 PROVE  /\ \A i, j \in 1..Len(spans) : i # j => spans[i].trace # spans[j].trace
                        /\ \A t \in base : Owner[t] = project /\ Ordered(t, spans[Len(spans)].trace)
                                => t \in {spans[i].trace : i \in 1..Len(spans)}
      BY DEF PagesContiguous
    <2>1. /\ Uniform(project) /\ DistinctStarts /\ project \in Projects
          /\ Len(spans) \in Nat /\ Len(spans) \in 1..Len(spans)
      BY DEF Uniform, DistinctStarts, IInv, TypeInv
    <2>2. /\ \A i, j \in 1..Len(spans) : i < j => StartTime[spans[j].trace] < StartTime[spans[i].trace]
          /\ \A t \in base : Owner[t] = project /\ StartTime[t] >= StartTime[spans[Len(spans)].trace]
                => \E i \in 1..Len(spans) : spans[i].trace = t
      BY <2>1 DEF IInv, ChainInv
    <2>3. /\ \A i \in 1..Len(spans) : spans[i].trace \in stored
          /\ \A t \in stored : StartTime[t] \in Nat
          /\ base \subseteq stored
      BY ConstantsAssumption DEF IInv, ListInv, TypeInv
    <2>4. ASSUME NEW i \in 1..Len(spans), NEW j \in 1..Len(spans), i # j
          PROVE  spans[i].trace # spans[j].trace
      <3>1. i < j \/ j < i
        BY <2>1, <2>4
      <3>2. StartTime[spans[i].trace] # StartTime[spans[j].trace]
        BY <2>2, <2>3, <3>1
      <3>3. QED  BY <3>2
    <2>5. ASSUME NEW t \in base, Owner[t] = project, Ordered(t, spans[Len(spans)].trace)
          PROVE  t \in {spans[i].trace : i \in 1..Len(spans)}
      <3>1. StartTime[t] >= StartTime[spans[Len(spans)].trace]
        BY <2>1, <2>3, <2>5 DEF Ordered, Newer
      <3>2. QED  BY <2>2, <2>5, <3>1
    <2>6. QED  BY <2>4, <2>5
  <1>2. QED  BY <1>1, Invariance, PTL
=============================================================================

------------------------------ MODULE PagesProofs ------------------------------
(***************************************************************************)
(* What a page promises of its total, and which rows a walk through the    *)
(* pages may miss or repeat, for any table and any number of writes.       *)
(***************************************************************************)
EXTENDS Pages, FiniteSetTheorems, SequenceTheorems, TLAPS

\* What Validate makes of a request is one that the query can serve.
LEMMA ValidateType ==
  ASSUME NEW page \in Int, NEW size \in Int
  PROVE  Validate(page, size) \in Requests
BY PagesAssumption DEF Validate, NormalizePage, NormalizePageSize, Requests

\* Normalising a second time, as NewPaginationMeta does, changes nothing.
LEMMA MetaType ==
  ASSUME NEW req \in Requests, NEW items \in Nat
  PROVE  /\ NewPaginationMeta(req, items) \in Metas
         /\ NewPaginationMeta(req, items).page = req.page
         /\ NewPaginationMeta(req, items).size = req.size
         /\ NewPaginationMeta(req, items).items = items
<1>1. req.page \in Nat \ {0} /\ req.size \in 1..MaxPageSize
  BY DEF Requests
<1>2. NormalizePageSize(req.size) = req.size /\ NormalizePage(req.page) = req.page
  BY <1>1, PagesAssumption DEF NormalizePageSize, NormalizePage
<1>3. TotalPages(req.size, items) \in Int
  BY <1>1, PagesAssumption DEF TotalPages
<1> QED
  BY <1>1, <1>2, <1>3 DEF NewPaginationMeta, Metas

\* The rows are finitely many.
LEMMA RowsFinite ==
  TypeOK => IsFiniteSet(DOMAIN table) /\ Cardinality(DOMAIN table) \in Nat
BY PagesAssumption, FS_Subset, FS_CardinalityType DEF TypeOK

\* A page has the rows that a listing of n has at its place.
LEMMA ItemsLength ==
  ASSUME NEW rows, NEW n \in Nat, NEW list \in [1..n -> rows], NEW req \in Requests
  PROVE  Items(req, list) \in Seq(rows) /\ Len(Items(req, list)) = OnPage(req, n)
<1> DEFINE off  == (req.page - 1) * req.size
           past == off + req.size
           last == IF past > n THEN n ELSE past
<1>1. req.size \in Nat /\ req.page - 1 \in Nat /\ list \in Seq(rows) /\ Len(list) = n
  BY PagesAssumption DEF Requests
<1>2. off \in Nat
  BY <1>1
<1> HIDE DEF off
<1>3. CASE off >= n
  BY <1>1, <1>2, <1>3 DEF Items, Offset, Limit, OnPage, off
<1>4. CASE off < n
  <2>1. last \in off..n /\ last \in Nat
    BY <1>1, <1>2, <1>4
  <2>2. Items(req, list) = SubSeq(list, off + 1, last)
    <3>1. Offset(req) = off /\ Limit(req) = req.size /\ ~(off >= Len(list))
      BY <1>1, <1>2, <1>4 DEF Offset, Limit, off
    <3> QED
      BY <1>1, <3>1 DEF Items
  <2>3. SubSeq(list, off + 1, last) \in Seq(rows) /\ Len(SubSeq(list, off + 1, last)) = last - off
    <3>1. \A i \in off + 1 .. last : list[i] \in rows
      BY <1>1, <1>2, <2>1
    <3> HIDE DEF last
    <3> QED
      BY <1>2, <2>1, <3>1, SubSeqProperties
  <2>4. OnPage(req, n) = last - off
    BY <1>1, <1>2, <1>4 DEF OnPage, off
  <2> QED
    BY <2>2, <2>3, <2>4
<1> QED
  BY <1>1, <1>2, <1>3, <1>4

-----------------------------------------------------------------------------
(* Types                                                                   *)

\* What the client's next call begins with.
LEMMA AskedType ==
  TypeOK /\ Asked => /\ answer' \in [items : Seq(Ids), meta : Metas]
                     /\ at' = "asked" /\ total' \in Nat /\ late' = 0
                     /\ writes' \in [ins : Nat, del : Nat]
<1>1. Validate(1, 0) \in Requests
  BY ValidateType
<1>2. NewPaginationMeta(Validate(1, 0), 0) \in Metas
  BY <1>1, MetaType
<1> QED
  BY <1>2 DEF Asked, Nothing

\* A listing has every row once, and a page of it is a sequence of rows.
LEMMA ListingType ==
  ASSUME TypeOK, NEW list \in GetAllUsers
  PROVE  /\ Items(request, list) \in Seq(Ids)
         /\ Len(Items(request, list)) = OnPage(request, Cardinality(DOMAIN table))
<1>1. Cardinality(DOMAIN table) \in Nat /\ request \in Requests
  BY RowsFinite DEF TypeOK
<1>2. list \in [1..Cardinality(DOMAIN table) -> DOMAIN table]
  BY DEF GetAllUsers, Listings
<1>3. list \in [1..Cardinality(DOMAIN table) -> Ids]
  BY <1>2 DEF TypeOK
<1> QED
  BY <1>1, <1>3, ItemsLength

\* A new system has the types.
LEMMA TypeInit == Init => TypeOK
<1> SUFFICES ASSUME Init PROVE TypeOK
  OBVIOUS
<1>1. Validate(1, 0) \in Requests
  BY ValidateType
<1>2. NewPaginationMeta(Validate(1, 0), 0) \in Metas
  BY <1>1, MetaType
<1> QED
  BY <1>1, <1>2 DEF Init, Nothing, TypeOK

\* Every action keeps the types.
LEMMA TypeNext == TypeOK /\ [Next]_vars => TypeOK'
<1> SUFFICES ASSUME TypeOK, [Next]_vars PROVE TypeOK'
  OBVIOUS
<1> USE DEF TypeOK
<1>1. ASSUME NEW id \in Ids, NEW stamp \in Stamps, Insert(id, stamp) PROVE TypeOK'
  <2>1. DOMAIN table' = DOMAIN table \cup {id} /\ table' \in [DOMAIN table' -> Stamps]
    BY <1>1 DEF Insert
  <2>2. writes' \in [ins : Nat, del : Nat]
    BY <1>1 DEF Insert, Counted
  <2>3. steady' \subseteq DOMAIN table' /\ {gone', came', late'} \subseteq Stamps \cup {0}
    BY <1>1, <2>1 DEF Insert, Newest
  <2> QED
    BY <1>1, <2>1, <2>2, <2>3 DEF Insert, Counted, walk
<1>2. ASSUME NEW id \in Ids, Delete(id) PROVE TypeOK'
  <2>1. DOMAIN table' = DOMAIN table \ {id} /\ table' \in [DOMAIN table' -> Stamps]
    BY <1>2 DEF Delete
  <2>2. writes' \in [ins : Nat, del : Nat]
    BY <1>2 DEF Delete, Counted
  <2>3. steady' \subseteq DOMAIN table' /\ {gone', came', late'} \subseteq Stamps \cup {0}
    BY <1>2, <2>1 DEF Delete, Newest
  <2> QED
    BY <1>2, <2>1, <2>2, <2>3 DEF Delete, Counted, walk
<1>3. ASSUME NEW page \in PageRequests, NEW size \in SizeRequests, Begin(page, size)
      PROVE TypeOK'
  <2>1. Validate(page, size) \in Requests
    BY ValidateType, PagesAssumption
  <2> QED
    BY <1>3, <2>1, AskedType DEF Begin, Requests
<1>4. CASE NextPage
  <2>1. Validate(answer.meta.page + 1, answer.meta.size) \in Requests
    <3>1. answer.meta.page + 1 \in Int /\ answer.meta.size \in Int
      BY PagesAssumption DEF Metas
    <3> QED
      BY <3>1, ValidateType
  <2> QED
    BY <1>4, <2>1, AskedType DEF NextPage, database, walk
<1>5. CASE Again
  BY <1>5, AskedType DEF Again, database, walk
<1>6. CASE CountUsers
  BY <1>6, RowsFinite DEF CountUsers, database, walk
<1>7. CASE QueryPage
  <2>1. PICK list \in GetAllUsers : Answer(Items(request, list))
    BY <1>7 DEF QueryPage
  <2>2. Items(request, list) \in Seq(Ids)
    BY ListingType
  <2>3. NewPaginationMeta(request, total) \in Metas
    BY MetaType
  <2> QED
    BY <2>1, <2>2, <2>3 DEF Answer, database
<1>8. CASE ReadFails
  BY <1>8 DEF ReadFails, database, walk
<1>9. CASE UNCHANGED vars
  BY <1>9 DEF vars
<1> QED
  BY <1>1, <1>2, <1>3, <1>4, <1>5, <1>6, <1>7, <1>8, <1>9 DEF Next

\* Every state has the types.
THEOREM TypeCorrect == Spec => []TypeOK
BY TypeInit, TypeNext, PTL DEF Spec

-----------------------------------------------------------------------------
(* A page and its total                                                    *)

\* Between the queries the table differs from the total by what was written.
CountInv ==
  /\ at = "counted" => Cardinality(DOMAIN table) + writes.del = total + writes.ins
  /\ MetaMatchesItems

\* A page never has fewer rows of a longer listing.
LEMMA OnPageMonotone ==
  ASSUME NEW req, req.page \in Nat \ {0}, req.size \in Nat, NEW m \in Int, NEW n \in Int, m <= n
  PROVE  OnPage(req, m) <= OnPage(req, n)
<1> DEFINE off == (req.page - 1) * req.size
<1>1. off \in Int
  OBVIOUS
<1> HIDE DEF off
<1> QED
  BY <1>1 DEF OnPage, off

\* Every step keeps the account.
LEMMA CountNext == TypeOK /\ CountInv /\ [Next]_vars => CountInv'
<1> SUFFICES ASSUME TypeOK, CountInv, [Next]_vars PROVE CountInv'
  OBVIOUS
<1>0. Cardinality(DOMAIN table) \in Nat /\ IsFiniteSet(DOMAIN table)
      /\ writes.ins \in Nat /\ writes.del \in Nat /\ total \in Nat
  BY RowsFinite DEF TypeOK
<1>1. ASSUME NEW id \in Ids, NEW stamp \in Stamps, Insert(id, stamp) PROVE CountInv'
  <2>1. DOMAIN table' = DOMAIN table \cup {id} /\ id \notin DOMAIN table
    BY <1>1 DEF Insert
  <2>2. Cardinality(DOMAIN table') = Cardinality(DOMAIN table) + 1
    BY <1>0, <2>1, FS_AddElement
  <2>3. CASE at = "counted"
    BY <1>0, <1>1, <2>2, <2>3 DEF Insert, Counted, CountInv, MetaMatchesItems
  <2>4. CASE at # "counted"
    BY <1>1, <2>4 DEF Insert, Counted, CountInv, MetaMatchesItems
  <2> QED
    BY <2>3, <2>4
<1>2. ASSUME NEW id \in Ids, Delete(id) PROVE CountInv'
  <2>1. DOMAIN table' = DOMAIN table \ {id} /\ id \in DOMAIN table
    BY <1>2 DEF Delete
  <2>2. Cardinality(DOMAIN table') = Cardinality(DOMAIN table) - 1
    BY <1>0, <2>1, FS_RemoveElement
  <2>3. CASE at = "counted"
    BY <1>0, <1>2, <2>2, <2>3 DEF Delete, Counted, CountInv, MetaMatchesItems
  <2>4. CASE at # "counted"
    BY <1>2, <2>4 DEF Delete, Counted, CountInv, MetaMatchesItems
  <2> QED
    BY <2>3, <2>4
<1>3. CASE CountUsers
  BY <1>0, <1>3 DEF CountUsers, database, CountInv, MetaMatchesItems
<1>4. CASE QueryPage
  <2> DEFINE n == Cardinality(DOMAIN table)
  <2>1. PICK list \in GetAllUsers : Answer(Items(request, list))
    BY <1>4 DEF QueryPage
  <2>2. request.page \in Nat \ {0} /\ request.size \in Nat /\ request \in Requests
    BY PagesAssumption DEF TypeOK, Requests
  <2>3. Len(answer'.items) = OnPage(request, n)
    BY <2>1, ListingType DEF Answer
  <2>4. OnPage(answer'.meta, total - writes.del) = OnPage(request, total - writes.del)
        /\ OnPage(answer'.meta, total + writes.ins) = OnPage(request, total + writes.ins)
        /\ answer'.meta.items = total
    BY <1>0, <2>1, <2>2, MetaType DEF Answer, OnPage
  <2>5. n + writes.del = total + writes.ins
    BY <1>4 DEF QueryPage, CountInv
  <2>6. OnPage(request, total - writes.del) <= OnPage(request, n)
        /\ OnPage(request, n) <= OnPage(request, total + writes.ins)
    BY <1>0, <2>2, <2>5, OnPageMonotone
  <2>7. writes' = writes /\ at' = "answered"
    BY <2>1 DEF Answer
  <2> HIDE DEF n
  <2> QED
    BY <2>3, <2>4, <2>6, <2>7 DEF CountInv, MetaMatchesItems
<1>5. CASE \/ NextPage \/ Again \/ ReadFails
           \/ \E page \in PageRequests, size \in SizeRequests : Begin(page, size)
  BY <1>5 DEF NextPage, Again, ReadFails, Begin, Asked, CountInv, MetaMatchesItems
<1>6. CASE UNCHANGED vars
  BY <1>6 DEF vars, CountInv, MetaMatchesItems
<1> QED
  BY <1>1, <1>2, <1>3, <1>4, <1>5, <1>6 DEF Next

\* A page and the total it comes with differ by no more than the rows written
\* between the two queries, for any table and any page.
THEOREM MetaCorrect == Spec => []MetaMatchesItems
<1>1. Init => CountInv
  BY DEF Init, CountInv, MetaMatchesItems
<1>2. CountInv => MetaMatchesItems
  BY DEF CountInv
<1> QED
  BY <1>1, <1>2, CountNext, TypeInit, TypeNext, PTL DEF Spec

-----------------------------------------------------------------------------
(* Where a row is in a listing                                             *)

Newer(r) == {s \in DOMAIN table : table[s] > table[r]}

N(r) == Cardinality(Newer(r))

Alone(r) == r \in DOMAIN table /\ \A other \in DOMAIN table \ {r} : table[other] # table[r]

\* The newer rows are finitely many.
LEMMA NewerFinite ==
  ASSUME TypeOK, NEW r
  PROVE  IsFiniteSet(Newer(r)) /\ N(r) \in Nat
BY RowsFinite, FS_Subset, FS_CardinalityType DEF Newer, N

\* A row whose created_at is its own comes after the newer ones in every listing.
LEMMA Position ==
  ASSUME TypeOK, NEW list \in GetAllUsers, NEW r, Alone(r)
  PROVE  /\ N(r) + 1 \in 1..Cardinality(DOMAIN table)
         /\ \A j \in 1..Cardinality(DOMAIN table) : list[j] = r <=> j = N(r) + 1
<1> DEFINE n == Cardinality(DOMAIN table)
<1>1. n \in Nat /\ IsFiniteSet(DOMAIN table) /\ r \in DOMAIN table
  BY RowsFinite DEF Alone
<1>2. /\ list \in [1..n -> DOMAIN table]
      /\ \A i, j \in 1..n : i < j => list[i] # list[j] /\ table[list[i]] >= table[list[j]]
  BY DEF GetAllUsers, Listings
<1>3. \A s \in DOMAIN table : table[s] \in Nat
  BY PagesAssumption DEF TypeOK
<1> HIDE DEF n
<1>4. \A i, j \in 1..n : list[i] = list[j] => i = j
  BY <1>1, <1>2
<1>5. list \in Surjection(1..n, DOMAIN table)
  <2>1. list \in Injection(1..n, DOMAIN table)
    BY <1>2, <1>4 DEF Injection, IsInjective
  <2>2. Cardinality(1..n) = n
    BY <1>1, FS_Interval
  <2> QED
    BY <1>1, <2>1, <2>2, FS_Injection DEF n
<1>6. PICK i \in 1..n : list[i] = r
  BY <1>1, <1>5 DEF Surjection
<1>7. N(r) = i - 1
  <2> DEFINE f == [j \in 1..(i - 1) |-> list[j]]
  <2>1. \A j \in 1..(i - 1) : f[j] \in Newer(r)
    <3> SUFFICES ASSUME NEW j \in 1..(i - 1) PROVE list[j] \in Newer(r)
      OBVIOUS
    <3>1. j \in 1..n /\ j < i
      BY <1>1
    <3>2. list[j] \in DOMAIN table /\ list[j] # r /\ table[list[j]] >= table[r]
      BY <1>2, <1>6, <3>1
    <3> QED
      BY <1>1, <1>3, <3>2 DEF Newer, Alone
  <2>2. \A s \in Newer(r) : \E j \in 1..(i - 1) : f[j] = s
    <3> SUFFICES ASSUME NEW s \in Newer(r) PROVE \E j \in 1..(i - 1) : list[j] = s
      OBVIOUS
    <3>1. PICK j \in 1..n : list[j] = s
      BY <1>5 DEF Surjection, Newer
    <3>2. table[s] > table[r] /\ s \in DOMAIN table
      BY DEF Newer
    <3>3. ~(i < j) /\ i # j
      BY <1>1, <1>2, <1>3, <1>6, <3>1, <3>2
    <3> QED
      BY <1>1, <3>1, <3>3
  <2>3. \A j, k \in 1..(i - 1) : f[j] = f[k] => j = k
    BY <1>1, <1>4
  <2>4. f \in Bijection(1..(i - 1), Newer(r))
    BY <2>1, <2>2, <2>3 DEF Bijection, Injection, Surjection, IsInjective
  <2>5. IsFiniteSet(1..(i - 1)) /\ Cardinality(1..(i - 1)) = i - 1
    BY <1>1, FS_Interval
  <2>6. ExistsBijection(1..(i - 1), Newer(r))
    BY <2>4 DEF ExistsBijection
  <2> QED
    BY <2>5, <2>6, FS_Bijection DEF N
<1> QED
  BY <1>1, <1>4, <1>6, <1>7 DEF n

\* The rows of a page are those of the listing from its offset on.
LEMMA ItemsContent ==
  ASSUME NEW rows, NEW n \in Nat, NEW list \in [1..n -> rows], NEW req \in Requests
  PROVE  \A k \in 1..Len(Items(req, list)) : Items(req, list)[k] = list[Offset(req) + k]
<1> DEFINE off  == Offset(req)
           past == off + req.size
           last == IF past > n THEN n ELSE past
<1>1. req.size \in Nat /\ req.page - 1 \in Nat /\ list \in Seq(rows) /\ Len(list) = n
  BY PagesAssumption DEF Requests
<1>2. off \in Nat
  BY <1>1 DEF Offset
<1> HIDE DEF off
<1>3. CASE off >= n
  BY <1>1, <1>2, <1>3 DEF Items, Limit, off
<1>4. CASE off < n
  <2>1. last \in off..n /\ last \in Nat
    BY <1>1, <1>2, <1>4
  <2>2. Items(req, list) = SubSeq(list, off + 1, last)
    <3>1. Limit(req) = req.size /\ ~(off >= Len(list))
      BY <1>1, <1>2, <1>4 DEF Limit
    <3> QED
      BY <1>1, <3>1 DEF Items, off
  <2> HIDE DEF last
  <2>3. \A i \in off + 1 .. last : list[i] \in rows
    BY <1>1, <1>2, <2>1
  <2>4. /\ Len(SubSeq(list, off + 1, last)) = last - off
        /\ \A k \in 1 .. last - (off + 1) + 1 :
             SubSeq(list, off + 1, last)[k] = list[(off + 1) + k - 1]
    BY <1>2, <2>1, <2>3, SubSeqProperties
  <2>5. \A k \in 1 .. last - off : k \in 1 .. last - (off + 1) + 1 /\ (off + 1) + k - 1 = off + k
    BY <1>2, <2>1
  <2> QED
    BY <2>2, <2>4, <2>5 DEF off
<1> QED
  BY <1>1, <1>2, <1>3, <1>4

\* A row is on a page exactly if the page is at its place, and there once.
LEMMA OnThePage ==
  ASSUME TypeOK, NEW list \in GetAllUsers, NEW r, Alone(r)
  PROVE  LET items == Items(request, list)
             off   == (request.page - 1) * request.size
         IN  /\ \A j \in 1..Len(items) : items[j] = r => off + j = N(r) + 1
             /\ off <= N(r) /\ N(r) < off + request.size =>
                  \E j \in 1..Len(items) : items[j] = r
             /\ N(r) < Cardinality(DOMAIN table)
<1> DEFINE n     == Cardinality(DOMAIN table)
           items == Items(request, list)
           off   == (request.page - 1) * request.size
<1>1. /\ n \in Nat /\ N(r) \in Nat /\ request \in Requests
      /\ request.size \in Nat /\ request.page - 1 \in Nat
  BY RowsFinite, NewerFinite, PagesAssumption DEF TypeOK, Requests
<1>2. list \in [1..n -> DOMAIN table]
  BY DEF GetAllUsers, Listings
<1>3. off \in Nat /\ Offset(request) = off
  BY <1>1 DEF Offset
<1>4. Len(items) = OnPage(request, n)
  BY ListingType
<1>5. \A j \in 1..Len(items) : items[j] = list[off + j]
  BY <1>1, <1>2, <1>3, ItemsContent
<1>6. N(r) + 1 \in 1..n /\ \A j \in 1..n : list[j] = r <=> j = N(r) + 1
  BY Position
<1>7. Len(items) = IF n - off < 0 THEN 0 ELSE IF n - off > request.size THEN request.size ELSE n - off
  BY <1>4 DEF OnPage
<1> HIDE DEF n, items, off
<1>8. \A j \in 1..Len(items) : off + j \in 1..n
  BY <1>1, <1>3, <1>7
<1>9. ASSUME off <= N(r), N(r) < off + request.size PROVE \E j \in 1..Len(items) : items[j] = r
  <2>1. (N(r) + 1) - off \in 1..Len(items) /\ off + ((N(r) + 1) - off) = N(r) + 1
    BY <1>1, <1>3, <1>6, <1>7, <1>9
  <2> QED
    BY <1>5, <1>6, <2>1
<1>10. \A j \in 1..Len(items) : items[j] = r => off + j = N(r) + 1
  BY <1>5, <1>6, <1>8
<1>11. N(r) < n
  BY <1>1, <1>6
<1> QED
  BY <1>9, <1>10, <1>11 DEF n, items, off

-----------------------------------------------------------------------------
(* What the arithmetic of the pages gives                                  *)

\* The pages that the meta counts hold every item.
LEMMA PagesHoldAll ==
  ASSUME NEW size \in Nat \ {0}, NEW items \in Nat
  PROVE  TotalPages(size, items) \in Int /\ TotalPages(size, items) * size >= items
<1> DEFINE q == items \div size
           m == items % size
<1>1. q \in Int /\ m \in 0..(size - 1) /\ items = size * q + m
  OBVIOUS
<1>2. TotalPages(size, items) = q + (IF m # 0 THEN 1 ELSE 0)
  BY DEF TotalPages
<1> HIDE DEF q, m
<1>3. (q + 1) * size = size * q + size /\ q * size = size * q
  BY <1>1
<1>4. CASE m = 0
  BY <1>1, <1>2, <1>3, <1>4
<1>5. CASE m # 0
  BY <1>1, <1>2, <1>3, <1>5
<1> QED
  BY <1>1, <1>4, <1>5

\* A page begins where the one before ends.
LEMMA PageEnd ==
  ASSUME NEW size \in Nat, NEW page \in Int
  PROVE  page * size = (page - 1) * size + size /\ (page - 1) * size \in Int
OBVIOUS

\* Later pages end later.
LEMMA LaterPage ==
  ASSUME NEW size \in Nat, NEW page \in Int, NEW pages \in Int, page >= pages
  PROVE  page * size >= pages * size
OBVIOUS

\* A page has rows to show exactly if the meta counts it: total_pages leads a client
\* neither past the last row nor short of it, whatever the division leaves over.
THEOREM PagesTile ==
  ASSUME NEW size \in Nat \ {0}, NEW items \in Nat, NEW page \in Nat \ {0}
  PROVE  page <= TotalPages(size, items) <=> OnPage([page |-> page, size |-> size], items) > 0
<1> DEFINE q == items \div size
           m == items % size
           pages == TotalPages(size, items)
           off == (page - 1) * size
<1>1. q \in Int /\ m \in 0..(size - 1) /\ items = size * q + m
  OBVIOUS
<1>2. pages = q + (IF m # 0 THEN 1 ELSE 0) /\ pages \in Int
  BY <1>1 DEF TotalPages
<1>3. off \in Int /\ q * size \in Int
  BY <1>1
<1>4. OnPage([page |-> page, size |-> size], items) > 0 <=> off < items
  BY <1>3 DEF OnPage
<1> SUFFICES page <= pages <=> off < items
  BY <1>4
<1> HIDE DEF q, m, pages, off
<1>5. CASE page - 1 < q
  <2>1. q - (page - 1) >= 1 /\ (q - (page - 1)) * size >= size
    BY <1>1, <1>5
  <2>2. (q - (page - 1)) * size = q * size - off
    BY <1>1 DEF off
  <2>3. off + size <= items
    BY <1>1, <1>3, <2>1, <2>2
  <2>4. page <= pages
    BY <1>1, <1>2, <1>5
  <2>5. off < items
    BY <1>1, <1>3, <2>3
  <2> QED
    BY <2>4, <2>5
<1>6. CASE page - 1 = q
  <2>1. off = size * q
    BY <1>1, <1>6 DEF off
  <2>2. page <= pages <=> m # 0
    BY <1>1, <1>2, <1>6
  <2>3. off < items <=> m # 0
    <3>1. size * q \in Int
      BY <1>1
    <3> QED
      BY <1>1, <2>1, <3>1
  <2> QED
    BY <2>2, <2>3
<1>7. CASE page - 1 > q
  <2>1. (page - 1) - q >= 1 /\ ((page - 1) - q) * size >= size
    BY <1>1, <1>7
  <2>2. ((page - 1) - q) * size = off - q * size
    BY <1>1 DEF off
  <2>3. off >= items
    BY <1>1, <1>3, <2>1, <2>2
  <2>4. ~(page <= pages)
    BY <1>1, <1>2, <1>7
  <2>5. ~(off < items)
    BY <1>1, <1>3, <2>3
  <2> QED
    BY <2>4, <2>5
<1> QED
  BY <1>1, <1>5, <1>6, <1>7

-----------------------------------------------------------------------------
(* The walk                                                                *)

Unseen(r) == \A i \in DOMAIN seen : seen[i] # r
Once(r)   == \A i, j \in DOMAIN seen : seen[i] = r /\ seen[j] = r => i = j

\* How many rows the pages read so far were to hold.
Covered == (IF at = "answered" THEN request.page ELSE request.page - 1) * request.size

\* An unseen row is behind the pages read, unless deletes have pulled it forward;
\* it is within the rows counted, unless inserts have pushed it out; a seen one is
\* in front of the next page, unless inserts have pushed it there.
RowInv(r) ==
  /\ Alone(r)
  /\ from = 1 /\ gone <= table[r] /\ Unseen(r) => N(r) >= Covered
  /\ at = "counted" /\ late <= table[r] => N(r) < total
  /\ at = "answered" /\ late <= table[r] => N(r) < answer.meta.items
  /\ came <= table[r] => Once(r) /\ (Unseen(r) \/ N(r) < Covered)

MetaInv ==
  at = "answered" => /\ answer.meta.page = request.page /\ answer.meta.size = request.size
                     /\ answer.meta.pages = TotalPages(request.size, answer.meta.items)

WalkInv == MetaInv /\ \A r \in steady : RowInv(r)

\* What the types say of the numbers in RowInv.
LEMMA Numbers ==
  ASSUME TypeOK
  PROVE  /\ Covered \in Int /\ total \in Nat /\ answer.meta.items \in Nat
         /\ gone \in Nat /\ came \in Nat /\ late \in Nat
         /\ \A r \in DOMAIN table : table[r] \in Nat
         /\ request.page \in Nat \ {0} /\ request.size \in Nat \ {0}
<1>1. request.page \in Nat \ {0} /\ request.size \in Nat \ {0}
  BY PagesAssumption DEF TypeOK, Requests
<1>2. Covered \in Int
  BY <1>1 DEF Covered
<1>3. gone \in Nat /\ came \in Nat /\ late \in Nat /\ \A r \in DOMAIN table : table[r] \in Nat
  <2>1. Stamps \cup {0} \subseteq Nat
    BY PagesAssumption
  <2> QED
    BY <2>1 DEF TypeOK
<1>4. total \in Nat /\ answer.meta.items \in Nat
  BY DEF TypeOK, Metas
<1> QED
  BY <1>1, <1>2, <1>3, <1>4

\* An insert pushes the older rows back.
LEMMA InsertKeepsRow ==
  ASSUME TypeOK, TypeOK', NEW id \in Ids, NEW stamp \in Stamps, Insert(id, stamp),
         NEW r \in steady', RowInv(r)
  PROVE  RowInv(r)'
<1>1. /\ table' = [s \in DOMAIN table \cup {id} |-> IF s = id THEN stamp ELSE table[s]]
      /\ id \notin DOMAIN table /\ r \in steady /\ table[r] # stamp
      /\ UNCHANGED <<at, request, total, answer, from, seen, gone>>
      /\ came' = Newest(came, stamp) /\ late' = Newest(late, stamp)
  BY DEF Insert, Counted, walk
<1>2. r \in DOMAIN table /\ r # id /\ table'[r] = table[r]
  BY <1>1 DEF TypeOK
<1>3. DOMAIN table' = DOMAIN table \cup {id} /\ table'[id] = stamp
      /\ \A s \in DOMAIN table : table'[s] = table[s]
  BY <1>1
<1>4. Alone(r)'
  BY <1>1, <1>2, <1>3 DEF RowInv, Alone
<1>5. Covered' = Covered /\ Unseen(r)' = Unseen(r) /\ Once(r)' = Once(r)
  BY <1>1 DEF Covered, Unseen, Once
<1>6. /\ table[r] \in Nat /\ stamp \in Nat /\ N(r) \in Nat /\ came \in Nat /\ late \in Nat
      /\ Covered \in Int /\ IsFiniteSet(Newer(r)) /\ gone \in Nat
      /\ total \in Nat /\ answer.meta.items \in Nat
  BY <1>2, Numbers, NewerFinite, PagesAssumption
<1>7. CASE stamp > table[r]
  <2>1. Newer(r)' = Newer(r) \cup {id} /\ id \notin Newer(r)
    BY <1>1, <1>2, <1>3, <1>7 DEF Newer
  <2>2. N(r)' = N(r) + 1
    BY <1>6, <2>1, FS_AddElement DEF N
  <2>3. ~(came' <= table[r]) /\ ~(late' <= table[r])
    BY <1>1, <1>6, <1>7 DEF Newest
  <2>4. gone <= table[r] /\ Unseen(r) /\ from = 1 => N(r)' >= Covered
    BY <1>6, <2>2 DEF RowInv
  <2> QED
    BY <1>1, <1>2, <1>4, <1>5, <2>3, <2>4 DEF RowInv
<1>8. CASE ~(stamp > table[r])
  <2>1. Newer(r)' = Newer(r)
    BY <1>1, <1>2, <1>3, <1>8 DEF Newer
  <2>2. N(r)' = N(r)
    BY <2>1 DEF N
  <2>3. (came' <= table[r] => came <= table[r]) /\ (late' <= table[r] => late <= table[r])
    BY <1>1, <1>6, <1>8 DEF Newest
  <2> QED
    BY <1>1, <1>2, <1>4, <1>5, <2>2, <2>3 DEF RowInv
<1> QED
  BY <1>7, <1>8

\* A delete pulls the older rows forward.
LEMMA DeleteKeepsRow ==
  ASSUME TypeOK, TypeOK', NEW id \in Ids, Delete(id), NEW r \in steady', RowInv(r)
  PROVE  RowInv(r)'
<1>1. /\ table' = [s \in DOMAIN table \ {id} |-> table[s]]
      /\ id \in DOMAIN table /\ r \in steady /\ r # id
      /\ UNCHANGED <<at, request, total, answer, from, seen, came, late>>
      /\ gone' = Newest(gone, table[id])
  BY DEF Delete, Counted, walk
<1>2. r \in DOMAIN table /\ table'[r] = table[r]
  BY <1>1 DEF TypeOK
<1>3. DOMAIN table' = DOMAIN table \ {id} /\ \A s \in DOMAIN table' : table'[s] = table[s]
  BY <1>1
<1>4. Alone(r)'
  BY <1>1, <1>2, <1>3 DEF RowInv, Alone
<1>5. Covered' = Covered /\ Unseen(r)' = Unseen(r) /\ Once(r)' = Once(r)
  BY <1>1 DEF Covered, Unseen, Once
<1>6. /\ table[r] \in Nat /\ table[id] \in Nat /\ N(r) \in Nat /\ gone \in Nat
      /\ Covered \in Int /\ IsFiniteSet(Newer(r))
      /\ total \in Nat /\ answer.meta.items \in Nat
  BY <1>1, <1>2, Numbers, NewerFinite
<1>7. CASE table[id] > table[r]
  <2>1. Newer(r)' = Newer(r) \ {id} /\ id \in Newer(r)
    BY <1>1, <1>2, <1>3, <1>7 DEF Newer
  <2>2. N(r)' = N(r) - 1
    BY <1>6, <2>1, FS_RemoveElement DEF N
  <2>3. ~(gone' <= table[r])
    BY <1>1, <1>6, <1>7 DEF Newest
  <2>4. /\ N(r) < total => N(r)' < total
        /\ N(r) < answer.meta.items => N(r)' < answer.meta.items
        /\ N(r) < Covered => N(r)' < Covered
    BY <1>6, <2>2
  <2> QED
    BY <1>1, <1>2, <1>4, <1>5, <2>3, <2>4 DEF RowInv
<1>8. CASE ~(table[id] > table[r])
  <2>1. Newer(r)' = Newer(r)
    BY <1>1, <1>2, <1>3, <1>8 DEF Newer
  <2>2. N(r)' = N(r)
    BY <2>1 DEF N
  <2>3. gone' <= table[r] => gone <= table[r]
    BY <1>1, <1>6, <1>8 DEF Newest
  <2> QED
    BY <1>1, <1>2, <1>4, <1>5, <2>2, <2>3 DEF RowInv
<1> QED
  BY <1>7, <1>8

\* A page is what OnThePage says, and takes the walk a page further.
LEMMA QueryKeepsRow ==
  ASSUME TypeOK, TypeOK', QueryPage, NEW r \in steady', RowInv(r)
  PROVE  RowInv(r)'
<1> DEFINE off == (request.page - 1) * request.size
<1>1. PICK list \in GetAllUsers : Answer(Items(request, list))
  BY DEF QueryPage
<1> DEFINE items == Items(request, list)
<1>2. /\ at = "counted" /\ at' = "answered" /\ seen' = seen \o items
      /\ answer'.meta = NewPaginationMeta(request, total)
      /\ UNCHANGED <<table, steady, gone, came, request, from, late>>
  BY <1>1 DEF Answer, database, QueryPage
<1>3. /\ request.size \in Nat \ {0} /\ request.page \in Nat \ {0} /\ N(r) \in Nat
      /\ total \in Nat /\ answer'.meta.items = total /\ seen \in Seq(Ids) /\ items \in Seq(Ids)
  BY <1>2, Numbers, NewerFinite, MetaType, ListingType DEF TypeOK
<1>4. Covered = off /\ Covered' = off + request.size /\ off \in Int
  <2>1. Covered' = request.page * request.size
    BY <1>2 DEF Covered
  <2>2. request.page * request.size = off + request.size /\ off \in Int
    <3>1. request.size \in Nat /\ request.page \in Int
      BY <1>3
    <3> QED
      BY <3>1, PageEnd
  <2> QED
    BY <1>2, <2>1, <2>2 DEF Covered
<1>5. N(r)' = N(r) /\ Alone(r)' /\ Alone(r)
  BY <1>2 DEF RowInv, Alone, N, Newer
<1>6. /\ \A j \in 1..Len(items) : items[j] = r => off + j = N(r) + 1
      /\ off <= N(r) /\ N(r) < off + request.size => \E j \in 1..Len(items) : items[j] = r
      /\ \A j \in 1..Len(items) : off + j <= off + request.size
  <2>1. Len(items) <= request.size
    BY <1>3, ListingType DEF OnPage
  <2> QED
    BY <1>3, <1>4, <1>5, <2>1, OnThePage
<1> HIDE DEF items, off
<1>7. /\ Len(seen) \in Nat /\ Len(items) \in Nat /\ DOMAIN seen = 1..Len(seen)
      /\ DOMAIN seen' = 1..(Len(seen) + Len(items))
      /\ \A i \in 1..Len(seen) : seen'[i] = seen[i]
      /\ \A j \in 1..Len(items) : seen'[Len(seen) + j] = items[j]
  BY <1>2, <1>3
<1>8. \A i \in DOMAIN seen' :
        \/ i \in DOMAIN seen /\ seen'[i] = seen[i]
        \/ \E j \in 1..Len(items) : i = Len(seen) + j /\ seen'[i] = items[j]
  <2> SUFFICES ASSUME NEW i \in DOMAIN seen', i \notin DOMAIN seen
               PROVE  \E j \in 1..Len(items) : i = Len(seen) + j /\ seen'[i] = items[j]
    BY <1>7
  <2>1. i - Len(seen) \in 1..Len(items) /\ i = Len(seen) + (i - Len(seen))
    BY <1>7
  <2> QED
    BY <1>7, <2>1
<1>9. Unseen(r)' => Unseen(r) /\ \A j \in 1..Len(items) : items[j] # r
  <2>1. \A i \in DOMAIN seen : i \in DOMAIN seen' /\ seen'[i] = seen[i]
    BY <1>7
  <2>2. \A j \in 1..Len(items) : Len(seen) + j \in DOMAIN seen' /\ seen'[Len(seen) + j] = items[j]
    BY <1>7
  <2> QED
    BY <2>1, <2>2 DEF Unseen
<1>10. ASSUME from = 1, gone <= table[r], Unseen(r)' PROVE N(r) >= off + request.size
  <2>1. N(r) >= off
    BY <1>4, <1>9, <1>10 DEF RowInv
  <2> QED
    BY <1>3, <1>4, <1>6, <1>9, <1>10, <2>1
<1>11. ASSUME came <= table[r] PROVE Once(r)' /\ (Unseen(r)' \/ N(r) < off + request.size)
  <2>1. Once(r) /\ (Unseen(r) \/ N(r) < off)
    BY <1>4, <1>11 DEF RowInv
  <2>2. CASE \A j \in 1..Len(items) : items[j] # r
    <3>1. Once(r)'
      <4>1. \A i \in DOMAIN seen' : seen'[i] = r => i \in DOMAIN seen /\ seen[i] = r
        BY <1>8, <2>2
      <4> QED
        BY <2>1, <4>1 DEF Once
    <3>2. Unseen(r) => Unseen(r)'
      BY <1>8, <2>2 DEF Unseen
    <3>3. N(r) < off => N(r) < off + request.size
      BY <1>3, <1>4
    <3> QED
      BY <2>1, <3>1, <3>2, <3>3
  <2>3. CASE \E j \in 1..Len(items) : items[j] = r
    <3>1. PICK j \in 1..Len(items) : items[j] = r
      BY <2>3
    <3>2. off + j = N(r) + 1 /\ j >= 1 /\ off + j <= off + request.size /\ j \in Int
      BY <1>6, <1>7, <3>1
    <3>3. N(r) < off + request.size /\ ~(N(r) < off)
      BY <1>3, <1>4, <3>2
    <3>4. \A k \in 1..Len(items) : items[k] = r => k = j
      BY <1>3, <1>4, <1>6, <3>2
    <3>5. Unseen(r)
      BY <2>1, <3>3
    <3>6. \A i \in DOMAIN seen' : seen'[i] = r => i = Len(seen) + j
      BY <1>8, <3>4, <3>5 DEF Unseen
    <3> QED
      BY <3>3, <3>6 DEF Once
  <2> QED
    BY <2>2, <2>3
<1>12. late <= table[r] => N(r) < total
  BY <1>2 DEF RowInv
<1> QED
  BY <1>2, <1>3, <1>4, <1>5, <1>10, <1>11, <1>12 DEF RowInv

\* Every step keeps the place of every steady row.
LEMMA WalkNext == TypeOK /\ TypeOK' /\ WalkInv /\ [Next]_vars => WalkInv'
<1> SUFFICES ASSUME TypeOK, TypeOK', WalkInv, [Next]_vars PROVE WalkInv'
  OBVIOUS
<1>1. ASSUME NEW id \in Ids, NEW stamp \in Stamps, Insert(id, stamp) PROVE WalkInv'
  <2>1. MetaInv' /\ steady' \subseteq steady
    BY <1>1 DEF Insert, Counted, WalkInv, MetaInv
  <2> QED
    BY <1>1, <2>1, InsertKeepsRow DEF WalkInv
<1>2. ASSUME NEW id \in Ids, Delete(id) PROVE WalkInv'
  <2>1. MetaInv' /\ steady' \subseteq steady
    BY <1>2 DEF Delete, Counted, WalkInv, MetaInv
  <2> QED
    BY <1>2, <2>1, DeleteKeepsRow DEF WalkInv
<1>3. ASSUME NEW page \in PageRequests, NEW size \in SizeRequests, Begin(page, size)
      PROVE WalkInv'
  <2>1. /\ at' = "asked" /\ table' = table /\ seen' = <<>> /\ from' = request'.page
        /\ steady' = {r \in DOMAIN table : Alone(r)}
    BY <1>3 DEF Begin, Asked, Alone
  <2>2. ASSUME NEW r \in steady' PROVE RowInv(r)'
    <3>1. Alone(r)' /\ Unseen(r)' /\ Once(r)'
      BY <2>1 DEF Alone, Unseen, Once
    <3>2. from' = 1 => Covered' = 0
      <4>1. Covered' = (request'.page - 1) * request'.size /\ request'.size \in Int
        BY <2>1, PagesAssumption DEF Covered, TypeOK, Requests
      <4> QED
        BY <2>1, <4>1
    <3>3. N(r)' \in Nat
      <4>1. IsFiniteSet(DOMAIN table) /\ Newer(r)' \subseteq DOMAIN table
        BY <2>1, RowsFinite DEF Newer
      <4> QED
        BY <4>1, FS_Subset, FS_CardinalityType DEF N
    <3> QED
      BY <2>1, <3>1, <3>2, <3>3 DEF RowInv
  <2> QED
    BY <2>1, <2>2 DEF WalkInv, MetaInv
<1>4. CASE CountUsers
  <2>1. /\ at = "asked" /\ at' = "counted" /\ total' = Cardinality(DOMAIN table)
        /\ UNCHANGED <<table, steady, gone, came, request, answer, from, seen>>
    BY <1>4 DEF CountUsers, database, walk
  <2>2. ASSUME NEW r \in steady' PROVE RowInv(r)'
    <3>1. RowInv(r) /\ Alone(r)' /\ N(r)' = N(r) /\ Covered' = Covered
          /\ Unseen(r)' = Unseen(r) /\ Once(r)' = Once(r)
      BY <2>1 DEF WalkInv, RowInv, Alone, N, Newer, Covered, Unseen, Once
    <3>2. N(r) < total'
      <4>1. IsFiniteSet(DOMAIN table) /\ Newer(r) \subseteq DOMAIN table /\ r \in DOMAIN table
        BY RowsFinite, <3>1 DEF Newer, RowInv, Alone
      <4>2. r \notin Newer(r)
        BY <4>1, Numbers DEF Newer
      <4>3. N(r) <= Cardinality(DOMAIN table) /\ N(r) # Cardinality(DOMAIN table)
        BY <4>1, <4>2, FS_Subset DEF N
      <4> QED
        BY <2>1, <4>3, RowsFinite, NewerFinite
    <3> QED
      BY <2>1, <3>1, <3>2 DEF RowInv
  <2> QED
    BY <2>1, <2>2 DEF WalkInv, MetaInv
<1>5. CASE QueryPage
  <2>1. MetaInv' /\ steady' = steady
    <3>1. PICK list \in GetAllUsers : Answer(Items(request, list))
      BY <1>5 DEF QueryPage
    <3>2. request \in Requests /\ total \in Nat
      BY DEF TypeOK
    <3>3. answer'.meta.pages = TotalPages(request.size, total)
      BY <3>1, <3>2, MetaType DEF Answer, NewPaginationMeta
    <3> QED
      BY <3>1, <3>2, <3>3, MetaType DEF Answer, database, MetaInv
  <2> QED
    BY <1>5, <2>1, QueryKeepsRow DEF WalkInv
<1>6. CASE NextPage
  <2>1. /\ at = "answered" /\ at' = "asked" /\ request' = Validate(answer.meta.page + 1, answer.meta.size)
        /\ UNCHANGED <<table, steady, gone, came, from, seen>>
    BY <1>6 DEF NextPage, Asked, database, walk
  <2>2. request'.page - 1 = request.page /\ request'.size = request.size
    <3>1. answer.meta.page = request.page /\ answer.meta.size = request.size
      BY <2>1 DEF WalkInv, MetaInv
    <3>2. request.page \in Nat \ {0} /\ request.size \in 1..MaxPageSize
      BY DEF TypeOK, Requests
    <3> QED
      BY <2>1, <3>1, <3>2, PagesAssumption DEF Validate, NormalizePage, NormalizePageSize
  <2>3. Covered' = Covered
    BY <2>1, <2>2 DEF Covered
  <2>4. ASSUME NEW r \in steady' PROVE RowInv(r)'
    BY <2>1, <2>3 DEF WalkInv, RowInv, Alone, N, Newer, Unseen, Once
  <2> QED
    BY <2>1, <2>4 DEF WalkInv, MetaInv
<1>7. CASE Again \/ ReadFails
  <2>1. /\ at # "answered" /\ at' \in {"asked", "failed"}
        /\ UNCHANGED <<table, steady, gone, came, request, from, seen>>
    BY <1>7 DEF Again, ReadFails, Asked, database, walk
  <2>2. Covered' = Covered
    BY <2>1 DEF Covered
  <2>3. ASSUME NEW r \in steady' PROVE RowInv(r)'
    BY <2>1, <2>2 DEF WalkInv, RowInv, Alone, N, Newer, Unseen, Once
  <2> QED
    BY <2>1, <2>3 DEF WalkInv, MetaInv
<1>8. CASE UNCHANGED vars
  BY <1>8 DEF vars, WalkInv, MetaInv, RowInv, Alone, N, Newer, Unseen, Once, Covered
<1> QED
  BY <1>1, <1>2, <1>3, <1>4, <1>5, <1>6, <1>7, <1>8 DEF Next

\* What the invariant of the walk says once it has come to the last page.
LEMMA WalkEnds == TypeOK /\ WalkInv => MissesOnlyByDelete /\ RepeatsOnlyByInsert
<1> SUFFICES ASSUME TypeOK, WalkInv PROVE MissesOnlyByDelete /\ RepeatsOnlyByInsert
  OBVIOUS
<1>1. ASSUME Walked, NEW r \in steady, Places(r) = {}, ~(gone > table[r]), ~(late > table[r])
      PROVE  FALSE
  <2>1. RowInv(r) /\ Unseen(r) /\ table[r] \in Nat /\ N(r) \in Nat
    BY <1>1, Numbers, NewerFinite DEF WalkInv, RowInv, Alone, Places, Unseen
  <2>2. gone <= table[r] /\ late <= table[r]
    BY <1>1, <2>1, Numbers
  <2>3. N(r) < answer.meta.items /\ N(r) >= request.page * request.size
    BY <1>1, <2>1, <2>2 DEF Walked, RowInv, Covered
  <2>4. request.page >= TotalPages(request.size, answer.meta.items)
    BY <1>1 DEF Walked, WalkInv, MetaInv
  <2>5. /\ request.size \in Nat \ {0} /\ answer.meta.items \in Nat /\ request.page \in Int
    BY Numbers
  <2>6. TotalPages(request.size, answer.meta.items) \in Int
        /\ TotalPages(request.size, answer.meta.items) * request.size >= answer.meta.items
    BY <2>5, PagesHoldAll
  <2>7. request.page * request.size
          >= TotalPages(request.size, answer.meta.items) * request.size
    BY <2>4, <2>5, <2>6, LaterPage
  <2>8. request.page * request.size \in Int
        /\ TotalPages(request.size, answer.meta.items) * request.size \in Int
    BY <2>5, <2>6
  <2> QED
    BY <2>1, <2>3, <2>5, <2>6, <2>7, <2>8
<1>2. ASSUME NEW r \in steady, ~(came > table[r]) PROVE ~(Cardinality(Places(r)) > 1)
  <2>1. RowInv(r) /\ table[r] \in Nat
    BY Numbers DEF WalkInv, RowInv, Alone
  <2>2. Once(r)
    BY <1>2, <2>1, Numbers DEF RowInv
  <2>3. CASE Places(r) = {}
    BY <2>3, FS_EmptySet
  <2>4. CASE Places(r) # {}
    <3>1. PICK i \in DOMAIN seen : seen[i] = r
      BY <2>4 DEF Places
    <3>2. Places(r) = {i}
      BY <2>2, <3>1 DEF Places, Once
    <3> QED
      BY <3>2, FS_Singleton
  <2> QED
    BY <2>3, <2>4
<1> QED
  BY <1>1, <1>2 DEF MissesOnlyByDelete, RepeatsOnlyByInsert

LEMMA WalkInit == Init => WalkInv
BY DEF Init, WalkInv, MetaInv

\* Whatever is written during the walk, a row that stays is missed only by a
\* delete of a newer one, or an insert that the last total does not count.
THEOREM WalkMisses == Spec => []MissesOnlyByDelete
BY WalkInit, WalkNext, WalkEnds, TypeInit, TypeNext, PTL DEF Spec

\* And it comes twice only by an insert of a newer one.
THEOREM WalkRepeats == Spec => []RepeatsOnlyByInsert
BY WalkInit, WalkNext, WalkEnds, TypeInit, TypeNext, PTL DEF Spec

-----------------------------------------------------------------------------
(* A walk that nobody disturbs                                             *)

\* No row was written since the walk began, and every created_at is its row's own.
Quiet == gone = 0 /\ came = 0 /\ steady = DOMAIN table

\* What is seen of a quiet walk is the listing up to the end of the last page: each
\* row at its place, and as many as the pages or the table have.
PrefixInv ==
  LET n == Cardinality(DOMAIN table) IN
  Quiet /\ from = 1 =>
    /\ Len(seen) = IF Covered > n THEN n ELSE Covered
    /\ \A i \in 1..Len(seen) : seen[i] \in DOMAIN table /\ N(seen[i]) = i - 1
    /\ at = "counted" => total = n
    /\ at = "answered" => answer.meta.items = n

\* The next page of a quiet walk goes on where the listing was left.
LEMMA QueryKeepsPrefix ==
  ASSUME TypeOK, TypeOK', WalkInv, PrefixInv, QueryPage, Quiet', from' = 1
  PROVE  PrefixInv'
<1> DEFINE n   == Cardinality(DOMAIN table)
           off == (request.page - 1) * request.size
<1>1. PICK list \in GetAllUsers : Answer(Items(request, list))
  BY DEF QueryPage
<1> DEFINE items == Items(request, list)
<1>2. /\ at = "counted" /\ at' = "answered" /\ seen' = seen \o items
      /\ answer'.meta = NewPaginationMeta(request, total)
      /\ UNCHANGED <<table, steady, gone, came, request, from>>
  BY <1>1 DEF Answer, database, QueryPage
<1>3. /\ request.size \in Nat \ {0} /\ request.page \in Nat \ {0} /\ n \in Nat
      /\ request \in Requests /\ total \in Nat /\ seen \in Seq(Ids)
  BY Numbers, RowsFinite DEF TypeOK
<1>4. off \in Nat /\ Covered = off /\ Covered' = off + request.size
  <2>1. request.page - 1 \in Nat /\ request.size \in Nat
    BY <1>3
  <2>2. off \in Nat /\ request.page * request.size = off + request.size
    BY <1>3, <2>1, PageEnd
  <2> QED
    BY <1>2, <2>2 DEF Covered
<1>5. /\ Len(seen) = IF off > n THEN n ELSE off
      /\ \A i \in 1..Len(seen) : seen[i] \in DOMAIN table /\ N(seen[i]) = i - 1
      /\ total = n
  BY <1>2, <1>4 DEF PrefixInv, Quiet
<1>6. items \in Seq(DOMAIN table) /\ Len(items) = OnPage(request, n)
  <2>1. list \in [1..n -> DOMAIN table]
    BY DEF GetAllUsers, Listings
  <2> QED
    BY <1>3, <2>1, ItemsLength
<1>7. Len(items) = IF n - off < 0 THEN 0 ELSE IF n - off > request.size THEN request.size ELSE n - off
  BY <1>6 DEF OnPage
<1>8. \A j \in 1..Len(items) : items[j] \in DOMAIN table /\ off + j = N(items[j]) + 1
  <2> SUFFICES ASSUME NEW j \in 1..Len(items)
               PROVE  items[j] \in DOMAIN table /\ off + j = N(items[j]) + 1
    OBVIOUS
  <2>1. items[j] \in DOMAIN table
    BY <1>6
  <2>2. Alone(items[j])
    BY <1>2, <2>1 DEF Quiet, WalkInv, RowInv
  <2> QED
    BY <2>1, <2>2, OnThePage
<1> HIDE DEF n, off, items
<1>9. \A i : N(seen[i])' = N(seen'[i])
  BY <1>2 DEF N, Newer
<1>10. /\ Len(seen') = Len(seen) + Len(items)
       /\ \A i \in 1..Len(seen) : seen'[i] = seen[i]
       /\ \A j \in 1..Len(items) : seen'[Len(seen) + j] = items[j]
       /\ Len(seen) \in Nat /\ Len(items) \in Nat
  BY <1>2, <1>3, <1>6
<1>11. Len(seen') = IF off + request.size > n THEN n ELSE off + request.size
  BY <1>3, <1>4, <1>5, <1>7, <1>10
<1>12. ASSUME NEW i \in 1..Len(seen') PROVE seen'[i] \in DOMAIN table' /\ N(seen[i])' = i - 1
  <2>1. CASE i \in 1..Len(seen)
    <3>1. seen'[i] = seen[i] /\ seen[i] \in DOMAIN table /\ N(seen[i]) = i - 1
      BY <1>5, <1>10, <2>1
    <3> QED
      BY <1>2, <1>9, <3>1
  <2>2. CASE i \notin 1..Len(seen)
    <3> DEFINE j == i - Len(seen)
    <3>1. j \in 1..Len(items) /\ i = Len(seen) + j
      BY <1>10, <2>2
    <3>2. Len(seen) = off
      BY <1>3, <1>4, <1>5, <1>7, <3>1
    <3>3. seen'[i] = items[j] /\ items[j] \in DOMAIN table /\ off + j = N(items[j]) + 1
      BY <1>8, <1>10, <3>1
    <3>4. N(items[j]) \in Nat
      BY NewerFinite
    <3>5. N(items[j]) = i - 1
      BY <1>4, <3>1, <3>2, <3>3, <3>4
    <3> QED
      BY <1>2, <1>9, <3>3, <3>5
  <2> QED
    BY <2>1, <2>2
<1>13. answer'.meta.items = n
  BY <1>2, <1>3, <1>5, MetaType
<1>14. n = Cardinality(DOMAIN table') /\ at' = "answered"
  BY <1>2 DEF n
<1> QED
  BY <1>4, <1>11, <1>12, <1>13, <1>14 DEF PrefixInv

\* Every step of a quiet walk keeps what is seen a prefix of the listing.
LEMMA PrefixNext == TypeOK /\ TypeOK' /\ WalkInv /\ PrefixInv /\ [Next]_vars => PrefixInv'
<1> SUFFICES ASSUME TypeOK, TypeOK', WalkInv, PrefixInv, [Next]_vars, Quiet', from' = 1
             PROVE  PrefixInv'
  BY DEF PrefixInv
<1>1. ASSUME NEW id \in Ids, NEW stamp \in Stamps, Insert(id, stamp) PROVE FALSE
  <2>1. came' = Newest(came, stamp) /\ came \in Nat /\ stamp \in Nat \ {0}
    BY <1>1, Numbers, PagesAssumption DEF Insert
  <2>2. came' # 0
    BY <2>1 DEF Newest
  <2> QED
    BY <2>2 DEF Quiet
<1>2. ASSUME NEW id \in Ids, Delete(id) PROVE FALSE
  <2>1. gone' = Newest(gone, table[id]) /\ gone \in Nat /\ table[id] \in Stamps
    BY <1>2, Numbers DEF Delete, TypeOK
  <2>2. table[id] \in Nat \ {0}
    BY <2>1, PagesAssumption
  <2>3. gone' # 0
    BY <2>1, <2>2 DEF Newest
  <2> QED
    BY <2>3 DEF Quiet
<1>3. ASSUME NEW page \in PageRequests, NEW size \in SizeRequests, Begin(page, size)
      PROVE PrefixInv'
  <2>1. at' = "asked" /\ seen' = <<>> /\ request'.page = 1 /\ table' = table
    BY <1>3 DEF Begin, Asked
  <2>2. Covered' = 0
    <3>1. Covered' = (1 - 1) * request'.size /\ request'.size \in Int
      BY <2>1, PagesAssumption DEF Covered, TypeOK, Requests
    <3> QED
      BY <3>1
  <2>3. Cardinality(DOMAIN table') \in Nat
    BY <2>1, RowsFinite
  <2> QED
    BY <2>1, <2>2, <2>3 DEF PrefixInv
<1>4. CASE CountUsers
  <2>1. /\ at = "asked" /\ at' = "counted" /\ total' = Cardinality(DOMAIN table)
        /\ UNCHANGED <<table, steady, gone, came, request, answer, from, seen>>
    BY <1>4 DEF CountUsers, database, walk
  <2>2. Covered' = Covered /\ \A r : N(r)' = N(r)
    BY <2>1 DEF Covered, N, Newer
  <2> QED
    BY <2>1, <2>2 DEF PrefixInv, Quiet
<1>5. CASE QueryPage
  BY <1>5, QueryKeepsPrefix
<1>6. CASE NextPage
  <2>1. /\ at = "answered" /\ at' = "asked" /\ request' = Validate(answer.meta.page + 1, answer.meta.size)
        /\ UNCHANGED <<table, steady, gone, came, from, seen>>
    BY <1>6 DEF NextPage, Asked, database, walk
  <2>2. request'.page - 1 = request.page /\ request'.size = request.size
    <3>1. answer.meta.page = request.page /\ answer.meta.size = request.size
      BY <2>1 DEF WalkInv, MetaInv
    <3>2. request.page \in Nat \ {0} /\ request.size \in 1..MaxPageSize
      BY DEF TypeOK, Requests
    <3> QED
      BY <2>1, <3>1, <3>2, PagesAssumption DEF Validate, NormalizePage, NormalizePageSize
  <2>3. Covered' = Covered /\ \A r : N(r)' = N(r)
    BY <2>1, <2>2 DEF Covered, N, Newer
  <2> QED
    BY <2>1, <2>3 DEF PrefixInv, Quiet
<1>7. CASE Again \/ ReadFails
  <2>1. /\ at # "answered" /\ at' \in {"asked", "failed"}
        /\ UNCHANGED <<table, steady, gone, came, request, from, seen>>
    BY <1>7 DEF Again, ReadFails, Asked, database, walk
  <2>2. Covered' = Covered /\ \A r : N(r)' = N(r)
    BY <2>1 DEF Covered, N, Newer
  <2> QED
    BY <2>1, <2>2 DEF PrefixInv, Quiet
<1>8. CASE UNCHANGED vars
  BY <1>8 DEF vars, PrefixInv, Quiet, Covered, N, Newer
<1> QED
  BY <1>1, <1>2, <1>3, <1>4, <1>5, <1>6, <1>7, <1>8 DEF Next

\* Before the first walk nothing is seen, and nothing covered.
LEMMA PrefixInit == Init => PrefixInv
<1> SUFFICES ASSUME Init PROVE PrefixInv
  OBVIOUS
<1>1. TypeOK /\ at = "idle" /\ seen = <<>> /\ request = Validate(1, 0)
  BY TypeInit DEF Init
<1>2. Covered = 0
  <2>1. request.page = 1 /\ request.size \in Int
    BY <1>1, PagesAssumption DEF Validate, NormalizePage, NormalizePageSize
  <2>2. Covered = (1 - 1) * request.size
    BY <1>1, <2>1 DEF Covered
  <2> QED
    BY <2>1, <2>2
<1> QED
  BY <1>1, <1>2, RowsFinite DEF PrefixInv

\* A row with fewer rows newer than it is the newer one.
LEMMA FewerIsNewer ==
  ASSUME TypeOK, NEW r \in DOMAIN table, NEW s \in DOMAIN table, N(r) < N(s)
  PROVE  table[r] >= table[s]
<1>1. table[r] \in Nat /\ table[s] \in Nat /\ N(r) \in Nat /\ N(s) \in Nat
  BY Numbers, NewerFinite
<1>2. ASSUME table[r] < table[s] PROVE FALSE
  <2>1. Newer(s) \subseteq Newer(r)
    BY <1>1, <1>2, Numbers DEF Newer
  <2>2. N(s) <= N(r)
    BY <2>1, NewerFinite, FS_Subset DEF N
  <2> QED
    BY <1>1, <2>2
<1> QED
  BY <1>1, <1>2

\* At its last page a quiet walk has seen what GetAll answers.
LEMMA PrefixEnds == TypeOK /\ WalkInv /\ PrefixInv => WalkIsListing
<1> SUFFICES ASSUME TypeOK, WalkInv, PrefixInv, Walked, Quiet PROVE seen \in GetAllUsers
  BY DEF WalkIsListing, Quiet
<1> DEFINE n == Cardinality(DOMAIN table)
<1>1. /\ n \in Nat /\ seen \in Seq(Ids) /\ Covered \in Int
      /\ request.size \in Nat \ {0} /\ request.page \in Int /\ answer.meta.items \in Nat
  BY Numbers, RowsFinite DEF TypeOK
<1>2. /\ Len(seen) = IF Covered > n THEN n ELSE Covered
      /\ \A i \in 1..Len(seen) : seen[i] \in DOMAIN table /\ N(seen[i]) = i - 1
      /\ answer.meta.items = n
  BY DEF PrefixInv, Walked
<1> HIDE DEF n
<1>3. Covered >= n
  <2>1. request.page >= TotalPages(request.size, n) /\ Covered = request.page * request.size
    BY <1>2 DEF Walked, WalkInv, MetaInv, Covered
  <2>2. TotalPages(request.size, n) \in Int /\ TotalPages(request.size, n) * request.size >= n
    BY <1>1, PagesHoldAll
  <2>3. request.page * request.size >= TotalPages(request.size, n) * request.size
    BY <1>1, <2>1, <2>2, LaterPage
  <2>4. TotalPages(request.size, n) * request.size \in Int /\ request.page * request.size \in Int
    BY <1>1, <2>2
  <2> QED
    BY <1>1, <2>1, <2>2, <2>3, <2>4
<1>4. Len(seen) = n
  BY <1>1, <1>2, <1>3
<1>5. seen \in [1..n -> DOMAIN table]
  BY <1>1, <1>2, <1>4
<1>6. ASSUME NEW i \in 1..n, NEW j \in 1..n, i < j
      PROVE  seen[i] # seen[j] /\ table[seen[i]] >= table[seen[j]]
  <2>1. /\ seen[i] \in DOMAIN table /\ N(seen[i]) = i - 1
        /\ seen[j] \in DOMAIN table /\ N(seen[j]) = j - 1
    BY <1>2, <1>4
  <2>2. N(seen[i]) < N(seen[j]) /\ N(seen[i]) # N(seen[j])
    BY <1>1, <1>6, <2>1
  <2> QED
    BY <2>1, <2>2, FewerIsNewer
<1> QED
  BY <1>5, <1>6 DEF GetAllUsers, Listings, n

\* The pages of a walk during which nobody writes are together what GetAll
\* answers, for any table whose rows have a created_at each and any page size.
THEOREM WalkWhole == Spec => []WalkIsListing
BY PrefixInit, PrefixNext, PrefixEnds, WalkInit, WalkNext, TypeInit, TypeNext, PTL DEF Spec
================================================================================

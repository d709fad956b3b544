---------------------------------- MODULE Pages ----------------------------------
(***************************************************************************)
(* Listing users: GetAll, GetAllPaginated with its two queries, and a      *)
(* client that walks through the pages while rows come and go.             *)
(*                                                                         *)
(* The walk matters because no page is read in the state another one was   *)
(* read in, nor the total of a page in the state of its rows: the two      *)
(* queries of a call are in no transaction.  created_at is not unique (the *)
(* column has the resolution of the database's TIMESTAMP), and ORDER BY it *)
(* leaves rows with the same one in any order, in every query anew.        *)
(*                                                                         *)
(* A row is its id and its created_at, which no update changes.  An insert *)
(* has the NOW() of its start and is seen when it commits, so that its     *)
(* created_at may be older than that of rows already there.                *)
(***************************************************************************)
EXTENDS Integers, Sequences, FiniteSets

CONSTANTS
  Ids,
  Stamps,           \* the values of created_at
  PageRequests,     \* the page numbers asked for first
  SizeRequests,     \* the page sizes asked for
  DefaultPageSize,  \* 10 in the source
  MaxPageSize,      \* 100 in the source
  MaxWrites         \* bound: writes between the two queries of a call

ASSUME PagesAssumption ==
  /\ Stamps \subseteq Nat \ {0} /\ IsFiniteSet(Ids)
  /\ PageRequests \subseteq Int /\ SizeRequests \subseteq Int
  /\ DefaultPageSize \in 1..MaxPageSize /\ MaxPageSize \in Nat
  /\ MaxWrites \in Nat

VARIABLES
  table,    \* the rows: created_at by id
  at,       \* where the client's call is
  request,  \* the PaginationRequest after Validate
  total,    \* totalCount
  answer,   \* the last PaginatedUsers
  from,     \* the page it began at
  seen,     \* the rows of this walk, page after page
  \* What has happened, for the properties:
  steady,   \* rows that are there since the walk began, their created_at their own
  gone,     \* the newest row deleted during the walk (0 if none)
  came,     \* the newest row inserted during the walk
  late,     \* the newest row inserted since the last count
  writes    \* rows inserted and deleted since the last count

database == <<table, steady, gone, came>>
walk == <<from, seen>>
vars == <<table, at, request, total, answer, from, seen, steady, gone, came, late, writes>>

Newest(a, b) == IF a > b THEN a ELSE b

-----------------------------------------------------------------------------
(* pkg/util/pagination.go and domain/pagination.go                         *)

NormalizePage(page) == IF page < 1 THEN 1 ELSE page

NormalizePageSize(size) ==
  IF size <= 0 THEN DefaultPageSize ELSE IF size > MaxPageSize THEN MaxPageSize ELSE size

Validate(page, size) == [page |-> NormalizePage(page), size |-> NormalizePageSize(size)]

\* mutant: the last page, when it is not full, is not counted.
TotalPages_RoundsDown(size, items) == items \div size

TotalPages(size, items) == (items \div size) + (IF items % size # 0 THEN 1 ELSE 0)

NewPaginationMeta(req, items) ==
  LET size == NormalizePageSize(req.size)
  IN  [page |-> NormalizePage(req.page), size |-> size, items |-> items,
       pages |-> TotalPages(size, items)]

-----------------------------------------------------------------------------
(* The queries                                                             *)

\* ORDER BY created_at DESC: the orders a query may give the rows it selects.
Listings(rows) ==
  { list \in [1..Cardinality(rows) -> rows] :
      \A i, j \in DOMAIN list : i < j => list[i] # list[j] /\ table[list[i]] >= table[list[j]] }

GetAllUsers == Listings(DOMAIN table)

\* mutant: pages counted from zero.
Offset_FromZero(req) == req.page * req.size

Offset(req) == (req.page - 1) * req.size

\* mutant: a row more, to know whether there is a next page, and never dropped.
Limit_OneMore(req) == req.size + 1

Limit(req) == req.size

Items(req, list) ==
  LET past == Offset(req) + Limit(req)
  IN  IF Offset(req) >= Len(list) THEN <<>>
      ELSE SubSeq(list, Offset(req) + 1, IF past > Len(list) THEN Len(list) ELSE past)

-----------------------------------------------------------------------------
(* The other users of the table                                            *)

Counted(ins, del) ==
  /\ at = "counted" => writes.ins + writes.del < MaxWrites
  /\ writes' = IF at = "counted" THEN [ins |-> writes.ins + ins, del |-> writes.del + del]
               ELSE writes
  /\ UNCHANGED <<at, request, total, answer, walk>>

\* AddUser.
Insert(id, stamp) ==
  /\ id \notin DOMAIN table
  /\ table' = [r \in DOMAIN table \cup {id} |-> IF r = id THEN stamp ELSE table[r]]
  /\ steady' = {r \in steady : table[r] # stamp}
  /\ came' = Newest(came, stamp) /\ late' = Newest(late, stamp)
  /\ UNCHANGED gone /\ Counted(1, 0)

\* DeleteUser.
Delete(id) ==
  /\ id \in DOMAIN table
  /\ table' = [r \in DOMAIN table \ {id} |-> table[r]]
  /\ steady' = steady \ {id}
  /\ gone' = Newest(gone, table[id])
  /\ UNCHANGED <<came, late>> /\ Counted(0, 1)

-----------------------------------------------------------------------------
(* The client's calls, and GetAllPaginated                                 *)

Nothing == [items |-> <<>>, meta |-> NewPaginationMeta(Validate(1, 0), 0)]

\* The client keeps the rows of a page, and of its meta asks for the next one.
Asked ==
  /\ at' = "asked" /\ total' = 0 /\ answer' = Nothing
  /\ late' = 0 /\ writes' = [ins |-> 0, del |-> 0]

\* A walk begins, at some page and with some size.
Begin(page, size) ==
  /\ at \in {"idle", "failed", "answered"}
  /\ request' = Validate(page, size)
  /\ from' = request'.page /\ seen' = <<>>
  /\ steady' = {r \in DOMAIN table : \A other \in DOMAIN table \ {r} : table[other] # table[r]}
  /\ gone' = 0 /\ came' = 0 /\ Asked
  /\ UNCHANGED table

\* The next page, while the last answer says that there is one.
NextPage ==
  /\ at = "answered" /\ answer.meta.page < answer.meta.pages /\ Asked
  /\ request' = Validate(answer.meta.page + 1, answer.meta.size)
  /\ UNCHANGED <<database, walk>>

\* The same page, after an error.
Again ==
  /\ at = "failed" /\ Asked
  /\ UNCHANGED <<database, request, walk>>

CountUsers ==
  /\ at = "asked" /\ at' = "counted"
  /\ total' = Cardinality(DOMAIN table)
  /\ late' = 0 /\ writes' = [ins |-> 0, del |-> 0]
  /\ UNCHANGED <<database, request, answer, walk>>

Answer(items) ==
  /\ at' = "answered" /\ total' = 0
  /\ answer' = [items |-> items, meta |-> NewPaginationMeta(request, total)]
  /\ seen' = seen \o items
  /\ UNCHANGED <<database, request, from, late, writes>>

\* mutant: rows.Err() is not looked at, and a page cut short is a page.
QueryPage_IgnoresRowsErr ==
  /\ at = "counted"
  /\ \E list \in GetAllUsers, n \in 0..MaxPageSize :
       n <= Len(Items(request, list)) /\ Answer(SubSeq(Items(request, list), 1, n))

QueryPage ==
  /\ at = "counted"
  /\ \E list \in GetAllUsers : Answer(Items(request, list))

\* Either query, the scan of a row or rows.Err() fails, or queryTimeout is over:
\* the rows read so far are dropped.
ReadFails ==
  /\ at \in {"asked", "counted"} /\ at' = "failed" /\ total' = 0
  /\ UNCHANGED <<database, request, answer, walk, late, writes>>

-----------------------------------------------------------------------------
Init ==
  /\ table \in UNION {[rows -> Stamps] : rows \in SUBSET Ids}
  /\ at = "idle" /\ request = Validate(1, 0) /\ total = 0 /\ answer = Nothing
  /\ from = 1 /\ seen = <<>>
  /\ steady = {} /\ gone = 0 /\ came = 0 /\ late = 0 /\ writes = [ins |-> 0, del |-> 0]

Next ==
  \/ \E id \in Ids, stamp \in Stamps : Insert(id, stamp)
  \/ \E id \in Ids : Delete(id)
  \/ \E page \in PageRequests, size \in SizeRequests : Begin(page, size)
  \/ NextPage \/ Again \/ CountUsers \/ QueryPage \/ ReadFails

Spec == Init /\ [][Next]_vars

-----------------------------------------------------------------------------
Requests == [page : Nat \ {0}, size : 1..MaxPageSize]

Metas == [page : Nat \ {0}, size : 1..MaxPageSize, items : Nat, pages : Int]

TypeOK ==
  /\ DOMAIN table \subseteq Ids /\ table \in [DOMAIN table -> Stamps]
  /\ at \in {"idle", "asked", "counted", "answered", "failed"}
  /\ request \in Requests /\ total \in Nat
  /\ answer \in [items : Seq(Ids), meta : Metas]
  /\ from \in Nat \ {0} /\ seen \in Seq(Ids)
  /\ steady \subseteq DOMAIN table
  /\ {gone, came, late} \subseteq Stamps \cup {0}
  /\ writes \in [ins : Nat, del : Nat]

\* How many of n rows a page holds.
OnPage(meta, n) ==
  LET rest == n - (meta.page - 1) * meta.size
  IN  IF rest < 0 THEN 0 ELSE IF rest > meta.size THEN meta.size ELSE rest

\* "one page of users plus the total row count": the two are read one after the
\* other, so they disagree, but by no more than the rows written in between; and
\* whatever fails while rows are read, no page is answered that lacks some.
MetaMatchesItems ==
  at = "answered" =>
    /\ Len(answer.items) >= OnPage(answer.meta, answer.meta.items - writes.del)
    /\ Len(answer.items) <= OnPage(answer.meta, answer.meta.items + writes.ins)

\* A walk from page 1 to the last page that the last answer counted.
Walked == at = "answered" /\ from = 1 /\ answer.meta.page >= answer.meta.pages

Places(r) == {i \in DOMAIN seen : seen[i] = r}

\* A client that asks for every page misses a row, which was there all the time and
\* shares its created_at with none, only when a newer row was deleted meanwhile, or
\* one inserted after the total of the last page was counted.
MissesOnlyByDelete ==
  Walked => \A r \in steady : Places(r) = {} => gone > table[r] \/ late > table[r]

\* It gets such a row twice only when a newer one was inserted meanwhile.
RepeatsOnlyByInsert ==
  \A r \in steady : Cardinality(Places(r)) > 1 => came > table[r]

\* Without writes during the walk, and no created_at shared, the pages together
\* are what GetAll answers, in its order.
WalkIsListing ==
  Walked /\ gone = 0 /\ came = 0 /\ steady = DOMAIN table => seen \in GetAllUsers
=============================================================================

----------------------------- MODULE TailPager -----------------------------
(***************************************************************************)
(* Reading messages of one topic: FetchMessages (from an offset on) and     *)
(* TailMessages (the latest ones, and older ones page by page), as          *)
(* operators over the records the broker has.                               *)
(*                                                                          *)
(* recs is a set of records [part, off, ts]; begin and end give the log     *)
(* start and log end offset of every partition.  A cursor gives, for every  *)
(* partition, the offset below which nothing has been served yet; it is     *)
(* kept by the client, encoded in the answer.  A fetch that fails or times  *)
(* out answers with the records it has by then: stop gives the offset each  *)
(* partition's fetch comes to.                                              *)
(***************************************************************************)
EXTENDS Naturals, FiniteSets

CONSTANTS Limit,       \* messages on a page (50)
          MinWindow    \* the smallest window read from a partition (50)

ASSUME PagerAssumption == Limit \in Nat \ {0} /\ MinWindow \in Nat \ {0}

\* Offsets read from one partition for one page.
Window == IF 2 * Limit < MinWindow THEN MinWindow ELSE 2 * Limit

Low(b, high) == IF high - b > Window THEN high - Window ELSE b

Span(recs, p, lo, hi) ==
  {m \in recs : m.part = p /\ lo <= m.off /\ m.off < hi}

\* What the fetches can deliver that come to the offsets stop.
Read(recs, stop) == {m \in recs : m.off < stop[m.part]}

\* fetchPartitionForward: from lo on, at most n records.
Forward(recs, p, lo, hi, n) ==
  LET span == Span(recs, p, lo, hi)
  IN  {m \in span : Cardinality({o \in span : o.off < m.off}) < n}

\* FetchMessages: n messages from the given offset, or from the log start.
Lookup(recs, begin, end, p, from, n) ==
  Forward(recs, p, IF from < begin[p] THEN begin[p] ELSE from, end[p], n)

\* The windows of TailMessages, merged; a window that yields nothing is
\* passed over.
Pool(recs, begin, cur) ==
  UNION {Forward(recs, p, Low(begin[p], cur[p]), cur[p], Window)
           : p \in {q \in DOMAIN begin : cur[q] > begin[q]}}

\* Messages of the windows that fetches broke off before.
Unread(recs, stop, begin, cur) ==
  Pool(recs, begin, cur) \ Pool(Read(recs, stop), begin, cur)

\* A fetch that breaks off before its first record fails the request instead.
SomeRead(recs, stop, begin, cur) ==
  {m.part : m \in Pool(recs, begin, cur)}
    = {m.part : m \in Pool(Read(recs, stop), begin, cur)}

\* sortMessagesNewestFirst.
Newer(m, n) ==
  \/ m.ts > n.ts
  \/ m.ts = n.ts /\ m.part < n.part
  \/ m.ts = n.ts /\ m.part = n.part /\ m.off > n.off

\* The page: the newest Limit messages of the pool.
Page(pool) ==
  {m \in pool : Cardinality({n \in pool : Newer(n, m)}) < Limit}

Offsets(ms, p) == {m.off : m \in {x \in ms : x.part = p}}
Least(S) == CHOOSE n \in S : \A k \in S : n <= k

\* Slip: the last message of a page is served again.
NextCursorTwice(cur, pool) ==
  [p \in DOMAIN cur |->
     IF Offsets(Page(pool), p) # {} THEN Least(Offsets(Page(pool), p)) + 1
     ELSE IF Offsets(pool, p) # {} THEN Least(Offsets(pool, p))
     ELSE cur[p]]

\* Slip: the next page goes on below everything that was read.
NextCursorPastPool(cur, pool) ==
  [p \in DOMAIN cur |->
     IF Offsets(pool, p) # {} THEN Least(Offsets(pool, p)) ELSE cur[p]]

\* The next page goes on below what this page shows of a partition, or below
\* the whole window when the page shows nothing of it.
NextCursor(cur, pool) ==
  [p \in DOMAIN cur |->
     IF Offsets(Page(pool), p) # {} THEN Least(Offsets(Page(pool), p))
     ELSE IF Offsets(pool, p) # {} THEN Least(Offsets(pool, p))
     ELSE cur[p]]

HasMore(begin, cur) == \E p \in DOMAIN begin : cur[p] > begin[p]

\* TailMessages for the given cursor; the first page starts at the log ends.
TailPage(recs, stop, begin, cur) ==
  LET pool == Pool(Read(recs, stop), begin, cur)
      next == NextCursor(cur, pool)
  IN  [items |-> Page(pool), more |-> HasMore(begin, next), cursor |-> next]
=============================================================================

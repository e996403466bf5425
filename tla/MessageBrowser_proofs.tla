----------------------- MODULE MessageBrowser_proofs -----------------------
(***************************************************************************)
(* Theorems about the pages of TailMessages, for every log, page size and   *)
(* window, and about the page that shows them, for any topics, partitions   *)
(* and filters, any producers and retention and any user.                   *)
(***************************************************************************)
EXTENDS MessageBrowser, OrderTheorems

\* The records of a topic: numbers in their fields, and one record per
\* partition and offset.
Records(recs) ==
  /\ IsFiniteSet(recs)
  /\ \A m \in recs : m.part \in Nat /\ m.off \in Nat /\ m.ts \in Nat
Unique(recs) ==
  \A m, n \in recs : m.part = n.part /\ m.off = n.off => m = n

\* The log start of every partition, and a cursor for the same partitions.
Bounds(first, cur) ==
  /\ DOMAIN cur = DOMAIN first
  /\ \A p \in DOMAIN first : first[p] \in Nat /\ cur[p] \in Nat

-----------------------------------------------------------------------------
(* What is read.                                                           *)

LEMMA WindowNat == Window \in Nat \ {0} /\ Window >= Limit
BY PagerAssumption DEF Window

\* A window starts at or above the log start and has at most Window offsets.
LEMMA LowOK ==
  ASSUME NEW b \in Nat, NEW high \in Nat, b < high
  PROVE  /\ Low(b, high) \in Nat /\ b <= Low(b, high)
         /\ Low(b, high) < high /\ high - Low(b, high) <= Window
BY WindowNat DEF Low

\* What is delivered are records of the topic.
LEMMA ReadOK ==
  ASSUME NEW recs, NEW stop
  PROVE  /\ Read(recs, stop) \subseteq recs
         /\ Records(recs) => Records(Read(recs, stop))
<1>1. Read(recs, stop) \in SUBSET recs
  BY DEF Read
<1>2. ASSUME IsFiniteSet(recs) PROVE IsFiniteSet(Read(recs, stop))
  BY <1>1, <1>2, FS_Subset
<1> QED BY <1>1, <1>2 DEF Records

LEMMA PoolInside ==
  ASSUME NEW recs, NEW first, NEW cur, Bounds(first, cur), Records(recs),
         NEW m \in Pool(recs, first, cur)
  PROVE  /\ m \in recs /\ m.part \in DOMAIN first
         /\ first[m.part] <= m.off /\ m.off < cur[m.part]
<1>1. PICK p \in DOMAIN first : /\ cur[p] > first[p]
                                /\ m \in Forward(recs, p, Low(first[p], cur[p]),
                                                 cur[p], Window)
  BY DEF Pool
<1>2. /\ m \in recs /\ m.part = p
      /\ Low(first[p], cur[p]) <= m.off /\ m.off < cur[p]
  BY <1>1 DEF Forward, Span
<1>3. first[p] \in Nat /\ cur[p] \in Nat /\ m.off \in Nat
  BY <1>2 DEF Bounds, Records
<1>4. Low(first[p], cur[p]) \in Nat /\ first[p] <= Low(first[p], cur[p])
  BY <1>1, <1>3, LowOK
<1> QED BY <1>2, <1>3, <1>4

\* The records of one partition between two offsets are at most as many as the
\* offsets.
LEMMA SpanSize ==
  ASSUME NEW recs, Records(recs), Unique(recs), NEW p,
         NEW lo \in Nat, NEW hi \in Nat, lo <= hi
  PROVE  /\ IsFiniteSet(Span(recs, p, lo, hi))
         /\ Cardinality(Span(recs, p, lo, hi)) <= hi - lo
<1> DEFINE S == Span(recs, p, lo, hi)
           I == lo..hi - 1
           f == [m \in S |-> m.off]
<1>1. IsFiniteSet(I) /\ Cardinality(I) = hi - lo
  <2>1. lo \in Int /\ hi - 1 \in Int
    OBVIOUS
  <2>2. IsFiniteSet(I) /\ Cardinality(I) = IF lo > hi - 1 THEN 0 ELSE hi - 1 - lo + 1
    BY <2>1, FS_Interval
  <2> QED BY <2>2
<1>2. f \in Injection(S, I)
  <2>1. \A m \in S : m.off \in I
    BY DEF Span, Records
  <2>2. \A m, n \in S : m.off = n.off => m = n
    BY DEF Span, Unique
  <2> QED BY <2>1, <2>2 DEF Injection, IsInjective
<1> QED BY <1>1, <1>2, FS_Injection

\* A window is read in full.
LEMMA WindowRead ==
  ASSUME NEW recs, NEW first, NEW cur, Bounds(first, cur), Records(recs),
         Unique(recs), NEW m \in recs, m.part \in DOMAIN first,
         first[m.part] < cur[m.part],
         Low(first[m.part], cur[m.part]) <= m.off, m.off < cur[m.part]
  PROVE  m \in Pool(recs, first, cur)
<1> DEFINE p == m.part
           lo == Low(first[p], cur[p])
           span == Span(recs, p, lo, cur[p])
           lower == {o \in span : o.off < m.off}
<1>1. first[p] \in Nat /\ cur[p] \in Nat /\ m.off \in Nat
  BY DEF Bounds, Records
<1>2. lo \in Nat /\ cur[p] - lo <= Window
  BY <1>1, LowOK
<1>3. lower = Span(recs, p, lo, m.off)
  BY <1>1, <1>2 DEF Span, Records
<1>4. IsFiniteSet(lower) /\ Cardinality(lower) <= m.off - lo
  BY <1>1, <1>2, <1>3, SpanSize
<1>5. Cardinality(lower) < Window
  <2>1. Cardinality(lower) \in Nat
    BY <1>4, FS_CardinalityType
  <2> QED BY <1>1, <1>2, <1>4, <2>1, WindowNat
<1>6. m \in Forward(recs, p, lo, cur[p], Window)
  <2>1. m \in span
    BY DEF Span
  <2> QED BY <2>1, <1>5 DEF Forward
<1> QED BY <1>1, <1>6 DEF Pool

-----------------------------------------------------------------------------
(* What is shown, and where the next page goes on.                         *)

LEMMA LeastOK ==
  ASSUME NEW S \in SUBSET Nat, S # {}
  PROVE  Least(S) \in S /\ \A k \in S : Least(S) <= k
BY LeastOfNaturals DEF Least

LEMMA NewerTransitive ==
  ASSUME NEW recs, Records(recs), NEW x \in recs, NEW m \in recs, NEW n \in recs,
         Newer(x, m), Newer(m, n)
  PROVE  Newer(x, n)
BY DEF Newer, Records

\* What is newer than a message on the page is on the page.
LEMMA PageUpward ==
  ASSUME NEW pool, Records(pool), NEW n \in Page(pool), NEW m \in pool,
         Newer(m, n)
  PROVE  m \in Page(pool)
<1> DEFINE Over(k) == {x \in pool : Newer(x, k)}
<1>1. n \in pool /\ Cardinality(Over(n)) < Limit
  BY DEF Page
<1>2. Over(m) \subseteq Over(n)
  BY <1>1, NewerTransitive
<1>3. IsFiniteSet(Over(n))
  BY FS_Subset DEF Records
<1>4. Cardinality(Over(m)) <= Cardinality(Over(n))
  BY <1>2, <1>3, FS_Subset
<1>5. Cardinality(Over(m)) \in Nat /\ Cardinality(Over(n)) \in Nat
  BY <1>2, <1>3, FS_Subset, FS_CardinalityType
<1>6. Cardinality(Over(m)) < Limit
  BY <1>1, <1>4, <1>5, PagerAssumption
<1> QED BY <1>6 DEF Page

LEMMA PoolRecords ==
  ASSUME NEW recs, NEW first, NEW cur, Bounds(first, cur), Records(recs)
  PROVE  Records(Pool(recs, first, cur))
<1>1. Pool(recs, first, cur) \subseteq recs
  BY PoolInside
<1> QED BY <1>1, FS_Subset DEF Records

\* The next cursor of a partition: the lowest offset shown of it, or the lowest
\* read, or the old one.
LEMMA NextCursorOK ==
  ASSUME NEW recs, NEW first, NEW cur, Bounds(first, cur), Records(recs),
         NEW p \in DOMAIN first
  PROVE  LET pool == Pool(recs, first, cur)
             next == NextCursor(cur, pool)[p]
         IN  /\ next \in Nat /\ next <= cur[p]
             /\ first[p] <= cur[p] => first[p] <= next
             /\ \A m \in Page(pool) : m.part = p => next <= m.off
             /\ \A m \in pool : m.part = p => next < cur[p]
<1> DEFINE pool == Pool(recs, first, cur)
           next == NextCursor(cur, pool)[p]
           shown == Offsets(Page(pool), p)
           read == Offsets(pool, p)
<1>1. cur[p] \in Nat /\ first[p] \in Nat /\ p \in DOMAIN cur
  BY DEF Bounds
<1>2. \A k \in read : k \in Nat /\ first[p] <= k /\ k < cur[p]
  BY PoolInside DEF Offsets, Records
<1>3. shown \subseteq read /\ read \in SUBSET Nat
  BY <1>2 DEF Offsets, Page
<1>4. next = IF shown # {} THEN Least(shown)
             ELSE IF read # {} THEN Least(read) ELSE cur[p]
  BY <1>1 DEF NextCursor
<1>5. /\ \A m \in Page(pool) : m.part = p => m.off \in shown
      /\ \A m \in pool : m.part = p => m.off \in read
  BY DEF Offsets
<1> HIDE DEF pool, next, shown, read
<1>6. CASE shown # {}
  <2>1. Least(shown) \in shown /\ \A k \in shown : Least(shown) <= k
    BY <1>3, <1>6, LeastOK
  <2>2. next \in Nat /\ first[p] <= next /\ next < cur[p]
    BY <1>2, <1>3, <1>4, <1>6, <2>1
  <2> QED BY <1>1, <1>4, <1>5, <1>6, <2>1, <2>2 DEF pool, next
<1>7. CASE shown = {} /\ read # {}
  <2>1. Least(read) \in read
    BY <1>3, <1>7, LeastOK
  <2>2. next \in Nat /\ first[p] <= next /\ next < cur[p]
    BY <1>2, <1>4, <1>7, <2>1
  <2> QED BY <1>1, <1>5, <1>7, <2>2 DEF pool, next
<1>8. CASE shown = {} /\ read = {}
  BY <1>1, <1>3, <1>4, <1>5, <1>8 DEF pool, next
<1> QED BY <1>6, <1>7, <1>8

-----------------------------------------------------------------------------
(* The promises.                                                           *)

\* Two pages in a row share no row, whatever was produced, expired or
\* compacted between them and wherever their fetches broke off (TailMessages
\* with the cursor of the page before): this is what OlderPagesNew rests on.
THEOREM PagesDisjoint ==
  ASSUME NEW recs, NEW stop, NEW first, NEW cur, Bounds(first, cur), Records(recs),
         NEW later, NEW halt, NEW start, Records(later),
         Bounds(start, TailPage(recs, stop, first, cur).cursor),
         NEW m \in TailPage(recs, stop, first, cur).items,
         NEW n \in TailPage(later, halt, start,
                            TailPage(recs, stop, first, cur).cursor).items
  PROVE  ~(m.part = n.part /\ m.off <= n.off)
<1> DEFINE next == NextCursor(cur, Pool(Read(recs, stop), first, cur))
<1>1. PICK read, then : read = Read(recs, stop) /\ then = Read(later, halt)
  OBVIOUS
<1>2. Records(read) /\ Records(then)
  BY <1>1, ReadOK
<1>3. /\ m \in Page(Pool(read, first, cur)) /\ n \in Pool(then, start, next)
      /\ Bounds(start, next) /\ next = NextCursor(cur, Pool(read, first, cur))
  BY <1>1 DEF TailPage, Page
<1>4. m \in Pool(read, first, cur)
  BY <1>3 DEF Page
<1>5. m.part \in DOMAIN first /\ m.off \in Nat
  BY <1>2, <1>4, PoolInside DEF Records
<1> HIDE DEF next
<1>6. next[m.part] \in Nat /\ next[m.part] <= m.off
  BY <1>2, <1>3, <1>5, NextCursorOK
<1>7. n.off \in Nat /\ n.off < next[n.part]
  BY <1>2, <1>3, PoolInside DEF Records
<1> QED BY <1>5, <1>6, <1>7

\* What a page leaves out between the cursor and the next one, in a partition
\* it shows something of, is what a fetch broke off before, or a message with
\* an earlier time stamp than a message of the page that was written before
\* it.  (In a partition it shows nothing of it leaves out more:
\* tail_skips_messages.)
THEOREM NoGapWherePageShows ==
  ASSUME NEW recs, NEW stop, NEW first, NEW cur, Bounds(first, cur),
         Records(recs), Unique(recs),
         NEW n \in TailPage(recs, stop, first, cur).items,
         NEW m \in recs, m.part = n.part, m.off < cur[m.part],
         TailPage(recs, stop, first, cur).cursor[m.part] <= m.off
  PROVE  \/ m \in TailPage(recs, stop, first, cur).items
         \/ m \in Unread(recs, stop, first, cur)
         \/ \E k \in TailPage(recs, stop, first, cur).items :
              k.part = m.part /\ k.off < m.off /\ k.ts > m.ts
<1> DEFINE p == n.part
<1>1. PICK read, pool : read = Read(recs, stop) /\ pool = Pool(read, first, cur)
  OBVIOUS
<1> DEFINE shown == Offsets(Page(pool), p)
<1>2. Records(read) /\ read \subseteq recs
  BY <1>1, ReadOK
<1>3. TailPage(recs, stop, first, cur).items = Page(pool)
      /\ TailPage(recs, stop, first, cur).cursor = NextCursor(cur, pool)
  BY <1>1 DEF TailPage
<1>4. n \in Page(pool) /\ n \in pool
  BY <1>3 DEF Page
<1>5. p \in DOMAIN first /\ p \in DOMAIN cur
  BY <1>1, <1>2, <1>4, PoolInside DEF Bounds
<1>6. shown # {} /\ shown \in SUBSET Nat
  <2>1. \A x \in Page(pool) : x.off \in Nat
    BY <1>1, <1>2, PoolInside DEF Page, Records
  <2> QED BY <1>4, <2>1 DEF Offsets
<1>7. NextCursor(cur, pool)[p] = Least(shown)
  BY <1>5, <1>6 DEF NextCursor
<1>8. PICK k \in Page(pool) : k.part = p /\ k.off = Least(shown)
  BY <1>6, LeastOK DEF Offsets
<1>9. k \in pool /\ k \in recs /\ m.off \in Nat /\ k.off \in Nat
      /\ k.ts \in Nat /\ m.ts \in Nat
  BY <1>1, <1>2, <1>8, PoolInside DEF Page, Records
<1>10. k.off <= m.off
  BY <1>3, <1>7, <1>8
<1>11. m \in Pool(recs, first, cur)
  <2>1. first[p] \in Nat /\ cur[p] \in Nat /\ first[p] < cur[p]
    BY <1>1, <1>2, <1>4, <1>5, PoolInside DEF Bounds, Records
  <2>2. Low(first[p], cur[p]) <= k.off
    BY <1>1, <1>8, <1>9 DEF Pool, Forward, Span
  <2>3. Low(first[p], cur[p]) \in Nat
    BY <2>1, LowOK
  <2>4. Low(first[p], cur[p]) <= m.off
    BY <1>9, <1>10, <2>2, <2>3
  <2> QED BY <1>5, <2>1, <2>4, WindowRead
<1>12. CASE m \notin pool
  BY <1>1, <1>11, <1>12 DEF Unread
<1>13. CASE m \in pool /\ k.off = m.off
  <2>1. m = k
    BY <1>8, <1>9, <1>13 DEF Unique
  <2> QED BY <1>3, <1>8, <2>1
<1>14. CASE m \in pool /\ k.off < m.off /\ Newer(m, k)
  <2>1. Records(pool)
    BY <1>1, <1>2, PoolRecords
  <2> QED BY <1>3, <1>8, <1>14, <2>1, PageUpward
<1>15. CASE k.off < m.off /\ ~Newer(m, k)
  <2>1. k.ts > m.ts
    BY <1>8, <1>9, <1>15 DEF Newer
  <2> QED BY <1>3, <1>8, <1>15, <2>1
<1> QED BY <1>9, <1>10, <1>12, <1>13, <1>14, <1>15

\* As long as the fetches deliver a record, the next cursor lies strictly below
\* the last one somewhere and above it nowhere: loading older messages gets
\* further (TailMessages).
THEOREM PagingGetsFurther ==
  ASSUME NEW recs, NEW stop, NEW first, NEW cur, Bounds(first, cur), Records(recs),
         Pool(Read(recs, stop), first, cur) # {}
  PROVE  LET next == TailPage(recs, stop, first, cur).cursor
         IN  /\ DOMAIN next = DOMAIN cur
             /\ \A p \in DOMAIN cur : next[p] <= cur[p]
             /\ \E p \in DOMAIN cur : next[p] < cur[p]
<1>1. PICK read, pool : read = Read(recs, stop) /\ pool = Pool(read, first, cur)
  OBVIOUS
<1>2. PICK next : next = NextCursor(cur, pool)
  OBVIOUS
<1>3. TailPage(recs, stop, first, cur).cursor = next /\ DOMAIN next = DOMAIN cur
  BY <1>1, <1>2 DEF TailPage, NextCursor
<1>4. Records(read)
  BY <1>1, ReadOK
<1>5. \A p \in DOMAIN cur : next[p] <= cur[p]
  BY <1>1, <1>2, <1>4, NextCursorOK DEF Bounds
<1>6. PICK m \in pool : TRUE
  BY <1>1
<1>7. m.part \in DOMAIN first /\ m.part \in DOMAIN cur
  BY <1>1, <1>4, <1>6, PoolInside DEF Bounds
<1>8. next[m.part] < cur[m.part]
  BY <1>1, <1>2, <1>4, <1>6, <1>7, NextCursorOK
<1> QED BY <1>3, <1>5, <1>7, <1>8

-----------------------------------------------------------------------------
(* Rows.                                                                   *)

\* A partition has one message at an offset.
Agree(m, n) ==
  m.topic = n.topic /\ m.part = n.part /\ m.off = n.off => m = n
Consistent(S) == \A m, n \in S : Agree(m, n)

\* n may stand below m.
Above(m, n) == Newer(m, n) \/ n.off < m.off
Descending(rows) == \A i, j \in DOMAIN rows : i < j => Above(rows[i], rows[j])

LEMMA MessageFields ==
  ASSUME NEW m \in Message
  PROVE  m.topic \in Topics /\ m.part \in Nat /\ m.off \in Nat /\ m.ts \in Nat
BY BrowserAssumption DEF Message

\* The sort of the rows puts every message of a topic somewhere.
LEMMA NewerOrders ==
  ASSUME NEW S \in SUBSET Message, Consistent(S), NEW t, \A m \in S : m.topic = t
  PROVE  Orders({r \in S \X S : Newer(r[1], r[2])}, S)
<1> DEFINE R == {r \in S \X S : Newer(r[1], r[2])}
<1>1. \A x, y \in S : <<x, y>> \in R <=> Newer(x, y)
  OBVIOUS
<1>2. \A x \in S : x.part \in Nat /\ x.off \in Nat /\ x.ts \in Nat
  BY MessageFields
<1>3. ASSUME NEW x \in S, NEW y \in S
      PROVE  x = y \/ Newer(x, y) \/ Newer(y, x)
  BY <1>2 DEF Newer, Consistent, Agree
<1>4. ASSUME NEW x \in S PROVE ~Newer(x, x)
  BY <1>2 DEF Newer
<1>5. ASSUME NEW x \in S, NEW y \in S, NEW z \in S, Newer(x, y), Newer(y, z)
      PROVE  Newer(x, z)
  BY <1>2, <1>5 DEF Newer
<1> HIDE DEF R
<1>6. Orders(R, S)
  BY <1>1, <1>3, <1>4, <1>5 DEF Orders
<1> QED BY <1>6 DEF R

LEMMA InOrderRows ==
  ASSUME NEW T, NEW S \in SUBSET T, IsFiniteSet(S), NEW R, Orders(R, S)
  PROVE  /\ InOrder(S, R) \in Seq(T) /\ ToSet(InOrder(S, R)) = S
         /\ \A i, j \in DOMAIN InOrder(S, R) :
              i < j => <<InOrder(S, R)[i], InOrder(S, R)[j]>> \in R
<1>1. PICK n \in Nat : n = Cardinality(S)
  BY FS_CardinalityType
<1>2. PICK s : s = InOrder(S, R)
  OBVIOUS
<1>3. /\ s \in [1..n -> S]
      /\ \A x \in S : \E k \in 1..n : s[k] = x
      /\ \A i, j \in 1..n : i < j => <<s[i], s[j]>> \in R
  BY <1>1, <1>2, InOrderOK
<1>4. s \in Seq(T) /\ DOMAIN s = 1..n
  BY <1>3
<1>5. ToSet(s) = S
  BY <1>3, <1>4 DEF ToSet
<1> QED BY <1>2, <1>3, <1>4, <1>5

LEMMA SortedOK ==
  ASSUME NEW S \in SUBSET Message, IsFiniteSet(S), Consistent(S),
         NEW t, \A m \in S : m.topic = t
  PROVE  Sorted(S) \in Seq(Message) /\ ToSet(Sorted(S)) = S /\ Descending(Sorted(S))
<1> DEFINE R == {r \in S \X S : Newer(r[1], r[2])}
<1>1. Orders(R, S)
  BY NewerOrders
<1>2. \A x, y : <<x, y>> \in R => Above(x, y)
  BY DEF Above
<1>3. Sorted(S) = InOrder(S, R)
  BY DEF Sorted
<1> HIDE DEF R
<1>4. /\ InOrder(S, R) \in Seq(Message) /\ ToSet(InOrder(S, R)) = S
      /\ \A i, j \in DOMAIN InOrder(S, R) :
           i < j => <<InOrder(S, R)[i], InOrder(S, R)[j]>> \in R
  BY <1>1, InOrderRows
<1> QED BY <1>2, <1>3, <1>4 DEF Descending

LEMMA ByOffsetOK ==
  ASSUME NEW S \in SUBSET Message, IsFiniteSet(S),
         \A m, n \in S : m.off = n.off => m = n
  PROVE  ByOffset(S) \in Seq(Message) /\ ToSet(ByOffset(S)) = S
<1> DEFINE R == {r \in S \X S : r[1].off < r[2].off}
<1>1. Orders(R, S)
  <2>1. \A x \in S : x.off \in Nat
    BY MessageFields
  <2>2. \A x, y \in S : <<x, y>> \in R <=> x.off < y.off
    OBVIOUS
  <2> HIDE DEF R
  <2> QED BY <2>1, <2>2 DEF Orders
<1>2. ByOffset(S) = InOrder(S, R)
  BY DEF ByOffset
<1> HIDE DEF R
<1> QED BY <1>1, <1>2, InOrderRows

LEMMA ToSetOK == ASSUME NEW s, NEW x PROVE x \in ToSet(s) <=> \E i \in DOMAIN s : s[i] = x
BY DEF ToSet

LEMMA RowsAppended ==
  ASSUME NEW old \in Seq(Message), NEW r \in Seq(Message)
  PROVE  /\ old \o r \in Seq(Message)
         /\ \A x : x \in ToSet(old \o r) <=> x \in ToSet(old) \/ x \in ToSet(r)
<1>1. PICK a \in Nat, b \in Nat : a = Len(old) /\ b = Len(r)
  OBVIOUS
<1>2. DOMAIN old = 1..a /\ DOMAIN r = 1..b
  BY <1>1
<1>3. PICK s : s = old \o r
  OBVIOUS
<1>4. /\ s \in Seq(Message) /\ DOMAIN s = 1..a + b
      /\ \A i \in 1..a : s[i] = old[i]
      /\ \A i \in 1..b : s[a + i] = r[i]
  BY <1>1, <1>3
<1>5. \A i \in 1..a : i \in 1..a + b
  OBVIOUS
<1>6. \A i \in 1..b : a + i \in 1..a + b
  OBVIOUS
<1>7. \A i \in 1..a + b : i \in 1..a \/ (i - a \in 1..b /\ a + (i - a) = i)
  OBVIOUS
<1>8. ASSUME NEW x, x \in ToSet(s) PROVE x \in ToSet(old) \/ x \in ToSet(r)
  <2>1. PICK i \in 1..a + b : s[i] = x
    BY <1>4, <1>8, ToSetOK
  <2>2. CASE i \in 1..a
    BY <1>2, <1>4, <2>1, <2>2, ToSetOK
  <2>3. CASE i - a \in 1..b /\ a + (i - a) = i
    BY <1>2, <1>4, <2>1, <2>3, ToSetOK
  <2> QED BY <1>7, <2>2, <2>3
<1>9. ASSUME NEW x, x \in ToSet(old) \/ x \in ToSet(r) PROVE x \in ToSet(s)
  <2>1. CASE x \in ToSet(old)
    BY <1>2, <1>4, <1>5, <2>1, ToSetOK
  <2>2. CASE x \in ToSet(r)
    BY <1>2, <1>4, <1>6, <2>2, ToSetOK
  <2> QED BY <1>9, <2>1, <2>2
<1> QED BY <1>3, <1>4, <1>8, <1>9

LEMMA RowsDescend ==
  ASSUME NEW old \in Seq(Message), NEW r \in Seq(Message),
         Descending(old), Descending(r),
         \A m \in ToSet(old), n \in ToSet(r) : Above(m, n)
  PROVE  Descending(old \o r)
<1>1. PICK a \in Nat, b \in Nat : a = Len(old) /\ b = Len(r)
  OBVIOUS
<1>2. DOMAIN old = 1..a /\ DOMAIN r = 1..b
  BY <1>1
<1>3. PICK s : s = old \o r
  OBVIOUS
<1>4. /\ DOMAIN s = 1..a + b
      /\ \A i \in 1..a : s[i] = old[i]
      /\ \A i \in 1..b : s[a + i] = r[i]
  BY <1>1, <1>3
<1>5. \A i \in 1..a + b : i \in 1..a \/ \E k \in 1..b : i = a + k
  <2>1. ASSUME NEW i \in 1..a + b, i \notin 1..a PROVE i - a \in 1..b /\ i = a + (i - a)
    BY <2>1
  <2> QED BY <2>1
<1>6. ASSUME NEW i \in 1..a + b, NEW j \in 1..a + b, i < j
      PROVE  Above(s[i], s[j])
  <2>1. CASE i \in 1..a /\ j \in 1..a
    BY <1>2, <1>4, <1>6, <2>1 DEF Descending
  <2>2. ASSUME i \in 1..a, NEW l \in 1..b, j = a + l PROVE Above(s[i], s[j])
    BY <1>2, <1>4, <2>2, ToSetOK
  <2>3. ASSUME NEW k \in 1..b, i = a + k, NEW l \in 1..b, j = a + l
        PROVE  Above(s[i], s[j])
    <3>1. k < l
      BY <1>6, <2>3
    <3>2. s[i] = r[k] /\ s[j] = r[l]
      BY <1>4, <2>3
    <3> QED BY <1>2, <3>1, <3>2 DEF Descending
  <2>4. ASSUME NEW k \in 1..b, i = a + k PROVE j \notin 1..a
    BY <1>6, <2>4
  <2> QED BY <1>5, <2>1, <2>2, <2>3, <2>4
<1> QED BY <1>3, <1>4, <1>6 DEF Descending

\* Merge appends the rows that the first sequence has no row for.
LEMMA MergeOK ==
  ASSUME NEW old \in Seq(Message), NEW new \in Seq(Message)
  PROVE  /\ Merge(old, new) \in Seq(Message)
         /\ ToSet(Merge(old, new)) \subseteq ToSet(old) \cup ToSet(new)
         /\ ToSet(old) \subseteq ToSet(Merge(old, new))
         /\ \A n \in ToSet(new) : (\A m \in ToSet(old) : ~SameRow(m, n))
                                    => n \in ToSet(Merge(old, new))
<1> DEFINE at == Unseen(old, new)
<1>1. at \in SUBSET DOMAIN new
  BY DEF Unseen
<1>2. PICK r : r = Taken(new, at)
  OBVIOUS
<1>3. /\ r \in Seq(Message)
      /\ \A k \in DOMAIN r : \E i \in at : r[k] = new[i]
      /\ \A i \in at : \E k \in DOMAIN r : r[k] = new[i]
  BY <1>1, <1>2, TakenOK
<1>4. Merge(old, new) = old \o r
  BY <1>2 DEF Merge
<1>5. /\ old \o r \in Seq(Message)
      /\ \A x : x \in ToSet(old \o r) <=> x \in ToSet(old) \/ x \in ToSet(r)
  BY <1>3, RowsAppended
<1>6. ToSet(r) \subseteq ToSet(new)
  BY <1>1, <1>3, ToSetOK
<1>7. ASSUME NEW n \in ToSet(new), \A m \in ToSet(old) : ~SameRow(m, n)
      PROVE  n \in ToSet(r)
  <2>1. PICK i \in DOMAIN new : new[i] = n
    BY <1>7, ToSetOK
  <2>2. i \in at
    BY <1>7, <2>1, ToSetOK DEF Unseen
  <2> QED BY <1>3, <2>1, <2>2, ToSetOK
<1> QED BY <1>4, <1>5, <1>6, <1>7

\* Rows in order stay in order when older ones are appended.
LEMMA MergeDescends ==
  ASSUME NEW old \in Seq(Message), NEW new \in Seq(Message),
         Descending(old), Descending(new),
         \A m \in ToSet(old), n \in ToSet(new) : Above(m, n)
  PROVE  Descending(Merge(old, new))
<1> DEFINE at == Unseen(old, new)
<1>1. at \in SUBSET DOMAIN new
  BY DEF Unseen
<1>2. PICK r : r = Taken(new, at)
  OBVIOUS
<1>3. /\ r \in Seq(Message)
      /\ \A k \in DOMAIN r : \E i \in at : r[k] = new[i]
      /\ \A k, l \in DOMAIN r : k < l =>
           \E i, j \in at : i < j /\ r[k] = new[i] /\ r[l] = new[j]
  BY <1>1, <1>2, TakenOK
<1>4. Merge(old, new) = old \o r
  BY <1>2 DEF Merge
<1>5. Descending(r)
  BY <1>1, <1>3 DEF Descending
<1>6. \A m \in ToSet(old), n \in ToSet(r) : Above(m, n)
  BY <1>1, <1>3, ToSetOK
<1> QED BY <1>3, <1>4, <1>5, <1>6, RowsDescend

-----------------------------------------------------------------------------
(* The inductive invariant: the broker, the cached results and the rows.   *)

Cached == {k \in Key : cache[k] # None}
Kept == UNION {cache[k].items : k \in Cached}

\* Everything the broker has and the page still holds.
Known == log \cup Kept \cup ToSet(paging.older)

\* m was written.
Real(m) == /\ m \in Message /\ m.part \in Parts[m.topic]
           /\ m.off < end[m.topic][m.part]

OffsetsOK(t, p) ==
  begin[t][p] \in Nat /\ end[t][p] \in 0..MaxOffset /\ begin[t][p] <= end[t][p]

BrokerOK ==
  /\ IsFiniteSet(log)
  /\ DOMAIN begin = Topics /\ DOMAIN end = Topics
  /\ \A t \in Topics : /\ DOMAIN begin[t] = Parts[t] /\ DOMAIN end[t] = Parts[t]
                       /\ \A p \in Parts[t] : OffsetsOK(t, p)
  /\ \A m \in log : begin[m.topic][m.part] <= m.off

\* A message is the same wherever it is held.
KnownOK == (\A m \in Known : Real(m)) /\ Consistent(Known)

\* A cursor of topic t, and one with nothing below it.
Cursor(cur, t) == DOMAIN cur = Parts[t] /\ \A p \in Parts[t] : cur[p] \in Nat
Exhausted(cur, t) == \A p \in Parts[t] : cur[p] <= begin[t][p]
Single(t) == Parts[t] = {0}

\* m is not missing from S: it is there, a fetch broke off before it, or it has
\* an earlier time stamp than a message of S that was written before it.
InOrExcused(m, S) ==
  \/ m \in S \/ m \in unread
  \/ \E k \in S : k.part = m.part /\ k.off < m.off /\ k.ts > m.ts

\* The answer to a tail query: its messages lie above its cursor, and with one
\* partition none is missing between them.
TailOK(c, t) ==
  /\ Cursor(c.cursor, t) /\ \A p \in Parts[t] : c.cursor[p] <= end[t][p]
  /\ \A m \in c.items : c.cursor[m.part] <= m.off
  /\ ~c.more => Exhausted(c.cursor, t)
  /\ Single(t) => \A m \in log, n \in c.items :
                    m.topic = t /\ c.cursor[0] <= m.off /\ m.off < n.off
                      => InOrExcused(m, c.items)

FilterOK(c, f) ==
  \A m \in c.items : m.part = f.part /\ (f.from # None => f.from <= m.off)

ResultOK(c, k) ==
  /\ IsFiniteSet(c.items) /\ \A m \in c.items : m.topic = k.topic
  /\ k.filter = Latest => TailOK(c, k.topic)
  /\ k.filter # Latest => FilterOK(c, k.filter)

CacheOK == DOMAIN cache = Key /\ \A k \in Cached : ResultOK(cache[k], k)

\* The partitions of some topic.
Partitions(cur) == DOMAIN cur \in {Parts[t] : t \in Topics}

ScreenOK ==
  /\ Here \in Key /\ fetching \subseteq Key
  /\ paging.older \in Seq(Message)
  /\ paging.cursor # None => Partitions(paging.cursor)
  /\ asked # None => Partitions(asked.cursor)
  /\ unread \subseteq Message

LiveOK ==
  /\ live \in [on : BOOLEAN, shown : Seq(Message)]
  /\ Len(live.shown) <= LiveMax
  /\ \A m \in ToSet(live.shown) : m.topic = topic
  /\ live.on => filter = Latest
  /\ wsNext # None => live.on

\* Whatever overlaps.
Base == BrokerOK /\ KnownOK /\ CacheOK /\ ScreenOK /\ LiveOK

\* Rows are of the selected topic, between its cursors lo and hi; with one
\* partition they are in order and none is missing.
Between(rows, lo, hi) ==
  \A m \in ToSet(rows) : /\ m.topic = topic
                         /\ lo[m.part] <= m.off /\ m.off < hi[m.part]
Complete(rows, lo, hi) ==
  /\ Descending(rows)
  /\ \A m \in log : m.topic = topic /\ lo[0] <= m.off /\ m.off < hi[0]
                      => InOrExcused(m, ToSet(rows))

PagedOK(pg, cur) ==
  /\ filter = Latest /\ cache[Here] # None /\ Cursor(pg.cursor, topic)
  /\ \A p \in Parts[topic] : pg.cursor[p] <= cur[p]
  /\ ~pg.more => Exhausted(pg.cursor, topic)
  /\ Between(pg.older, pg.cursor, cur)
  /\ Single(topic) => Complete(pg.older, pg.cursor, cur)

\* The older rows follow the cached tail; what is asked for follows them.
PagingOK ==
  /\ paging.cursor = None => paging.older = <<>>
  /\ paging.cursor # None => PagedOK(paging, cache[Here].cursor)
AskedOK ==
  asked # None => /\ asked = [topic |-> topic, cursor |-> paging.cursor]
                  /\ paging.cursor # None /\ Here \notin fetching

Paged == PagingOK /\ AskedOK

-----------------------------------------------------------------------------
(* The log.                                                                *)

LEMMA NaturalsRanked ==
  ASSUME NEW S, IsFiniteSet(S), Orders(Ascending(S), S)
  PROVE  /\ \A x \in S : Rank(S, Ascending(S), x) \in 0..Cardinality(S) - 1
         /\ \A k \in 0..Cardinality(S) - 1 : \E x \in S : Rank(S, Ascending(S), x) = k
BY RankBijective

\* The offsets below any of them are all there: they are the first ones.
LEMMA FirstNaturals ==
  ASSUME NEW S \in SUBSET Nat, IsFiniteSet(S),
         \A m \in S : \A o \in Nat : o < m => o \in S
  PROVE  Cardinality(S) \in Nat /\ \A k \in Nat : k \in S <=> k < Cardinality(S)
<1> DEFINE R == Ascending(S)
<1>1. Orders(R, S) /\ \A x, y \in S : <<x, y>> \in R <=> x < y
  BY PositionsOrdered DEF Ascending
<1> HIDE DEF R
<1>2. PICK n \in Nat : n = Cardinality(S)
  BY FS_CardinalityType
<1>3. ASSUME NEW x \in S PROVE Rank(S, R, x) = x
  <2>1. {y \in S : <<y, x>> \in R} = 0..x - 1
    <3>1. \A y : y \in 0..x - 1 <=> y \in Nat /\ y < x
      OBVIOUS
    <3>2. \A y : y \in Nat /\ y < x => y \in S
      OBVIOUS
    <3> QED BY <1>1, <3>1, <3>2
  <2>2. Cardinality(0..x - 1) = x
    <3>1. 0 \in Int /\ x - 1 \in Int
      OBVIOUS
    <3>2. Cardinality(0..x - 1) = IF 0 > x - 1 THEN 0 ELSE x - 1 - 0 + 1
      BY <3>1, FS_Interval
    <3> QED BY <3>2
  <2> QED BY <2>1, <2>2 DEF Rank
<1>4. /\ \A x \in S : Rank(S, R, x) \in 0..n - 1
      /\ \A k \in 0..n - 1 : \E x \in S : Rank(S, R, x) = k
  BY <1>1, <1>2, NaturalsRanked DEF R
<1>5. ASSUME NEW k \in Nat, k < n PROVE k \in S
  <2>1. k \in 0..n - 1
    BY <1>2, <1>5
  <2> QED BY <1>3, <1>4, <2>1
<1>6. ASSUME NEW k \in S PROVE k < n
  BY <1>2, <1>3, <1>4
<1> QED BY <1>2, <1>5, <1>6

\* The messages of a topic are records as the pager wants them.
LEMMA TopicRecords ==
  ASSUME BrokerOK, KnownOK, NEW t \in Topics
  PROVE  /\ Records(Of(t)) /\ Unique(Of(t))
         /\ Of(t) \in SUBSET Message /\ Of(t) \subseteq log /\ Consistent(Of(t))
         /\ \A m \in Of(t) : m.topic = t /\ m.part \in Parts[t] /\ begin[t][m.part] <= m.off
                             /\ m.off < end[t][m.part]
<1>1. Of(t) \subseteq log /\ Of(t) \subseteq Known /\ \A m \in Of(t) : m.topic = t
  BY DEF Of, Known
<1>2. IsFiniteSet(Of(t))
  BY <1>1, FS_Subset DEF BrokerOK
<1>3. \A m \in Of(t) : Real(m) /\ m \in Message
  BY <1>1 DEF KnownOK, Real
<1>4. Consistent(Of(t))
  BY <1>1 DEF KnownOK, Consistent
<1>5. Records(Of(t)) /\ Unique(Of(t))
  BY <1>1, <1>2, <1>3, <1>4, MessageFields
     DEF Records, Unique, Consistent, Agree
<1>6. \A m \in Of(t) : /\ m.topic = t /\ m.part \in Parts[t] /\ begin[t][m.part] <= m.off
                       /\ m.off < end[t][m.part]
  BY <1>1, <1>3 DEF Real, BrokerOK
<1> QED BY <1>1, <1>3, <1>4, <1>5, <1>6

\* A prefix of every partition is what the start log has.
LEMMA StartOffsets ==
  ASSUME NEW t \in Topics, NEW p \in Parts[t], NEW n, n = Ends(t, StartLog)[p]
  PROVE  /\ n \in 0..MaxOffset
         /\ \A k \in Nat : k < n <=> \E m \in StartLog : m.topic = t /\ m.part = p
                                                         /\ m.off = k
<1> DEFINE X == {x \in StartLog : x.topic = t /\ x.part = p}
           S == {m.off : m \in X}
           f == [m \in X |-> m.off]
<1>1. MaxOffset \in Nat /\ StartLog \subseteq Message /\ IsFiniteSet(StartLog)
  BY BrowserAssumption, StartAssumption
<1>2. IsFiniteSet(X) /\ f \in Surjection(X, S)
  <2>1. X \in SUBSET StartLog
    OBVIOUS
  <2>2. IsFiniteSet(X)
    BY <1>1, <2>1, FS_Subset
  <2> QED BY <2>2 DEF Surjection
<1>3. IsFiniteSet(S)
  BY <1>2, FS_Surjection
<1>4. S \subseteq 0..MaxOffset /\ \A k \in S : k < MaxOffset
  BY <1>1, StartAssumption DEF Message
<1>5. ASSUME NEW m \in X, NEW o \in Nat, o < m.off PROVE o \in S
  <2>1. m \in StartLog /\ o \in 0..MaxOffset
    BY <1>1, <1>4, <1>5
  <2>2. \E k \in StartLog : k.topic = m.topic /\ k.part = m.part /\ k.off = o
    BY <1>5, <2>1, StartAssumption
  <2> QED BY <2>2
<1>6. n = Cardinality(S)
  BY DEF Ends
<1>7. \A k : k \in S <=> \E m \in StartLog : m.topic = t /\ m.part = p /\ m.off = k
  OBVIOUS
<1>8. \A k \in S : \A o \in Nat : o < k => o \in S
  BY <1>5
<1> HIDE DEF S, X, f
<1>9. n \in Nat /\ \A k \in Nat : k \in S <=> k < n
  <2>1. S \in SUBSET Nat
    BY <1>4
  <2> QED BY <1>3, <1>6, <1>8, <2>1, FirstNaturals
<1>10. n <= MaxOffset
  BY <1>1, <1>4, <1>9
<1> QED BY <1>1, <1>7, <1>9, <1>10

LEMMA InitBase == Init => Base /\ Paged
<1> SUFFICES ASSUME Init PROVE Base /\ Paged
  OBVIOUS
<1>1. /\ log = StartLog /\ paging = Fresh /\ asked = None /\ live = Quiet /\ wsNext = None
      /\ unread = {} /\ cache = [k \in Key |-> None] /\ fetching = {Here} /\ filter = Latest
      /\ topic \in Topics
  BY DEF Init
<1>2. \A t \in Topics : /\ begin[t] = [p \in Parts[t] |-> 0]
                        /\ DOMAIN begin[t] = Parts[t] /\ DOMAIN end[t] = Parts[t]
  BY DEF Init, Ends
<1>3. \A t \in Topics : \A p \in Parts[t] : OffsetsOK(t, p)
  <2> SUFFICES ASSUME NEW t \in Topics, NEW p \in Parts[t] PROVE OffsetsOK(t, p)
    OBVIOUS
  <2>1. end[t][p] = Ends(t, StartLog)[p]
    BY DEF Init
  <2>2. end[t][p] \in 0..MaxOffset
    BY <2>1, StartOffsets
  <2>3. begin[t][p] = 0
    BY <1>2
  <2> QED BY <2>2, <2>3, BrowserAssumption DEF OffsetsOK
<1>4. \A m \in log : Real(m) /\ begin[m.topic][m.part] <= m.off
  <2> SUFFICES ASSUME NEW m \in log
               PROVE  Real(m) /\ begin[m.topic][m.part] <= m.off
    OBVIOUS
  <2>1. m \in Message /\ m.part \in Parts[m.topic]
    BY <1>1, StartAssumption
  <2>2. m.topic \in Topics /\ m.off \in Nat
    BY <2>1, MessageFields
  <2>3. begin[m.topic][m.part] = 0
    <3>1. PICK t \in Topics : t = m.topic
      BY <2>1, <2>2
    <3>2. begin[t] = [q \in Parts[t] |-> 0]
      BY <1>2
    <3> QED BY <2>1, <3>1, <3>2
  <2>4. end[m.topic][m.part] = Ends(m.topic, StartLog)[m.part]
    BY <2>1, <2>2 DEF Init
  <2>5. m.off < end[m.topic][m.part]
    BY <1>1, <2>1, <2>2, <2>4, StartOffsets
  <2> QED BY <2>1, <2>2, <2>3, <2>5 DEF Real
<1>5. BrokerOK
  BY <1>1, <1>2, <1>3, <1>4, StartAssumption DEF BrokerOK, Init
<1>6. Known = StartLog
  <2>1. Kept = {}
    BY <1>1 DEF Kept, Cached
  <2>2. ToSet(paging.older) = {}
    BY <1>1, ToSetOK DEF Fresh
  <2> QED BY <1>1, <2>1, <2>2 DEF Known
<1>7. KnownOK
  BY <1>1, <1>4, <1>6, StartAssumption DEF KnownOK, Consistent, Agree
<1>8. CacheOK
  BY <1>1 DEF CacheOK, Cached
<1>9. ScreenOK
  BY <1>1 DEF ScreenOK, Here, Key, Fresh
<1>10. LiveOK
  <2>1. Len(live.shown) <= LiveMax /\ live \in [on : BOOLEAN, shown : Seq(Message)]
    BY <1>1, BrowserAssumption DEF Quiet
  <2>2. ToSet(live.shown) = {}
    BY <1>1, ToSetOK DEF Quiet
  <2> QED BY <1>1, <2>1, <2>2 DEF LiveOK, Quiet
<1>11. Paged
  BY <1>1 DEF Paged, PagingOK, AskedOK, Fresh
<1> QED BY <1>5, <1>7, <1>8, <1>9, <1>10, <1>11 DEF Base

-----------------------------------------------------------------------------
(* The broker's steps.                                                     *)

\* Offsets grow, and what is new in the log lies above what was written.
LogMoves ==
  /\ \A t \in Topics : \A p \in Parts[t] :
       begin[t][p] <= begin'[t][p] /\ end[t][p] <= end'[t][p]
  /\ \A m \in log' : /\ m \in Message /\ m.part \in Parts[m.topic]
                    /\ (m \in log \/ end[m.topic][m.part] <= m.off)

\* A message that is held is of a topic and lies below the log end.
LEMMA RealOK ==
  ASSUME BrokerOK, NEW m, Real(m)
  PROVE  /\ m \in Message /\ m.topic \in Topics /\ m.part \in Parts[m.topic]
         /\ m.off \in Nat /\ m.ts \in Nat /\ m.part \in Nat
         /\ end[m.topic][m.part] \in Nat /\ m.off < end[m.topic][m.part]
         /\ begin[m.topic][m.part] \in Nat
<1>1. m \in Message /\ m.topic \in Topics /\ m.part \in Parts[m.topic]
      /\ m.off \in Nat /\ m.ts \in Nat /\ m.part \in Nat
  BY MessageFields DEF Real
<1>2. OffsetsOK(m.topic, m.part)
  BY <1>1 DEF BrokerOK
<1> QED BY <1>1, <1>2, BrowserAssumption DEF OffsetsOK, Real

\* A tail result stays right.
LEMMA TailMoves ==
  ASSUME BrokerOK, BrokerOK', LogMoves, NEW t \in Topics, NEW c,
         TailOK(c, t), \A m \in c.items : m.topic = t /\ Real(m),
         unread' = unread
  PROVE  TailOK(c, t)'
<1>1. \A p \in Parts[t] : /\ c.cursor[p] \in Nat /\ OffsetsOK(t, p) /\ OffsetsOK(t, p)'
                          /\ begin[t][p] <= begin'[t][p] /\ end[t][p] <= end'[t][p]
  BY DEF TailOK, Cursor, BrokerOK, LogMoves
<1>2. MaxOffset \in Nat
  BY BrowserAssumption
<1>3. \A p \in Parts[t] : c.cursor[p] <= end'[t][p]
  BY <1>1, <1>2 DEF TailOK, OffsetsOK
<1>4. ~c.more => \A p \in Parts[t] : c.cursor[p] <= begin'[t][p]
  BY <1>1, <1>2 DEF TailOK, OffsetsOK, Exhausted
<1>5. ASSUME Single(t), NEW m \in log', NEW n \in c.items,
             m.topic = t, c.cursor[0] <= m.off, m.off < n.off
      PROVE  InOrExcused(m, c.items)
  <2>1. n.part = 0 /\ n.off \in Nat /\ n.off < end[t][0] /\ end[t][0] \in Nat
    BY <1>5, RealOK DEF Single
  <2>2. CASE m \in log
    BY <1>5, <2>2 DEF TailOK
  <2>3. CASE m \notin log
    <3>1. m.part = 0 /\ m.off \in Nat /\ end[m.topic][m.part] <= m.off
      BY <1>5, <2>3, MessageFields DEF LogMoves, Single
    <3> QED BY <1>5, <2>1, <3>1
  <2> QED BY <2>2, <2>3
<1> QED BY <1>3, <1>4, <1>5 DEF TailOK, Cursor, Exhausted, Single, InOrExcused

\* So do older rows.
LEMMA PagedMoves ==
  ASSUME BrokerOK, BrokerOK', LogMoves, NEW pg, NEW cur, PagedOK(pg, cur),
         \A p \in Parts[topic] : cur[p] \in Nat /\ cur[p] <= end[topic][p],
         topic \in Topics, UNCHANGED page
  PROVE  PagedOK(pg, cur)'
<1>1. /\ topic' = topic /\ filter' = filter /\ cache' = cache /\ Here' = Here
      /\ unread' = unread
  BY DEF page, Here
<1>2. \A p \in Parts[topic] : /\ pg.cursor[p] \in Nat /\ OffsetsOK(topic, p)
                              /\ OffsetsOK(topic, p)' /\ begin[topic][p] <= begin'[topic][p]
  BY <1>1 DEF PagedOK, Cursor, BrokerOK, LogMoves
<1>3. ~pg.more => Exhausted(pg.cursor, topic)'
  BY <1>1, <1>2 DEF PagedOK, OffsetsOK, Exhausted
<1>4. ASSUME Single(topic), NEW m \in log', m.topic = topic, m.off < cur[0],
             pg.cursor[0] <= m.off
      PROVE  InOrExcused(m, ToSet(pg.older))
  <2>1. cur[0] \in Nat /\ cur[0] <= end[topic][0] /\ OffsetsOK(topic, 0)
    BY <1>2, <1>4 DEF Single
  <2>2. m.part = 0 /\ m.off \in Nat /\ (m \in log \/ end[m.topic][m.part] <= m.off)
    BY <1>4, MessageFields DEF LogMoves, Single
  <2>3. m \in log
    BY <1>4, <2>1, <2>2, BrowserAssumption DEF OffsetsOK
  <2> QED BY <1>4, <2>3 DEF PagedOK, Complete
<1>5. Single(topic) => Complete(pg.older, pg.cursor, cur)'
  BY <1>1, <1>4 DEF PagedOK, Complete, Single, InOrExcused
<1> QED BY <1>1, <1>3, <1>5 DEF PagedOK, Cursor, Between, Single

LEMMA BrokerKeeps ==
  ASSUME Base, BrokerOK', KnownOK', LogMoves, UNCHANGED page
  PROVE  Base' /\ (Paged => Paged')
<1>1. /\ topic' = topic /\ filter' = filter /\ cache' = cache /\ fetching' = fetching
      /\ paging' = paging /\ asked' = asked /\ live' = live /\ wsNext' = wsNext
      /\ Here' = Here /\ Cached' = Cached /\ unread' = unread
  BY DEF page, Here, Cached
<1>2. ScreenOK' /\ LiveOK'
  BY <1>1 DEF Base, ScreenOK, LiveOK, Partitions
<1>3. ASSUME NEW k \in Cached PROVE ResultOK(cache[k], k)'
  <2>1. ResultOK(cache[k], k) /\ k.topic \in Topics
    BY DEF Base, CacheOK, Cached, Key
  <2>2. \A m \in cache[k].items : m.topic = k.topic /\ Real(m)
    BY <2>1 DEF ResultOK, Base, KnownOK, Known, Kept
  <2>3. k.filter = Latest => TailOK(cache[k], k.topic)'
    <3>1. PICK c : c = cache[k]
      OBVIOUS
    <3>2. k.filter = Latest => TailOK(c, k.topic)'
      BY <1>1, <2>1, <2>2, <3>1, TailMoves DEF ResultOK, Base
    <3>3. cache'[k] = c
      BY <1>1, <3>1
    <3> QED BY <3>2, <3>3 DEF TailOK
  <2> QED BY <1>1, <2>1, <2>3 DEF ResultOK, FilterOK
<1>4. CacheOK'
  BY <1>1, <1>3 DEF Base, CacheOK
<1>5. ASSUME Paged PROVE Paged'
  <2>1. ASSUME paging.cursor # None PROVE PagedOK(paging, cache[Here].cursor)'
    <3>1. PagedOK(paging, cache[Here].cursor) /\ Here \in Cached /\ Here.filter = Latest
          /\ Here.topic = topic /\ topic \in Topics
      BY <1>5, <2>1 DEF Paged, PagingOK, PagedOK, Cached, Here, Base, ScreenOK, Key
    <3>2. TailOK(cache[Here], topic)
      BY <3>1 DEF Base, CacheOK, ResultOK
    <3>3. PICK pg, cur : pg = paging /\ cur = cache[Here].cursor
      OBVIOUS
    <3>4. \A p \in Parts[topic] : cur[p] \in Nat /\ cur[p] <= end[topic][p]
      BY <3>2, <3>3 DEF TailOK, Cursor
    <3>5. PagedOK(pg, cur)'
      BY <3>1, <3>3, <3>4, PagedMoves DEF Base
    <3> QED BY <1>1, <3>3, <3>5 DEF PagedOK
  <2> QED BY <1>1, <1>5, <2>1 DEF Paged, PagingOK, AskedOK
<1> QED BY <1>2, <1>4, <1>5 DEF Base

\* A page that does nothing keeps what it holds.
LEMMA KeptKept ==
  ASSUME UNCHANGED page
  PROVE  Kept' = Kept /\ paging' = paging
BY DEF page, Kept, Cached

LEMMA ProduceStep ==
  ASSUME Base, NEW t \in Topics, NEW p \in Parts[t], NEW ts \in Stamps,
         Produce(t, p, ts)
  PROVE  Base' /\ (Paged => Paged')
<1>0. PICK e : e = end[t][p]
  OBVIOUS
<1> DEFINE x == [topic |-> t, part |-> p, off |-> e, ts |-> ts]
<1>1. /\ e < MaxOffset /\ log' = log \cup {x} /\ begin' = begin /\ UNCHANGED page
      /\ end' = [end EXCEPT ![t][p] = @ + 1]
  BY <1>0 DEF Produce
<1>2. BrokerOK /\ KnownOK /\ OffsetsOK(t, p) /\ MaxOffset \in Nat /\ ts \in Nat
  BY <1>0, BrowserAssumption DEF Base, BrokerOK
<1>3. e \in Nat /\ e \in 0..MaxOffset /\ e + 1 \in 0..MaxOffset /\ begin[t][p] <= e
      /\ begin[t][p] \in Nat
  BY <1>0, <1>1, <1>2 DEF OffsetsOK
<1>4. /\ DOMAIN end' = Topics /\ \A u \in Topics : DOMAIN end'[u] = Parts[u]
      /\ \A u \in Topics : \A q \in Parts[u] :
           end'[u][q] = IF u = t /\ q = p THEN e + 1 ELSE end[u][q]
  BY <1>0, <1>1, <1>2 DEF BrokerOK
<1>5. \A u \in Topics : \A q \in Parts[u] :
        OffsetsOK(u, q)' /\ begin[u][q] <= begin'[u][q] /\ end[u][q] <= end'[u][q]
  <2> SUFFICES ASSUME NEW u \in Topics, NEW q \in Parts[u]
               PROVE  /\ OffsetsOK(u, q)' /\ begin[u][q] <= begin'[u][q]
                      /\ end[u][q] <= end'[u][q]
    OBVIOUS
  <2>1. OffsetsOK(u, q)
    BY <1>2 DEF BrokerOK
  <2> QED BY <1>0, <1>1, <1>2, <1>3, <1>4, <2>1 DEF OffsetsOK
<1>6. x \in Message /\ p \in Nat
  BY <1>2, <1>3, BrowserAssumption DEF Message
<1>8. BrokerOK'
  <2>1. IsFiniteSet(log')
    BY <1>1, <1>2, FS_AddElement DEF BrokerOK
  <2>2. \A m \in log' : begin'[m.topic][m.part] <= m.off
    BY <1>1, <1>2, <1>3 DEF BrokerOK
  <2> QED BY <1>1, <1>2, <1>4, <1>5, <2>1, <2>2 DEF BrokerOK
<1>9. Known' = Known \cup {x}
  BY <1>1, KeptKept DEF Known
<1>10. ASSUME NEW m \in Known
       PROVE  Real(m)' /\ Agree(m, x) /\ Agree(x, m)
  <2>1. Real(m) /\ m.topic \in Topics /\ m.part \in Parts[m.topic]
        /\ m.off \in Nat /\ m.off < end[m.topic][m.part]
        /\ end[m.topic][m.part] \in Nat
    BY <1>2, RealOK DEF KnownOK
  <2>2. end[m.topic][m.part] <= end'[m.topic][m.part] /\ end'[m.topic][m.part] \in Nat
    BY <1>2, <1>5, <2>1 DEF OffsetsOK
  <2>3. Real(m)'
    BY <1>2, <2>1, <2>2 DEF Real
  <2>4. m.topic = t /\ m.part = p => m.off < e
    BY <1>0, <2>1
  <2>5. Agree(m, x) /\ Agree(x, m)
    BY <1>2, <1>3, <2>1, <2>4 DEF Agree
  <2> QED BY <2>3, <2>5
<1>11. Real(x)'
  BY <1>2, <1>3, <1>4, <1>6 DEF Real
<1>12. KnownOK'
  <2>1. Agree(x, x)
    BY <1>3 DEF Agree
  <2> HIDE DEF x
  <2>2. \A m \in Known' : Real(m)'
    BY <1>9, <1>10, <1>11
  <2>3. \A m, n \in Known' : Agree(m, n)
    BY <1>2, <1>9, <1>10, <2>1 DEF KnownOK, Consistent
  <2> QED BY <2>2, <2>3 DEF KnownOK, Consistent
<1>13. LogMoves
  <2>1. \A m \in log : m \in Message /\ m.part \in Parts[m.topic]
    BY <1>2 DEF KnownOK, Known, Real
  <2>2. \A m \in log' : m \in log \/ m = x
    BY <1>1
  <2>3. x.part \in Parts[x.topic] /\ end[x.topic][x.part] <= x.off
    BY <1>0, <1>3
  <2> HIDE DEF x
  <2> QED BY <1>5, <1>6, <2>1, <2>2, <2>3 DEF LogMoves
<1> QED BY <1>1, <1>8, <1>12, <1>13, BrokerKeeps

\* Messages that are deleted.
LEMMA LogShrinks ==
  ASSUME Base, log' \subseteq log, UNCHANGED <<end, page>>, DOMAIN begin' = Topics,
         \A t \in Topics : /\ DOMAIN begin'[t] = Parts[t]
                           /\ \A p \in Parts[t] : OffsetsOK(t, p)'
                                                  /\ begin[t][p] <= begin'[t][p],
         \A m \in log' : begin'[m.topic][m.part] <= m.off
  PROVE  Base' /\ (Paged => Paged')
<1>1. end' = end /\ UNCHANGED page /\ BrokerOK /\ KnownOK
  BY DEF Base
<1>3. IsFiniteSet(log')
  BY <1>1, FS_Subset DEF BrokerOK
<1>4. BrokerOK'
  BY <1>1, <1>3 DEF BrokerOK
<1>5. Known' \subseteq Known
  BY <1>1, KeptKept DEF Known
<1>6. KnownOK'
  BY <1>1, <1>5 DEF KnownOK, Consistent, Real
<1>7. \A t \in Topics : \A p \in Parts[t] : end[t][p] <= end'[t][p]
  BY <1>1, BrowserAssumption DEF BrokerOK, OffsetsOK
<1>8. LogMoves
  BY <1>1, <1>7 DEF LogMoves, KnownOK, Known, Real
<1> QED BY <1>1, <1>4, <1>6, <1>8, BrokerKeeps

LEMMA RetainStep ==
  ASSUME Base, NEW t \in Topics, NEW p \in Parts[t], Retain(t, p)
  PROVE  Base' /\ (Paged => Paged')
<1>1. /\ begin[t][p] < end[t][p] /\ UNCHANGED <<end, page>>
      /\ begin' = [begin EXCEPT ![t][p] = @ + 1]
      /\ log' = {m \in log : ~(m.topic = t /\ m.part = p /\ m.off = begin[t][p])}
  BY DEF Retain
<1>2. BrokerOK /\ KnownOK
  BY DEF Base
<1>3. /\ DOMAIN begin' = Topics /\ \A u \in Topics : DOMAIN begin'[u] = Parts[u]
      /\ \A u \in Topics : \A q \in Parts[u] :
           begin'[u][q] = IF u = t /\ q = p THEN begin[u][q] + 1 ELSE begin[u][q]
  BY <1>1, <1>2 DEF BrokerOK
<1>4. ASSUME NEW u \in Topics, NEW q \in Parts[u]
      PROVE  OffsetsOK(u, q)' /\ begin[u][q] <= begin'[u][q]
  <2>1. OffsetsOK(u, q) /\ MaxOffset \in Nat
    BY <1>2, BrowserAssumption DEF BrokerOK
  <2> QED BY <1>1, <1>3, <2>1 DEF OffsetsOK
<1>5. ASSUME NEW m \in log' PROVE begin'[m.topic][m.part] <= m.off
  <2>1. m \in log /\ Real(m) /\ begin[m.topic][m.part] <= m.off
    BY <1>1, <1>2 DEF BrokerOK, KnownOK, Known
  <2>2. /\ m.topic \in Topics /\ m.part \in Parts[m.topic] /\ m.off \in Nat
        /\ begin[m.topic][m.part] \in Nat
    BY <1>2, <2>1, RealOK
  <2> QED BY <1>1, <1>3, <2>1, <2>2
<1> QED BY <1>1, <1>3, <1>4, <1>5, LogShrinks

LEMMA CompactStep ==
  ASSUME Base, NEW m \in log, Compact(m)
  PROVE  Base' /\ (Paged => Paged')
<1>1. begin' = begin /\ UNCHANGED <<end, page>> /\ log' = log \ {m} /\ end' = end
  BY DEF Compact
<1>2. BrokerOK
  BY DEF Base
<1>3. \A t \in Topics : \A p \in Parts[t] : OffsetsOK(t, p)' /\ begin[t][p] <= begin'[t][p]
  BY <1>1, <1>2 DEF BrokerOK, OffsetsOK
<1>4. DOMAIN begin' = Topics /\ \A t \in Topics : DOMAIN begin'[t] = Parts[t]
  BY <1>1, <1>2 DEF BrokerOK
<1>5. \A n \in log' : begin'[n.topic][n.part] <= n.off
  BY <1>1, <1>2 DEF BrokerOK
<1> QED BY <1>1, <1>3, <1>4, <1>5, LogShrinks

-----------------------------------------------------------------------------
(* The answers of the endpoint.                                            *)

\* A page of a pool that is not empty shows something.
LEMMA PageShows ==
  ASSUME NEW pool \in SUBSET Message, IsFiniteSet(pool), Consistent(pool),
         NEW t, \A m \in pool : m.topic = t, pool # {}
  PROVE  Page(pool) # {}
<1> DEFINE R == {r \in pool \X pool : Newer(r[1], r[2])}
<1>1. Orders(R, pool)
  BY NewerOrders
<1>2. \A x, y \in pool : <<x, y>> \in R <=> Newer(x, y)
  OBVIOUS
<1> HIDE DEF R
<1>3. PICK n \in Nat : n = Cardinality(pool)
  BY FS_CardinalityType
<1>4. n # 0
  BY <1>3, FS_EmptySet
<1>5. 0 \in 0..n - 1
  BY <1>4
<1>6. PICK x \in pool : Rank(pool, R, x) = 0
  <2>1. \A k \in 0..Cardinality(pool) - 1 : \E x \in pool : Rank(pool, R, x) = k
    BY <1>1, RankBijective
  <2> QED BY <1>3, <1>5, <2>1
<1>7. Cardinality({y \in pool : Newer(y, x)}) = 0
  <2>1. {y \in pool : Newer(y, x)} = {y \in pool : <<y, x>> \in R}
    BY <1>2
  <2> QED BY <1>6, <2>1 DEF Rank
<1> QED BY <1>7, PagerAssumption DEF Page

LEMMA EmptyPool ==
  ASSUME NEW cur, NEW p \in DOMAIN cur
  PROVE  NextCursor(cur, {})[p] = cur[p]
<1>1. Page({}) = {}
  BY DEF Page
<1>2. Offsets({}, p) = {}
  BY DEF Offsets
<1> QED BY <1>1, <1>2 DEF NextCursor

\* The start of the log as a request with the errors e sees it.
LEMMA ListedOK ==
  ASSUME BrokerOK, NEW t \in Topics, NEW e
  PROVE  /\ DOMAIN Listed(begin[t], e) = Parts[t] /\ DOMAIN Listed(end[t], e) = Parts[t]
         /\ \A p \in Parts[t] :
              /\ begin[t][p] \in Nat /\ end[t][p] \in Nat
              /\ Listed(begin[t], e)[p] \in Nat /\ Listed(end[t], e)[p] \in Nat
              /\ Listed(begin[t], e)[p] <= begin[t][p]
              /\ Listed(end[t], e)[p] <= end[t][p]
<1>1. /\ DOMAIN begin[t] = Parts[t] /\ DOMAIN end[t] = Parts[t] /\ MaxOffset \in Nat
      /\ \A p \in Parts[t] : begin[t][p] \in Nat /\ end[t][p] \in 0..MaxOffset
  BY BrowserAssumption DEF BrokerOK, OffsetsOK
<1> QED BY <1>1 DEF Listed

\* A page of a topic below a cursor: its messages lie between the next cursor
\* and this one, and with one partition none that lies there is missing.
LEMMA TailServes ==
  ASSUME BrokerOK, KnownOK, NEW t \in Topics, NEW cur, Cursor(cur, t), NEW e,
         NEW res, res = TailOf(t, cur, e)
  PROVE  /\ Cursor(res.cursor, t) /\ \A p \in Parts[t] : res.cursor[p] <= cur[p]
         /\ \A m \in res.items : res.cursor[m.part] <= m.off /\ m.off < cur[m.part]
         /\ ~res.more => Exhausted(res.cursor, t)
         /\ Single(t) => \A m \in log :
              m.topic = t /\ res.cursor[0] <= m.off /\ m.off < cur[0]
                => \/ m \in res.items \/ m \in Left(t, cur, e)
                   \/ \E k \in res.items : k.part = m.part /\ k.off < m.off
                                           /\ k.ts > m.ts
<1>1. PICK recs, first, stop :
        recs = Of(t) /\ first = Listed(begin[t], e) /\ stop = e.stop
  OBVIOUS
<1>2. /\ Records(recs) /\ Unique(recs)
      /\ recs \in SUBSET Message /\ Consistent(recs)
      /\ \A m \in recs : m.topic = t /\ m.part \in Parts[t]
  BY <1>1, TopicRecords
<1>3. Bounds(first, cur) /\ DOMAIN first = Parts[t] /\ DOMAIN cur = Parts[t]
      /\ \A p \in Parts[t] : first[p] \in Nat /\ begin[t][p] \in Nat
                              /\ first[p] <= begin[t][p]
  BY <1>1, ListedOK DEF Cursor, Bounds
<1>4. res = TailPage(recs, stop, first, cur)
  BY <1>1 DEF TailOf
<1>5. PICK read, pool, next : /\ read = Read(recs, stop)
                              /\ pool = Pool(read, first, cur)
                              /\ next = NextCursor(cur, pool)
  OBVIOUS
<1>6. res.items = Page(pool) /\ res.cursor = next /\ res.more = HasMore(first, next)
  BY <1>4, <1>5 DEF TailPage
<1>7. Records(read) /\ read \subseteq recs
  BY <1>2, <1>5, ReadOK
<1>8. \A p \in Parts[t] : /\ next[p] \in Nat /\ next[p] <= cur[p]
                          /\ \A m \in Page(pool) : m.part = p => next[p] <= m.off
  BY <1>3, <1>5, <1>7, NextCursorOK
<1>9. DOMAIN next = Parts[t]
  BY <1>3, <1>5 DEF NextCursor
<1>10. \A m \in pool : m \in recs /\ m.part \in Parts[t] /\ m.off < cur[m.part]
  BY <1>2, <1>3, <1>5, <1>7, PoolInside
<1>11. \A m \in Page(pool) : m \in pool
  BY DEF Page
<1>12. ~res.more => Exhausted(next, t)
  BY <1>3, <1>6, <1>8 DEF HasMore, Exhausted
<1>13. ASSUME Single(t), NEW m \in log, m.topic = t, next[0] <= m.off, m.off < cur[0]
       PROVE  \/ m \in res.items \/ m \in Unread(recs, stop, first, cur)
              \/ \E k \in res.items : k.part = m.part /\ k.off < m.off /\ k.ts > m.ts
  <2>1. m \in recs /\ m.part = 0 /\ 0 \in Parts[t] /\ m.off \in Nat
    BY <1>1, <1>2, <1>13, MessageFields DEF Of, Single
  <2>2. CASE pool = {}
    BY <1>3, <1>5, <1>13, <2>1, <2>2, EmptyPool DEF Bounds
  <2>3. CASE pool # {}
    <3>1. /\ pool \in SUBSET Message /\ Consistent(pool) /\ IsFiniteSet(pool)
          /\ \A n \in pool : n.topic = t
      BY <1>2, <1>10, FS_Subset DEF Consistent, Records
    <3>2. PICK n \in Page(pool) : TRUE
      BY <2>3, <3>1, PageShows
    <3>3. n.part = 0
      BY <1>10, <1>11, <1>13 DEF Single
    <3>4. /\ n \in TailPage(recs, stop, first, cur).items
          /\ m.part = n.part /\ m.off < cur[m.part]
          /\ TailPage(recs, stop, first, cur).cursor[m.part] <= m.off
      BY <1>4, <1>6, <1>13, <2>1, <3>2, <3>3
    <3> QED BY <1>2, <1>3, <1>4, <2>1, <3>4, NoGapWherePageShows
  <2> QED BY <2>2, <2>3
<1>14. Left(t, cur, e) = Unread(recs, stop, first, cur)
  BY <1>1 DEF Left
<1> QED BY <1>6, <1>8, <1>9, <1>10, <1>11, <1>12, <1>13, <1>14 DEF Cursor

\* A page is read from the log, whatever the cursor and the errors.
LEMMA TailReads ==
  ASSUME NEW t, NEW cur, NEW e
  PROVE  /\ TailOf(t, cur, e).items \subseteq Of(t)
         /\ DOMAIN TailOf(t, cur, e).cursor = DOMAIN cur
         /\ Left(t, cur, e) \subseteq Of(t)
<1>1. PICK recs, first, stop :
        recs = Of(t) /\ first = Listed(begin[t], e) /\ stop = e.stop
  OBVIOUS
<1>2. PICK read : read = Read(recs, stop)
  OBVIOUS
<1>3. TailOf(t, cur, e) = TailPage(recs, stop, first, cur)
      /\ Left(t, cur, e) = Unread(recs, stop, first, cur)
  BY <1>1 DEF TailOf, Left
<1>4. /\ TailPage(recs, stop, first, cur).items \subseteq Pool(read, first, cur)
      /\ DOMAIN TailPage(recs, stop, first, cur).cursor = DOMAIN cur
      /\ Unread(recs, stop, first, cur) \subseteq Pool(recs, first, cur)
  BY <1>2 DEF TailPage, Page, NextCursor, Unread
<1>5. Pool(read, first, cur) \subseteq read /\ Pool(recs, first, cur) \subseteq recs
  BY DEF Pool, Forward, Span
<1>6. read \subseteq recs
  BY <1>2, ReadOK
<1> QED BY <1>1, <1>3, <1>4, <1>5, <1>6

LEMMA FromLog ==
  ASSUME BrokerOK, KnownOK, NEW t, NEW S, S \subseteq Of(t)
  PROVE  /\ S \in SUBSET Message /\ S \subseteq log /\ IsFiniteSet(S) /\ Consistent(S)
         /\ \A m \in S : m.topic = t
<1>1. Of(t) \subseteq log /\ \A m \in Of(t) : m.topic = t
  BY DEF Of
<1>2. log \subseteq Known
  BY DEF Known
<1>3. S \in SUBSET log
  BY <1>1
<1>4. IsFiniteSet(S)
  BY <1>3, FS_Subset DEF BrokerOK
<1> QED BY <1>1, <1>2, <1>3, <1>4 DEF KnownOK, Consistent, Real

\* What a query leaves unread.
Missed(k, e) == IF k.filter = Latest THEN Left(k.topic, Listed(end[k.topic], e), e)
                                     ELSE {}

LEMMA ServedOK ==
  ASSUME BrokerOK, KnownOK, NEW k \in Key, NEW e, NEW c, c = Served(k, e),
         UNCHANGED broker, unread' = unread \cup Missed(k, e)
  PROVE  ResultOK(c, k)' /\ c.items \subseteq log /\ Missed(k, e) \subseteq log
<1>1. k.topic \in Topics
      /\ (k.filter # Latest => k.filter \in Filters /\ k.filter.topic = k.topic)
  BY DEF Key
<1>2. log' = log /\ begin' = begin /\ end' = end
  BY DEF broker
<1>3. CASE k.filter = Latest
  <2>1. PICK t, cur : t = k.topic /\ cur = Listed(end[t], e)
    OBVIOUS
  <2>2. c = TailOf(t, cur, e) /\ Missed(k, e) = Left(t, cur, e)
    BY <1>3, <2>1 DEF Served, Missed
  <2>3. c.items \subseteq Of(t) /\ Left(t, cur, e) \subseteq Of(t)
    BY <2>2, TailReads
  <2>4. Cursor(cur, t) /\ \A p \in Parts[t] : cur[p] <= end[t][p] /\ end[t][p] \in Nat
    BY <1>1, <2>1, ListedOK DEF Cursor
  <2>5. /\ Cursor(c.cursor, t) /\ \A p \in Parts[t] : c.cursor[p] <= cur[p]
        /\ \A m \in c.items : c.cursor[m.part] <= m.off /\ m.off < cur[m.part]
        /\ ~c.more => Exhausted(c.cursor, t)
        /\ Single(t) => \A m \in log :
             m.topic = t /\ c.cursor[0] <= m.off /\ m.off < cur[0]
               => \/ m \in c.items \/ m \in Left(t, cur, e)
                  \/ \E x \in c.items : x.part = m.part /\ x.off < m.off
                                        /\ x.ts > m.ts
    BY <1>1, <2>1, <2>2, <2>4, TailServes
  <2>6. ASSUME Single(t), NEW m \in log, NEW n \in c.items,
               m.topic = t, c.cursor[0] <= m.off, m.off < n.off
        PROVE  InOrExcused(m, c.items)'
    <3>1. /\ n \in Of(t) /\ n.part = 0 /\ n.off \in Nat /\ m.off \in Nat
      <4>1. n.part \in Parts[t] /\ n \in Message /\ m \in Of(t) /\ m \in Message
        BY <1>1, <2>1, <2>3, <2>6, TopicRecords DEF Of
      <4> QED BY <2>3, <2>6, <4>1, MessageFields DEF Single
    <3>2. cur[0] \in Nat /\ n.off < cur[0]
      BY <2>4, <2>5, <2>6, <3>1 DEF Cursor, Single
    <3>3. m.off < cur[0]
      BY <2>6, <3>1, <3>2
    <3> QED BY <2>2, <2>5, <2>6, <3>3 DEF InOrExcused
  <2>7. \A p \in Parts[t] : c.cursor[p] <= end[t][p]
    BY <2>4, <2>5 DEF Cursor
  <2>8. TailOK(c, t)'
    BY <1>2, <2>5, <2>6, <2>7 DEF TailOK, Cursor, Exhausted, Single
  <2>9. IsFiniteSet(c.items) /\ c.items \subseteq log /\ \A m \in c.items : m.topic = t
    BY <2>3, FromLog
  <2>10. Missed(k, e) \subseteq log
    BY <2>2, <2>3 DEF Of
  <2> QED BY <1>3, <2>1, <2>8, <2>9, <2>10 DEF ResultOK
<1>4. CASE k.filter # Latest
  <2>1. PICK g, b, from : /\ g = k.filter /\ b = begin[k.topic][g.part]
                          /\ from = IF g.from = None THEN b ELSE g.from
    OBVIOUS
  <2>2. g \in Filters /\ g.topic = k.topic /\ g.part \in Parts[k.topic]
        /\ g.from \in Nat \cup {None}
    BY <1>1, <1>4, <2>1, BrowserAssumption
  <2>3. b \in Nat
    BY <1>1, <2>1, <2>2 DEF BrokerOK, OffsetsOK
  <2>4. PICK read : read = Read(Of(k.topic), e.stop) /\ read \subseteq Of(k.topic)
    BY ReadOK
  <2>5. c.items = Forward(read, g.part, IF from < b THEN b ELSE from,
                          end[k.topic][g.part], Limit)
    BY <1>4, <2>1, <2>4 DEF Served, FoundIn, Lookup
  <2>6. c.items \subseteq Of(k.topic)
        /\ \A m \in c.items : /\ m.part = g.part
                              /\ (IF from < b THEN b ELSE from) <= m.off
    BY <2>4, <2>5 DEF Forward, Span
  <2>7. /\ IsFiniteSet(c.items) /\ c.items \subseteq log /\ c.items \subseteq Message
        /\ \A m \in c.items : m.topic = k.topic
    <3>1. PICK S : S = c.items /\ S \subseteq Of(k.topic)
      BY <2>6
    <3> QED BY <3>1, FromLog
  <2>8. \A m \in c.items : m.off \in Nat
    BY <2>7, MessageFields
  <2>9. FilterOK(c, g)
    BY <2>1, <2>2, <2>3, <2>6, <2>8 DEF FilterOK
  <2>10. Missed(k, e) \subseteq log
    BY <1>4 DEF Missed
  <2> QED BY <1>4, <2>1, <2>7, <2>9, <2>10 DEF ResultOK, FilterOK
<1> QED BY <1>3, <1>4

-----------------------------------------------------------------------------
(* The page's steps.                                                       *)

\* What is held comes from what was held.
LEMMA BrokerRests ==
  ASSUME BrokerOK, KnownOK, UNCHANGED broker, Known' \subseteq Known
  PROVE  BrokerOK' /\ KnownOK'
<1>1. log' = log /\ begin' = begin /\ end' = end
  BY DEF broker
<1> QED BY <1>1 DEF BrokerOK, KnownOK, Consistent, Real, OffsetsOK

\* What excuses a message stays.
LEMMA ExcusedKeeps ==
  ASSUME unread \subseteq unread', NEW S, NEW T, S \subseteq T, NEW m,
         InOrExcused(m, S)
  PROVE  InOrExcused(m, T)'
BY DEF InOrExcused

LEMMA ResultKeeps ==
  ASSUME UNCHANGED broker, unread \subseteq unread', NEW c, NEW k, ResultOK(c, k)
  PROVE  ResultOK(c, k)'
<1>1. log' = log /\ begin' = begin /\ end' = end
  BY DEF broker
<1>2. ASSUME TailOK(c, k.topic) PROVE TailOK(c, k.topic)'
  <2>1. ASSUME Single(k.topic), NEW m \in log, NEW n \in c.items,
               m.topic = k.topic, c.cursor[0] <= m.off, m.off < n.off
        PROVE  InOrExcused(m, c.items)'
    BY <1>2, <2>1, ExcusedKeeps DEF TailOK
  <2> QED BY <1>1, <1>2, <2>1 DEF TailOK, Cursor, Exhausted, Single
<1> QED BY <1>2 DEF ResultOK, FilterOK

LEMMA PagedKeeps ==
  ASSUME UNCHANGED broker, topic' = topic, filter' = filter, cache'[Here] # None,
         unread \subseteq unread', NEW pg, NEW cur, PagedOK(pg, cur)
  PROVE  PagedOK(pg, cur)'
<1>1. log' = log /\ begin' = begin /\ end' = end
  BY DEF broker
<1>2. ASSUME Complete(pg.older, pg.cursor, cur)
      PROVE  Complete(pg.older, pg.cursor, cur)'
  <2>1. ASSUME NEW m \in log, m.topic = topic, pg.cursor[0] <= m.off, m.off < cur[0]
        PROVE  InOrExcused(m, ToSet(pg.older))'
    BY <1>2, <2>1, ExcusedKeeps DEF Complete
  <2> QED BY <1>1, <1>2, <2>1 DEF Complete
<1> QED BY <1>1, <1>2 DEF PagedOK, Cursor, Exhausted, Between, Single, Here

\* The cache and the rest of the page keep their types when only the paging,
\* the requests and the live view change.
LEMMA CacheRests ==
  ASSUME Base, UNCHANGED <<broker, cache>>, unread \subseteq unread',
         NEW older \in Seq(Message),
         paging'.older = older, ToSet(older) \subseteq Known
  PROVE  BrokerOK' /\ KnownOK' /\ CacheOK'
<1>1. UNCHANGED broker /\ cache' = cache
  OBVIOUS
<1>2. Kept' = Kept /\ Cached' = Cached
  BY <1>1 DEF Kept, Cached
<1>3. Known' \subseteq Known
  BY <1>1, <1>2 DEF Known, broker
<1>4. BrokerOK' /\ KnownOK'
  BY <1>1, <1>3, BrokerRests DEF Base
<1>5. ASSUME NEW k \in Cached PROVE ResultOK(cache[k], k)'
  <2>1. PICK c : c = cache[k]
    OBVIOUS
  <2>2. ResultOK(c, k)'
    BY <1>1, <2>1, ResultKeeps DEF Base, CacheOK
  <2>3. cache'[k] = c
    BY <1>1, <2>1
  <2> QED BY <2>2, <2>3
<1>6. CacheOK'
  BY <1>1, <1>2, <1>5 DEF Base, CacheOK
<1> QED BY <1>4, <1>6

LEMMA PagingOfOK ==
  ASSUME NEW k \in Key, NEW c, NEW pg, pg = PagingOf(k.filter, c),
         k.filter = Latest /\ c # None => DOMAIN c.cursor = Parts[k.topic]
  PROVE  /\ pg.older = <<>> /\ pg.older \in Seq(Message)
         /\ pg.cursor # None => /\ k.filter = Latest /\ c # None
                                /\ pg = [older |-> <<>>, cursor |-> c.cursor, more |-> c.more]
                                /\ Partitions(pg.cursor)
<1>1. CASE k.filter = Latest /\ c # None
  <2>1. pg = [older |-> <<>>, cursor |-> c.cursor, more |-> c.more]
    BY <1>1 DEF PagingOf
  <2>2. k.topic \in Topics
    BY DEF Key
  <2>3. pg.older = <<>> /\ pg.cursor = c.cursor /\ <<>> \in Seq(Message)
    BY <2>1
  <2>4. Partitions(pg.cursor)
    BY <1>1, <2>2, <2>3 DEF Partitions
  <2> QED BY <1>1, <2>1, <2>2, <2>3, <2>4
<1>2. CASE ~(k.filter = Latest /\ c # None)
  BY <1>2 DEF PagingOf, Fresh
<1> QED BY <1>1, <1>2

\* A new tail has no older rows yet.
LEMMA FirstPage ==
  ASSUME KnownOK', NEW c, TailOK(c, topic)', (filter = Latest)', (cache[Here] # None)'
  PROVE  PagedOK([older |-> <<>>, cursor |-> c.cursor, more |-> c.more], c.cursor)'
<1> DEFINE pg == [older |-> <<>>, cursor |-> c.cursor, more |-> c.more]
<1>1. pg.older = <<>> /\ pg.cursor = c.cursor /\ pg.more = c.more
  OBVIOUS
<1>2. \A m : m \notin ToSet(<<>>)
  BY ToSetOK
<1>3. Descending(<<>>)
  BY DEF Descending
<1>4. Cursor(c.cursor, topic)' /\ (~c.more => Exhausted(c.cursor, topic)')
  BY DEF TailOK, Cursor, Exhausted
<1>5. \A p \in Parts[topic'] : c.cursor[p] <= c.cursor[p]
  BY <1>4 DEF Cursor
<1>6. Single(topic') => \A m \in log' : ~(c.cursor[0] <= m.off /\ m.off < c.cursor[0])
  <2>1. \A m \in log' : m.off \in Nat
    BY MessageFields DEF KnownOK, Known, Real
  <2> QED BY <1>4, <2>1 DEF Cursor, Single
<1> QED BY <1>1, <1>2, <1>3, <1>4, <1>5, <1>6
        DEF PagedOK, Between, Complete, Cursor, Exhausted, Single, Descending

LEMMA AnswerBase ==
  ASSUME Base, NEW k \in Key, NEW e, Answer(k, e)
  PROVE  Base'
<1>1. PICK c : c = Served(k, e)
  OBVIOUS
<1>2. /\ UNCHANGED broker /\ topic' = topic /\ filter' = filter /\ asked' = asked
      /\ live' = live /\ wsNext' = wsNext /\ Here' = Here
      /\ cache' = [cache EXCEPT ![k] = c] /\ fetching' = fetching \ {k}
      /\ paging' = paging \/ (k = Here /\ filter = Latest /\ paging' = PagingOf(k.filter, c))
      /\ unread' = unread \cup Missed(k, e)
  BY <1>1 DEF Answer, Here, Missed
<1>3. ResultOK(c, k)' /\ c.items \subseteq log /\ Missed(k, e) \subseteq log
  BY <1>1, <1>2, ServedOK DEF Base
<1>4. paging'.older \in Seq(Message) /\ ToSet(paging'.older) \subseteq ToSet(paging.older)
      /\ (paging'.cursor # None => Partitions(paging'.cursor))
  <2>1. CASE paging' = paging
    BY <2>1 DEF Base, ScreenOK
  <2>2. CASE paging' = PagingOf(k.filter, c)
    <3>1. PICK pg : pg = paging'
      OBVIOUS
    <3>2. pg.older = <<>> /\ pg.older \in Seq(Message)
          /\ (pg.cursor # None => Partitions(pg.cursor))
      BY <1>3, <2>2, <3>1, PagingOfOK DEF ResultOK, TailOK, Cursor
    <3>3. ToSet(pg.older) = {}
      BY <3>2, ToSetOK
    <3> QED BY <3>1, <3>2, <3>3
  <2> QED BY <1>2, <2>1, <2>2
<1>5. DOMAIN cache' = Key /\ \A j \in Key : cache'[j] = IF j = k THEN c ELSE cache[j]
  BY <1>2 DEF Base, CacheOK
<1>6. Kept' \subseteq Kept \cup log
  <2>1. ASSUME NEW j \in Key, cache'[j] # None PROVE cache'[j].items \subseteq Kept \cup log
    BY <1>3, <1>5, <2>1 DEF Kept, Cached
  <2> QED BY <1>5, <2>1 DEF Kept, Cached
<1>7. Known' \subseteq Known
  BY <1>2, <1>4, <1>6 DEF Known, broker
<1>8. ASSUME NEW j \in Key, cache'[j] # None PROVE ResultOK(cache[j], j)'
  <2>1. PICK d : d = cache'[j]
    OBVIOUS
  <2>2. CASE j # k
    <3>1. ResultOK(d, j)
      BY <1>5, <1>8, <2>1, <2>2 DEF Base, CacheOK, Cached
    <3>2. ResultOK(d, j)'
      BY <1>2, <3>1, ResultKeeps
    <3> QED BY <2>1, <3>2
  <2>3. CASE j = k
    BY <1>3, <1>5, <2>3
  <2> QED BY <2>2, <2>3
<1>9. CacheOK'
  BY <1>5, <1>8 DEF CacheOK, Cached
<1>10. BrokerOK' /\ KnownOK'
  BY <1>2, <1>7, BrokerRests DEF Base
<1>11. unread' \subseteq Message
  BY <1>2, <1>3 DEF Base, ScreenOK, KnownOK, Known, Real
<1>12. ScreenOK' /\ LiveOK'
  BY <1>2, <1>4, <1>11 DEF Base, ScreenOK, LiveOK, Partitions
<1> QED BY <1>9, <1>10, <1>12 DEF Base

LEMMA AnswerPaged ==
  ASSUME Base, Paged, NEW k \in Key, NEW e, Answer(k, e)
  PROVE  Paged'
<1>1. PICK c : c = Served(k, e)
  OBVIOUS
<1>2. /\ UNCHANGED broker /\ topic' = topic /\ filter' = filter /\ asked' = asked
      /\ Here' = Here /\ k \in fetching
      /\ cache' = [cache EXCEPT ![k] = c] /\ fetching' = fetching \ {k}
      /\ paging' = IF k = Here /\ cache[k] # c /\ filter = Latest
                  THEN PagingOf(k.filter, c) ELSE paging
      /\ unread' = unread \cup Missed(k, e)
  BY <1>1 DEF Answer, Here, Missed
<1>3. ResultOK(c, k)' /\ Here \in Key /\ Here.topic = topic /\ Here.filter = filter
  BY <1>1, <1>2, ServedOK DEF Base, ScreenOK, Here
<1>4. \A j \in Key : cache'[j] = IF j = k THEN c ELSE cache[j]
  BY <1>2 DEF Base, CacheOK
<1>5. AskedOK'
  <2>1. ASSUME asked # None PROVE paging' = paging
    BY <1>2, <2>1 DEF Paged, AskedOK
  <2> QED BY <1>2, <2>1 DEF Paged, AskedOK
<1>6. CASE paging' = paging /\ cache'[Here] = cache[Here]
  <2>1. ASSUME paging.cursor # None PROVE PagedOK(paging, cache[Here].cursor)'
    <3>1. PICK pg, cur : pg = paging /\ cur = cache[Here].cursor
      OBVIOUS
    <3>2. PagedOK(pg, cur) /\ cache'[Here] # None
      BY <1>6, <2>1, <3>1 DEF Paged, PagingOK, PagedOK
    <3>3. PagedOK(pg, cur)'
      BY <1>2, <3>2, PagedKeeps
    <3> QED BY <1>2, <1>6, <3>1, <3>3 DEF PagedOK
  <2> QED BY <1>2, <1>5, <1>6, <2>1 DEF Paged, PagingOK
<1>7. CASE k = Here /\ filter # Latest
  BY <1>2, <1>5, <1>7 DEF Paged, PagingOK, PagedOK
<1>8. CASE k = Here /\ filter = Latest /\ cache[k] # c
  <2>1. PICK pg : pg = paging' /\ pg = PagingOf(k.filter, c)
    BY <1>2, <1>8
  <2>0. k.filter = Latest /\ TailOK(c, k.topic)' /\ DOMAIN c.cursor = Parts[k.topic]
    BY <1>3, <1>8 DEF ResultOK, TailOK, Cursor
  <2>2. pg.older = <<>>
    BY <2>0, <2>1, PagingOfOK
  <2>3. ASSUME pg.cursor # None PROVE PagedOK(pg, c.cursor)'
    <3>1. c # None /\ pg = [older |-> <<>>, cursor |-> c.cursor, more |-> c.more]
      BY <2>0, <2>1, <2>3, PagingOfOK
    <3>2. cache'[Here'] = c /\ topic' = k.topic /\ filter' = Latest
      BY <1>2, <1>3, <1>4, <1>8
    <3>3. TailOK(c, topic)'
      BY <2>0, <3>2 DEF TailOK, Cursor, Exhausted, Single
    <3>4. BrokerOK' /\ KnownOK'
      BY AnswerBase DEF Base
    <3> QED BY <3>1, <3>2, <3>3, <3>4, FirstPage
  <2>4. cache'[Here'] = c
    BY <1>2, <1>3, <1>4, <1>8
  <2> QED BY <1>5, <2>1, <2>2, <2>3, <2>4 DEF Paged, PagingOK
<1> QED BY <1>2, <1>3, <1>4, <1>6, <1>7, <1>8

\* A step that changes neither the selection nor the cache nor the live view.
LEMMA QuietBase ==
  ASSUME Base, UNCHANGED <<broker, topic, filter, cache, live, wsNext>>,
         unread \subseteq unread', unread' \subseteq Message,
         fetching' \subseteq Key, paging'.older \in Seq(Message),
         ToSet(paging'.older) \subseteq Known,
         paging'.cursor # None => Partitions(paging'.cursor),
         asked' # None => Partitions(asked'.cursor)
  PROVE  Base'
<1>1. PICK older : older = paging'.older
  OBVIOUS
<1>2. older \in Seq(Message) /\ ToSet(older) \subseteq Known
  BY <1>1
<1>3. BrokerOK' /\ KnownOK' /\ CacheOK'
  BY <1>1, <1>2, CacheRests
<1>4. ScreenOK'
  BY DEF Base, ScreenOK, Here, Partitions
<1>5. LiveOK'
  BY DEF Base, LiveOK
<1> QED BY <1>3, <1>4, <1>5 DEF Base

LEMMA SameRows ==
  ASSUME Base
  PROVE  paging.older \in Seq(Message) /\ ToSet(paging.older) \subseteq Known
BY DEF Base, ScreenOK, Known

LEMMA NoRows == <<>> \in Seq(Message) /\ ToSet(<<>>) = {}
BY ToSetOK

LEMMA PagingRests ==
  ASSUME PagingOK, UNCHANGED <<broker, topic, filter, cache, paging, unread>>
  PROVE  PagingOK'
BY DEF PagingOK, PagedOK, broker, Cursor, Exhausted, Between, Complete, Single, Here,
       InOrExcused

LEMMA SelectStep ==
  ASSUME Base, NEW k \in Key, Select(k.topic, k.filter)
  PROVE  Base' /\ (NoOverlap /\ Paged => Paged')
<1>1. PICK c : c = cache[k]
  OBVIOUS
<1>2. k = [topic |-> k.topic, filter |-> k.filter]
      /\ k.topic \in Topics /\ k.filter \in Filters \cup {Latest}
  BY DEF Key
<1>3. /\ UNCHANGED <<broker, cache>> /\ asked' = asked /\ live' = Quiet /\ wsNext' = None
      /\ paging' = PagingOf(k.filter, c) /\ topic' = k.topic /\ filter' = k.filter
      /\ fetching' \subseteq fetching \cup {k} /\ (NoOverlap => asked = None)
      /\ unread' = unread
  BY <1>1, <1>2 DEF Select, Free
<1>4. Here' = k
  BY <1>2, <1>3 DEF Here
<1>5. c # None => ResultOK(c, k)
  BY <1>1 DEF Base, CacheOK, Cached
<1>6. PICK pg : pg = paging'
  OBVIOUS
<1>7. /\ pg.older = <<>>
      /\ pg.cursor # None => /\ k.filter = Latest /\ c # None
                             /\ pg = [older |-> <<>>, cursor |-> c.cursor, more |-> c.more]
                             /\ Partitions(pg.cursor)
  BY <1>3, <1>5, <1>6, PagingOfOK DEF ResultOK, TailOK, Cursor
<1>8. BrokerOK' /\ KnownOK' /\ CacheOK'
  BY <1>3, <1>6, <1>7, NoRows, CacheRests
<1>9. ScreenOK'
  BY <1>3, <1>4, <1>6, <1>7, NoRows DEF Base, ScreenOK, Partitions
<1>10. LiveOK'
  <2>1. Len(<<>>) <= LiveMax
    BY BrowserAssumption
  <2> QED BY <1>3, <2>1, NoRows DEF LiveOK, Quiet
<1>11. ASSUME NoOverlap, pg.cursor # None PROVE PagedOK(pg, c.cursor)'
  <2>1. TailOK(c, topic)'
    <3>1. ResultOK(c, k)' /\ k.filter = Latest
      BY <1>3, <1>5, <1>7, <1>11, ResultKeeps
    <3> QED BY <1>3, <3>1 DEF ResultOK, TailOK, Cursor, Exhausted, Single
  <2>2. (filter = Latest)' /\ (cache[Here] # None)'
    BY <1>1, <1>3, <1>4, <1>7, <1>11
  <2> QED BY <1>7, <1>8, <1>11, <2>1, <2>2, FirstPage
<1>12. cache'[Here'] = c
  BY <1>1, <1>3, <1>4
<1>13. NoOverlap => Paged'
  BY <1>3, <1>6, <1>7, <1>11, <1>12 DEF Paged, PagingOK, AskedOK
<1> QED BY <1>8, <1>9, <1>10, <1>13 DEF Base

LEMMA QueryFailsStep ==
  ASSUME Base, NEW k \in Key, QueryFails(k)
  PROVE  Base' /\ (Paged => Paged')
<1>1. /\ UNCHANGED <<broker, topic, filter, cache, paging, live, wsNext, unread>> /\ asked' = asked
      /\ fetching' \subseteq fetching
  BY DEF QueryFails
<1>2. Base'
  BY <1>1, SameRows, QuietBase DEF Base, ScreenOK
<1>3. ASSUME Paged PROVE Paged'
  BY <1>1, <1>3, PagingRests DEF Paged, AskedOK, Here
<1> QED BY <1>2, <1>3

LEMMA RefreshStep ==
  ASSUME Base, Refresh
  PROVE  Base' /\ (NoOverlap => Paged')
<1>1. /\ UNCHANGED <<broker, topic, filter, cache, live, wsNext, unread>> /\ asked' = asked
      /\ paging' = Fresh /\ fetching' = fetching \cup {Here} /\ (NoOverlap => asked = None)
  BY DEF Refresh, Free
<1>2. Base'
  <2>1. paging'.older = <<>> /\ paging'.cursor = None
    BY <1>1 DEF Fresh
  <2> QED BY <1>1, <2>1, NoRows, QuietBase DEF Base, ScreenOK
<1>3. NoOverlap => Paged'
  BY <1>1 DEF Fresh, Paged, PagingOK, AskedOK
<1> QED BY <1>2, <1>3

LEMMA RefetchStep ==
  ASSUME Base, Refetch
  PROVE  Base' /\ (NoOverlap /\ Paged => Paged')
<1>1. /\ UNCHANGED <<broker, topic, filter, cache, paging, live, wsNext, unread>> /\ asked' = asked
      /\ fetching' = fetching \cup {Here} /\ (NoOverlap => asked = None)
  BY DEF Refetch, Free
<1>2. Base'
  BY <1>1, SameRows, QuietBase DEF Base, ScreenOK
<1>3. ASSUME NoOverlap, Paged PROVE Paged'
  BY <1>1, <1>3, PagingRests DEF Paged, AskedOK
<1> QED BY <1>2, <1>3

LEMMA LoadOlderStep ==
  ASSUME Base, LoadOlder
  PROVE  Base' /\ (NoOverlap /\ Paged => Paged')
<1>1. /\ UNCHANGED <<broker, topic, filter, cache, paging, live, wsNext, unread>>
      /\ fetching' = fetching /\ paging.cursor # None
      /\ asked' = [topic |-> topic, cursor |-> paging.cursor]
      /\ NoOverlap => Here \notin fetching
  BY DEF LoadOlder
<1>2. asked'.cursor = paging.cursor
  BY <1>1
<1>3. Base'
  BY <1>1, <1>2, SameRows, QuietBase DEF Base, ScreenOK
<1>4. ASSUME NoOverlap, Paged PROVE Paged'
  BY <1>1, <1>4, PagingRests DEF Paged, AskedOK, Here
<1> QED BY <1>3, <1>4

LEMMA OlderFailsStep ==
  ASSUME Base, OlderFails
  PROVE  Base' /\ (Paged => Paged')
<1>1. /\ UNCHANGED <<broker, topic, filter, cache, paging, live, wsNext, unread>>
      /\ fetching' = fetching /\ asked' = None
  BY DEF OlderFails
<1>2. Base'
  BY <1>1, SameRows, QuietBase DEF Base, ScreenOK
<1>3. ASSUME Paged PROVE Paged'
  BY <1>1, <1>3, PagingRests DEF Paged, AskedOK
<1> QED BY <1>2, <1>3

\* The rows an older page brings.
LEMMA OlderRows ==
  ASSUME Base, NEW t, NEW cur, NEW e
  PROVE  LET items == TailOf(t, cur, e).items
         IN  /\ Sorted(items) \in Seq(Message) /\ ToSet(Sorted(items)) = items
             /\ Descending(Sorted(items)) /\ items \subseteq log
             /\ \A m \in items : m.topic = t
<1> DEFINE items == TailOf(t, cur, e).items
<1>1. items \subseteq Of(t)
  BY TailReads
<1> HIDE DEF items
<1>2. /\ items \in SUBSET Message /\ items \subseteq log /\ IsFiniteSet(items)
      /\ Consistent(items) /\ \A m \in items : m.topic = t
  BY <1>1, FromLog DEF Base
<1>3. Sorted(items) \in Seq(Message) /\ ToSet(Sorted(items)) = items
      /\ Descending(Sorted(items))
  BY <1>2, SortedOK
<1> QED BY <1>2, <1>3 DEF items

LEMMA OlderArrivesBase ==
  ASSUME Base, NEW e, OlderArrives(e)
  PROVE  Base'
<1>1. PICK t, cur : t = asked.topic /\ cur = asked.cursor
  OBVIOUS
<1>2. PICK res, new : res = TailOf(t, cur, e) /\ new = Sorted(res.items)
  OBVIOUS
<1>3. /\ UNCHANGED <<broker, topic, filter, cache, live, wsNext>>
      /\ fetching' = fetching /\ asked' = None /\ asked # None
      /\ paging' = [older |-> Merge(paging.older, new), cursor |-> res.cursor,
                    more |-> res.more]
      /\ unread' = unread \cup Left(t, cur, e)
  BY <1>1, <1>2 DEF OlderArrives
<1>4. new \in Seq(Message) /\ ToSet(new) \subseteq log
  BY <1>2, OlderRows
<1>8. unread' \subseteq Message
  <2>1. Left(t, cur, e) \subseteq log
    BY TailReads DEF Of
  <2> QED BY <1>3, <2>1 DEF Base, ScreenOK, KnownOK, Known, Real
<1>5. /\ Merge(paging.older, new) \in Seq(Message)
      /\ ToSet(Merge(paging.older, new)) \subseteq ToSet(paging.older) \cup ToSet(new)
  BY <1>4, SameRows, MergeOK
<1>6. /\ paging'.older \in Seq(Message) /\ ToSet(paging'.older) \subseteq Known
      /\ paging'.cursor = res.cursor
  BY <1>3, <1>4, <1>5, SameRows DEF Known
<1>7. Partitions(res.cursor)
  <2>1. DOMAIN res.cursor = DOMAIN cur
    BY <1>2, TailReads
  <2> QED BY <1>1, <1>3, <2>1 DEF Base, ScreenOK, Partitions
<1> QED BY <1>3, <1>6, <1>7, <1>8, QuietBase DEF Base, ScreenOK

LEMMA OlderArrivesPaged ==
  ASSUME Base, Paged, NEW e, OlderArrives(e)
  PROVE  Paged'
<1>1. PICK rows, cur, hi : rows = paging.older /\ cur = paging.cursor
                           /\ hi = cache[Here].cursor
  OBVIOUS
<1>2. /\ asked # None /\ asked.topic = topic /\ asked.cursor = cur /\ cur # None
      /\ PagedOK(paging, hi)
  BY <1>1 DEF OlderArrives, Paged, AskedOK, PagingOK
<1>3. PICK res, new : res = TailOf(topic, cur, e) /\ new = Sorted(res.items)
  OBVIOUS
<1>4. PICK all : all = Merge(rows, new)
  OBVIOUS
<1>5. /\ UNCHANGED broker /\ topic' = topic /\ filter' = filter /\ cache' = cache
      /\ Here' = Here /\ asked' = None
      /\ paging' = [older |-> all, cursor |-> res.cursor, more |-> res.more]
      /\ unread' = unread \cup Left(topic, cur, e) /\ log' = log /\ begin' = begin
  BY <1>1, <1>2, <1>3, <1>4 DEF OlderArrives, Here, broker
<1>6. /\ filter = Latest /\ cache[Here] # None /\ Cursor(cur, topic)
      /\ \A p \in Parts[topic] : cur[p] <= hi[p]
      /\ Between(rows, cur, hi) /\ (Single(topic) => Complete(rows, cur, hi))
  BY <1>1, <1>2 DEF PagedOK
<1>7. topic \in Topics /\ Here \in Key /\ Here.topic = topic /\ Here.filter = Latest
      /\ rows \in Seq(Message) /\ ToSet(rows) \subseteq Known
  BY <1>1, <1>6, SameRows DEF Base, ScreenOK, Here, Key
<1>8. Cursor(hi, topic)
  BY <1>1, <1>6, <1>7 DEF Base, CacheOK, Cached, ResultOK, TailOK
<1>9. /\ Cursor(res.cursor, topic) /\ \A p \in Parts[topic] : res.cursor[p] <= cur[p]
      /\ \A m \in res.items : res.cursor[m.part] <= m.off /\ m.off < cur[m.part]
      /\ ~res.more => Exhausted(res.cursor, topic)
      /\ Single(topic) => \A m \in log :
           m.topic = topic /\ res.cursor[0] <= m.off /\ m.off < cur[0]
             => \/ m \in res.items \/ m \in Left(topic, cur, e)
                \/ \E k \in res.items : k.part = m.part /\ k.off < m.off /\ k.ts > m.ts
  BY <1>3, <1>6, <1>7, TailServes DEF Base
<1>10. /\ new \in Seq(Message) /\ ToSet(new) = res.items /\ Descending(new)
       /\ res.items \subseteq log /\ \A m \in res.items : m.topic = topic
  BY <1>3, OlderRows
<1>11. /\ all \in Seq(Message) /\ ToSet(all) \subseteq ToSet(rows) \cup res.items
       /\ ToSet(rows) \subseteq ToSet(all)
       /\ \A n \in res.items : (\A m \in ToSet(rows) : ~SameRow(m, n)) => n \in ToSet(all)
  BY <1>4, <1>7, <1>10, MergeOK
<1>12. ASSUME NEW m \in Known, m.topic = topic
       PROVE  /\ m.part \in Parts[topic] /\ m.off \in Nat /\ m.ts \in Nat /\ m.part \in Nat
              /\ res.cursor[m.part] \in Nat /\ cur[m.part] \in Nat /\ hi[m.part] \in Nat
              /\ res.cursor[m.part] <= cur[m.part] /\ cur[m.part] <= hi[m.part]
  <2>1. /\ m.part \in Parts[m.topic] /\ m.off \in Nat /\ m.ts \in Nat /\ m.part \in Nat
    BY <1>12, RealOK DEF Base, KnownOK
  <2> QED BY <1>6, <1>8, <1>9, <1>12, <2>1 DEF Cursor
<1>13. res.items \subseteq Known
  BY <1>10 DEF Known
<1>14. Between(all, res.cursor, hi)
  <2>1. ASSUME NEW m \in ToSet(rows)
        PROVE  m.topic = topic /\ res.cursor[m.part] <= m.off /\ m.off < hi[m.part]
    <3>1. m \in Known /\ m.topic = topic /\ cur[m.part] <= m.off /\ m.off < hi[m.part]
      BY <1>6, <1>7 DEF Between
    <3> QED BY <1>12, <3>1
  <2>2. ASSUME NEW m \in res.items
        PROVE  m.topic = topic /\ res.cursor[m.part] <= m.off /\ m.off < hi[m.part]
    <3>1. /\ m \in Known /\ m.topic = topic
          /\ res.cursor[m.part] <= m.off /\ m.off < cur[m.part]
      BY <1>9, <1>10, <1>13
    <3> QED BY <1>12, <3>1
  <2> QED BY <1>11, <2>1, <2>2 DEF Between
<1>15. ASSUME Single(topic) PROVE Complete(all, res.cursor, hi)'
  <2>1. \A m \in Known : m.topic = topic => m.part = 0
    BY <1>12, <1>15 DEF Single
  <2>2. ASSUME NEW m \in ToSet(rows), NEW n \in res.items
        PROVE  Above(m, n) /\ ~SameRow(m, n)
    <3>1. m \in Known /\ n \in Known /\ m.topic = topic /\ n.topic = topic
          /\ cur[m.part] <= m.off /\ n.off < cur[n.part]
      BY <1>6, <1>7, <1>9, <1>10, <1>13 DEF Between
    <3>2. m.part = 0 /\ n.part = 0 /\ m.off \in Nat /\ n.off \in Nat /\ cur[0] \in Nat
      BY <1>12, <2>1, <3>1
    <3>3. n.off < m.off
      BY <3>1, <3>2
    <3> QED BY <3>2, <3>3 DEF Above, SameRow
  <2>3. Descending(all)
    BY <1>4, <1>6, <1>7, <1>10, <1>15, <2>2, MergeDescends DEF Complete
  <2>4. ASSUME NEW m \in log, m.topic = topic, res.cursor[0] <= m.off, m.off < hi[0]
        PROVE  InOrExcused(m, ToSet(all))'
    <3>1. m \in Known /\ m.part = 0
      BY <2>1, <2>4 DEF Known
    <3>2. m.off \in Nat /\ cur[0] \in Nat
      BY <1>12, <2>4, <3>1
    <3>3. CASE cur[0] <= m.off
      <4>1. InOrExcused(m, ToSet(rows))
        BY <1>6, <1>15, <2>4, <3>3 DEF Complete
      <4> QED BY <1>5, <1>11, <4>1, ExcusedKeeps
    <3>4. CASE m.off < cur[0]
      <4>1. res.items \subseteq ToSet(all)
        BY <1>11, <2>2
      <4> QED BY <1>5, <1>9, <1>15, <2>4, <3>4, <4>1 DEF InOrExcused
    <3> QED BY <3>2, <3>3, <3>4
  <2> QED BY <1>5, <2>3, <2>4 DEF Complete
<1>16. PICK pg : pg = paging'
  OBVIOUS
<1>17. pg.older = all /\ pg.cursor = res.cursor /\ pg.more = res.more
  BY <1>5, <1>16
<1>19. PagedOK(pg, hi)'
  <2>1. \A p \in Parts[topic] : res.cursor[p] <= hi[p]
    BY <1>6, <1>8, <1>9 DEF Cursor
  <2>2. Between(all, res.cursor, hi)' /\ (~res.more => Exhausted(res.cursor, topic)')
    BY <1>5, <1>9, <1>14 DEF Between, Exhausted
  <2>3. (filter = Latest)' /\ (cache[Here] # None)' /\ Cursor(res.cursor, topic)'
    BY <1>5, <1>6, <1>9 DEF Cursor
  <2>4. (Single(topic) => Complete(all, res.cursor, hi))'
    BY <1>5, <1>15 DEF Single
  <2> QED BY <1>5, <1>17, <2>1, <2>2, <2>3, <2>4 DEF PagedOK
<1>20. res.cursor # None
  <2>1. res.cursor \in [Parts[topic] -> Nat]
    <3>1. PICK pool : res.cursor = NextCursor(cur, pool)
      BY <1>3 DEF TailOf, TailPage
    <3>2. res.cursor = [p \in DOMAIN res.cursor |-> res.cursor[p]]
      BY <3>1 DEF NextCursor
    <3> QED BY <1>9, <3>2 DEF Cursor
  <2> QED BY <1>7, <2>1, BrowserAssumption
<1>21. cache'[Here'].cursor = hi
  BY <1>1, <1>5
<1> QED BY <1>5, <1>16, <1>17, <1>19, <1>20, <1>21 DEF Paged, PagingOK, AskedOK

-----------------------------------------------------------------------------
(* The live view.                                                          *)

\* The rows of a sequence after the first d.
LEMMA RowsAfter ==
  ASSUME NEW all \in Seq(Message), NEW d \in Nat, NEW m \in Nat, Len(all) = d + m,
         NEW s, s = SubSeq(all, d + 1, d + m)
  PROVE  s \in Seq(Message) /\ Len(s) = m /\ ToSet(s) \subseteq ToSet(all)
<1>1. PICK n \in Nat : n = d + m
  OBVIOUS
<1>2. DOMAIN all = 1..n /\ \A i \in 1..n : all[i] \in Message
  BY <1>1
<1>3. \A i \in 1..m : d + i \in 1..n
  BY <1>1
<1>4. PICK l : l = [i \in 1..m |-> all[d + i]]
  OBVIOUS
<1>5. SubSeq(all, d + 1, n) = l
  <2>1. SubSeq(all, d + 1, n) = [k \in 1..n - (d + 1) + 1 |-> all[d + 1 + k - 1]]
    BY <1>1
  <2>2. n - (d + 1) + 1 = m /\ \A k \in 1..m : d + 1 + k - 1 = d + k
    BY <1>1
  <2> QED BY <1>4, <2>1, <2>2
<1>6. \A i \in 1..m : l[i] = all[d + i] /\ l[i] \in Message
  BY <1>2, <1>3, <1>4
<1>7. l \in Seq(Message) /\ Len(l) = m /\ DOMAIN l = 1..m
  BY <1>4, <1>6
<1>8. ASSUME NEW x \in ToSet(l) PROVE x \in ToSet(all)
  <2>1. PICK i \in 1..m : l[i] = x
    BY <1>7, ToSetOK
  <2>2. d + i \in DOMAIN all /\ all[d + i] = x
    BY <1>2, <1>3, <1>6, <2>1
  <2> QED BY <2>2, ToSetOK
<1> QED BY <1>1, <1>5, <1>7, <1>8

\* What the live view keeps.
LEMMA LastRows ==
  ASSUME NEW all \in Seq(Message), NEW a,
         a = IF Len(all) > LiveMax THEN Len(all) - LiveMax + 1 ELSE 1,
         NEW s, s = SubSeq(all, a, Len(all))
  PROVE  s \in Seq(Message) /\ Len(s) <= LiveMax /\ ToSet(s) \subseteq ToSet(all)
<1>1. LiveMax \in Nat /\ Len(all) \in Nat
  BY BrowserAssumption
<1>2. PICK n, l : n = Len(all) /\ l = LiveMax
  OBVIOUS
<1>3. \E d, m \in Nat : a = d + 1 /\ d + m = n /\ m <= l
  <2>1. CASE n > l
    <3>1. n - l \in Nat /\ a = (n - l) + 1 /\ (n - l) + l = n /\ l \in Nat /\ l <= l
      BY <1>1, <1>2, <2>1
    <3> QED BY <3>1
  <2>2. CASE ~(n > l)
    <3>1. 0 \in Nat /\ a = 0 + 1 /\ 0 + n = n /\ n \in Nat /\ n <= l
      BY <1>1, <1>2, <2>2
    <3> QED BY <3>1
  <2> QED BY <2>1, <2>2
<1>4. PICK d \in Nat, m \in Nat : a = d + 1 /\ d + m = n /\ m <= l
  BY <1>3
<1>5. s = SubSeq(all, d + 1, d + m) /\ Len(all) = d + m
  BY <1>2, <1>4
<1>6. s \in Seq(Message) /\ Len(s) = m /\ ToSet(s) \subseteq ToSet(all)
  BY <1>5, RowsAfter
<1> QED BY <1>2, <1>4, <1>6

\* The live view alone changes.
LEMMA LiveKeeps ==
  ASSUME Base, UNCHANGED <<broker, topic, filter, cache, fetching, paging, asked, unread>>, LiveOK'
  PROVE  Base' /\ (Paged => Paged')
<1>1. BrokerOK' /\ KnownOK' /\ CacheOK'
  BY SameRows, CacheRests
<1>2. ScreenOK'
  BY DEF Base, ScreenOK, Here, Partitions
<1>3. ASSUME Paged PROVE Paged'
  BY <1>3, PagingRests DEF Paged, AskedOK, Here
<1> QED BY <1>1, <1>2, <1>3 DEF Base

LEMMA ToggleLiveStep ==
  ASSUME Base, ToggleLive
  PROVE  Base' /\ (Paged => Paged')
<1>1. /\ UNCHANGED <<broker, topic, filter, cache, fetching, paging, asked, unread>>
      /\ filter = Latest /\ live' = [live EXCEPT !.on = ~@]
      /\ wsNext' = IF live.on THEN None ELSE 0
  BY DEF ToggleLive
<1>2. LiveOK'
  <2>1. live \in [on : BOOLEAN, shown : Seq(Message)]
    BY DEF Base, LiveOK
  <2>2. live' \in [on : BOOLEAN, shown : Seq(Message)] /\ live'.shown = live.shown
        /\ live'.on = ~live.on
    BY <1>1, <2>1
  <2> QED BY <1>1, <2>2 DEF Base, LiveOK
<1> QED BY <1>1, <1>2, LiveKeeps

LEMMA LivePollStep ==
  ASSUME Base, NEW o, LivePoll(o)
  PROVE  Base' /\ (Paged => Paged')
<1>1. PICK got, all : got = ByOffset(Polled(o)) /\ all = Merge(live.shown, got)
  OBVIOUS
<1>2. PICK a, s : /\ a = IF Len(all) > LiveMax THEN Len(all) - LiveMax + 1 ELSE 1
                  /\ s = SubSeq(all, a, Len(all))
  OBVIOUS
<1>3. /\ UNCHANGED <<broker, topic, filter, cache, fetching, paging, asked, unread>>
      /\ wsNext # None /\ live' = [live EXCEPT !.shown = s]
  BY <1>1, <1>2 DEF LivePoll
<1>4. Polled(o) \subseteq Of(topic) /\ \A m \in Polled(o) : m.part = 0
  BY DEF Polled, Lookup, Forward, Span
<1>5. /\ Polled(o) \in SUBSET Message /\ IsFiniteSet(Polled(o)) /\ Consistent(Polled(o))
      /\ \A m \in Polled(o) : m.topic = topic
  BY <1>4, FromLog DEF Base
<1>6. \A m, n \in Polled(o) : m.off = n.off => m = n
  BY <1>4, <1>5 DEF Consistent, Agree
<1>7. got \in Seq(Message) /\ ToSet(got) = Polled(o)
  BY <1>1, <1>5, <1>6, ByOffsetOK
<1>8. live \in [on : BOOLEAN, shown : Seq(Message)] /\ live.on /\ filter = Latest
      /\ \A m \in ToSet(live.shown) : m.topic = topic
  BY <1>3 DEF Base, LiveOK
<1>9. all \in Seq(Message) /\ ToSet(all) \subseteq ToSet(live.shown) \cup Polled(o)
  BY <1>1, <1>7, <1>8, MergeOK
<1>10. s \in Seq(Message) /\ Len(s) <= LiveMax /\ ToSet(s) \subseteq ToSet(all)
  BY <1>2, <1>9, LastRows
<1>11. live' \in [on : BOOLEAN, shown : Seq(Message)] /\ live'.shown = s /\ live'.on
  BY <1>3, <1>8, <1>10
<1>12. LiveOK'
  BY <1>3, <1>5, <1>8, <1>9, <1>10, <1>11 DEF LiveOK
<1> QED BY <1>3, <1>12, LiveKeeps

-----------------------------------------------------------------------------
(* The invariants.                                                         *)

LEMMA BaseInductive == Base /\ [Next]_vars => Base'
<1> SUFFICES ASSUME Base, [Next]_vars PROVE Base'
  OBVIOUS
<1>1. CASE UNCHANGED vars
  <2>1. UNCHANGED <<broker, topic, filter, cache, live, wsNext, unread>> /\ paging' = paging
        /\ fetching' = fetching /\ asked' = asked
    BY <1>1 DEF vars, broker
  <2> QED BY <2>1, SameRows, QuietBase DEF Base, ScreenOK
<1>2. ASSUME NEW t \in Topics, NEW p \in Parts[t],
             Retain(t, p) \/ \E ts \in Stamps : Produce(t, p, ts)
      PROVE  Base'
  BY <1>2, ProduceStep, RetainStep
<1>3. ASSUME NEW m \in log, Compact(m) PROVE Base'
  BY <1>3, CompactStep
<1>4. ASSUME NEW k \in Key, \/ Select(k.topic, k.filter) \/ QueryFails(k)
                            \/ \E e \in Errors(k.topic) : Answer(k, e)
      PROVE  Base'
  BY <1>4, SelectStep, AnswerBase, QueryFailsStep
<1>5. CASE \/ Refresh \/ Refetch \/ LoadOlder \/ OlderFails
           \/ \E e \in Errors(asked.topic) : OlderArrives(e)
  BY <1>5, RefreshStep, RefetchStep, LoadOlderStep, OlderArrivesBase, OlderFailsStep
<1>6. CASE ToggleLive \/ \E o \in Comes : LivePoll(o)
  BY <1>6, ToggleLiveStep, LivePollStep
<1> QED BY <1>1, <1>2, <1>3, <1>4, <1>5, <1>6 DEF Next

LEMMA BaseInvariant == Spec => []Base
BY InitBase, BaseInductive, PTL DEF Spec

LEMMA PagedInductive == ASSUME NoOverlap PROVE Base /\ Paged /\ [Next]_vars => Paged'
<1> SUFFICES ASSUME Base, Paged, [Next]_vars PROVE Paged'
  OBVIOUS
<1>1. CASE UNCHANGED vars
  <2>1. UNCHANGED <<broker, topic, filter, cache, paging, fetching, asked, unread>>
    BY <1>1 DEF vars, broker
  <2> QED BY <2>1, PagingRests DEF Paged, AskedOK, Here
<1>2. ASSUME NEW t \in Topics, NEW p \in Parts[t],
             Retain(t, p) \/ \E ts \in Stamps : Produce(t, p, ts)
      PROVE  Paged'
  BY <1>2, ProduceStep, RetainStep
<1>3. ASSUME NEW m \in log, Compact(m) PROVE Paged'
  BY <1>3, CompactStep
<1>4. ASSUME NEW k \in Key, \/ Select(k.topic, k.filter) \/ QueryFails(k)
                            \/ \E e \in Errors(k.topic) : Answer(k, e)
      PROVE  Paged'
  BY <1>4, SelectStep, AnswerPaged, QueryFailsStep
<1>5. CASE \/ Refresh \/ Refetch \/ LoadOlder \/ OlderFails
           \/ \E e \in Errors(asked.topic) : OlderArrives(e)
  BY <1>5, RefreshStep, RefetchStep, LoadOlderStep, OlderArrivesPaged, OlderFailsStep
<1>6. CASE ToggleLive \/ \E o \in Comes : LivePoll(o)
  BY <1>6, ToggleLiveStep, LivePollStep
<1> QED BY <1>1, <1>2, <1>3, <1>4, <1>5, <1>6 DEF Next

LEMMA PagedInvariant == ASSUME NoOverlap PROVE Spec => [](Base /\ Paged)
BY InitBase, BaseInductive, PagedInductive, PTL DEF Spec

\* The rows of the tail: the cached page, then the older rows, all of them
\* between the cursor and the log end.
LEMMA TailRowsOK ==
  ASSUME Base, Paged, filter = Latest
  PROVE  /\ Items \in SUBSET Message /\ IsFiniteSet(Items) /\ Items \subseteq Known
         /\ \A m \in Items : m.topic = topic
         /\ Sorted(Items) \in Seq(Message) /\ ToSet(Sorted(Items)) = Items
         /\ Descending(Sorted(Items))
         /\ TailRows \in Seq(Message)
         /\ ToSet(TailRows) \subseteq Items \cup ToSet(paging.older)
         /\ Items \subseteq ToSet(TailRows)
         /\ \A n \in ToSet(paging.older) : (\A m \in Items : ~SameRow(m, n))
                                             => n \in ToSet(TailRows)
         /\ ToSet(paging.older) \subseteq Known
         /\ \A m \in ToSet(paging.older) : m.topic = topic
<1>1. Here \in Key /\ Here.topic = topic /\ Here.filter = Latest
  BY DEF Base, ScreenOK, Here
<1>2. /\ Items \subseteq Known /\ IsFiniteSet(Items) /\ \A m \in Items : m.topic = topic
  <2>1. CASE cache[Here] = None
    BY <2>1, FS_EmptySet DEF Items
  <2>2. CASE cache[Here] # None
    BY <1>1, <2>2 DEF Items, Base, CacheOK, Cached, ResultOK, Known, Kept
  <2> QED BY <2>1, <2>2
<1>3. Items \in SUBSET Message /\ Consistent(Items)
  BY <1>2 DEF Base, KnownOK, Real, Consistent
<1>4. Sorted(Items) \in Seq(Message) /\ ToSet(Sorted(Items)) = Items
      /\ Descending(Sorted(Items))
  BY <1>2, <1>3, SortedOK
<1>5. /\ TailRows \in Seq(Message)
      /\ ToSet(TailRows) \subseteq Items \cup ToSet(paging.older)
      /\ Items \subseteq ToSet(TailRows)
      /\ \A n \in ToSet(paging.older) : (\A m \in Items : ~SameRow(m, n))
                                          => n \in ToSet(TailRows)
  BY <1>4, SameRows, MergeOK DEF TailRows
<1>6. \A m \in ToSet(paging.older) : m.topic = topic
  <2>1. CASE paging.cursor = None
    BY <2>1, NoRows DEF Paged, PagingOK
  <2>2. CASE paging.cursor # None
    BY <2>2 DEF Paged, PagingOK, PagedOK, Between
  <2> QED BY <2>1, <2>2
<1> QED BY <1>2, <1>3, <1>4, <1>5, <1>6, SameRows

\* Where a row of the tail stands: at or above the cursor of its partition; an
\* older one below the cursor of the cached page.
LEMMA RowsPlaced ==
  ASSUME Base, Paged, filter = Latest
  PROVE  /\ \A m \in Items : /\ m.part \in Parts[topic] /\ m.off \in Nat
                             /\ cache[Here].cursor[m.part] \in Nat
                             /\ cache[Here].cursor[m.part] <= m.off
         /\ \A m \in ToSet(paging.older) :
              /\ paging.cursor # None /\ m.part \in Parts[topic] /\ m.off \in Nat
              /\ m.off < cache[Here].cursor[m.part]
         /\ paging.cursor # None =>
              /\ cache[Here] # None
              /\ \A m \in Items \cup ToSet(paging.older) :
                   /\ paging.cursor[m.part] \in Nat /\ paging.cursor[m.part] <= m.off
<1>1. Here \in Key /\ Here.topic = topic /\ Here.filter = Latest
  BY DEF Base, ScreenOK, Here
<1>2. \A m \in Items \cup ToSet(paging.older) :
        m \in Known /\ m.topic = topic /\ m.part \in Parts[topic] /\ m.off \in Nat
  BY TailRowsOK, RealOK DEF Base, KnownOK
<1>3. ASSUME cache[Here] # None
      PROVE  /\ Cursor(cache[Here].cursor, topic)
             /\ \A m \in Items : cache[Here].cursor[m.part] <= m.off
  BY <1>1, <1>3 DEF Base, CacheOK, Cached, ResultOK, TailOK, Items
<1>4. \A m \in Items : cache[Here] # None
  BY DEF Items
<1>5. ASSUME paging.cursor = None PROVE ToSet(paging.older) = {}
  BY <1>5, NoRows DEF Paged, PagingOK
<1>6. ASSUME paging.cursor # None
      PROVE  /\ cache[Here] # None /\ Cursor(paging.cursor, topic)
             /\ \A p \in Parts[topic] : paging.cursor[p] <= cache[Here].cursor[p]
             /\ \A m \in ToSet(paging.older) : /\ paging.cursor[m.part] <= m.off
                                               /\ m.off < cache[Here].cursor[m.part]
  BY <1>6 DEF Paged, PagingOK, PagedOK, Between
<1>7. \A m \in Items : /\ cache[Here].cursor[m.part] \in Nat
                       /\ cache[Here].cursor[m.part] <= m.off
  BY <1>2, <1>3, <1>4 DEF Cursor
<1>8. ASSUME paging.cursor # None, NEW m \in Items
      PROVE  paging.cursor[m.part] \in Nat /\ paging.cursor[m.part] <= m.off
  <2>1. /\ paging.cursor[m.part] \in Nat /\ m.off \in Nat
        /\ paging.cursor[m.part] <= cache[Here].cursor[m.part]
    BY <1>2, <1>6, <1>8 DEF Cursor
  <2> QED BY <1>7, <2>1
<1>9. ASSUME paging.cursor # None, NEW m \in ToSet(paging.older)
      PROVE  paging.cursor[m.part] \in Nat /\ paging.cursor[m.part] <= m.off
  BY <1>2, <1>6, <1>9 DEF Cursor
<1> QED BY <1>2, <1>5, <1>6, <1>7, <1>8, <1>9

-----------------------------------------------------------------------------
(* Theorems about the page.                                                *)

\* The log, the query results, the cursors and the live view keep their types,
\* whatever the user does while answers are on their way.
THEOREM TypeCorrect == Spec => []TypeOK
<1>1. ASSUME Base PROVE TypeOK
  <2>1. log \subseteq Message
    BY <1>1 DEF Base, KnownOK, Known, Real
  <2>2. topic \in Topics /\ filter \in Filters \cup {Latest}
    BY <1>1 DEF Base, ScreenOK, Here, Key
  <2>3. \A t \in Topics : \A p \in Parts[t] : begin[t][p] <= end[t][p]
    BY <1>1 DEF Base, BrokerOK, OffsetsOK
  <2> QED BY <1>1, <2>1, <2>2, <2>3
          DEF Base, CacheOK, ScreenOK, LiveOK, Partitions, TypeOK
<1> QED BY <1>1, BaseInvariant, PTL

\* With the rest of the page waiting for an older page, the rows on the screen
\* are of the selected topic, partition and offsets: no answer brings the rows
\* of another selection.
THEOREM RowsOfSelection == ASSUME NoOverlap PROVE Spec => []ShowsSelected
<1>1. ASSUME Base, Paged PROVE ShowsSelected
  <2>1. CASE live.on /\ live.shown # <<>>
    <3>1. Displayed = live.shown
      BY <2>1 DEF Displayed
    <3> QED BY <1>1, <2>1, <3>1 DEF Base, LiveOK, ShowsSelected
  <2>2. CASE ~(live.on /\ live.shown # <<>>) /\ filter = Latest
    <3>1. Displayed = TailRows
      BY <2>2 DEF Displayed
    <3>2. \A m \in ToSet(TailRows) : m.topic = topic
      BY <1>1, <2>2, TailRowsOK
    <3> QED BY <2>2, <3>1, <3>2 DEF ShowsSelected
  <2>3. CASE ~(live.on /\ live.shown # <<>>) /\ filter # Latest
    <3>1. Displayed = ByOffset(Items)
      BY <2>3 DEF Displayed
    <3>2. /\ Items \subseteq Known /\ IsFiniteSet(Items)
          /\ \A m \in Items : /\ m.topic = topic /\ m.part = filter.part
                              /\ filter.from # None => filter.from <= m.off
      <4>1. Here \in Key /\ Here.topic = topic /\ Here.filter = filter
        BY <1>1 DEF Base, ScreenOK, Here
      <4>2. CASE cache[Here] = None
        BY <4>2, FS_EmptySet DEF Items
      <4>3. CASE cache[Here] # None
        <5>1. Items = cache[Here].items /\ ResultOK(cache[Here], Here) /\ Here \in Cached
          BY <1>1, <4>1, <4>3 DEF Items, Base, CacheOK, Cached
        <5>2. Items \subseteq Known
          BY <5>1 DEF Known, Kept
        <5> QED BY <2>3, <4>1, <5>1, <5>2 DEF ResultOK, FilterOK
      <4> QED BY <4>2, <4>3
    <3>3. Items \in SUBSET Message /\ \A m, n \in Items : m.off = n.off => m = n
      BY <1>1, <3>2 DEF Base, KnownOK, Real, Consistent, Agree
    <3>4. ToSet(ByOffset(Items)) = Items
      BY <3>2, <3>3, ByOffsetOK
    <3>5. \A m \in Items : filter.from # None => m.off >= filter.from
      <4>1. \A m \in Items : m.off \in Nat
        BY <3>3, MessageFields
      <4>2. filter.from \in Nat \cup {None}
        BY <1>1, <2>3, BrowserAssumption DEF Base, ScreenOK, Here, Key
      <4> QED BY <3>2, <4>1, <4>2
    <3> QED BY <3>1, <3>2, <3>4, <3>5 DEF ShowsSelected
  <2> QED BY <2>1, <2>2, <2>3
<1> QED BY <1>1, PagedInvariant, PTL

\* In a topic with one partition the older pages leave nothing out above the
\* oldest row, nor at all when the last answer said there is no more: but for
\* what a fetch broke off before, and for messages stamped earlier than a row
\* that was written before them.
THEOREM NothingSkippedInOne ==
  ASSUME NoOverlap PROVE Spec => []OnePartitionNothingSkipped
<1>1. ASSUME Base, Paged PROVE OnePartitionNothingSkipped
  <2>1. SUFFICES ASSUME OnePartition, Tailing, NEW m \in Skipped \ unread,
                        \A n \in Shown :
                          ~(n.part = m.part /\ n.off < m.off /\ n.ts > m.ts)
                 PROVE FALSE
    BY DEF OnePartitionNothingSkipped
  <2>2. topic \in Topics /\ filter = Latest /\ Displayed = TailRows
    BY <1>1, <2>1 DEF Base, ScreenOK, Here, Key, Tailing, Displayed
  <2>3. Single(topic)
    <3>1. IsFiniteSet(Parts[topic]) /\ 0 \in Parts[topic]
      BY <2>2, BrowserAssumption
    <3>2. \E x : Parts[topic] = {x}
      BY <2>1, <3>1, FS_Singleton DEF OnePartition
    <3> QED BY <3>1, <3>2 DEF Single
  <2>4. /\ m \in log /\ m.topic = topic /\ m \notin ToSet(TailRows) /\ m \notin unread
        /\ \A n \in ToSet(TailRows) :
             ~(n.part = m.part /\ n.off < m.off /\ n.ts > m.ts)
        /\ \E n \in ToSet(TailRows) : m.ts < n.ts
        /\ \/ \E n \in ToSet(TailRows) : n.part = m.part /\ n.off < m.off
           \/ paging.cursor # None /\ ~paging.more
    BY <2>1, <2>2 DEF Skipped, Shown, Of
  <2>5. \A x \in Known : x.topic = topic => x.part = 0 /\ x.off \in Nat /\ x.ts \in Nat
    BY <1>1, <2>3, RealOK DEF Base, KnownOK, Single
  <2>6. m \in Known /\ m.part = 0 /\ m.off \in Nat /\ m.ts \in Nat
    BY <2>4, <2>5 DEF Known
  <2>7. \A x \in ToSet(TailRows) :
          /\ x \in Items \cup ToSet(paging.older) /\ x \in Known /\ x.topic = topic
          /\ x.part = 0 /\ x.off \in Nat /\ x.ts \in Nat
    BY <1>1, <2>2, <2>5, TailRowsOK
  <2>8. PICK n \in ToSet(TailRows) : m.off < n.off
    <3>1. PICK n \in ToSet(TailRows) : m.ts < n.ts
      BY <2>4
    <3>2. Agree(m, n) /\ Agree(n, m) /\ n # m
      BY <1>1, <2>4, <2>6, <2>7 DEF Base, KnownOK, Consistent
    <3>3. n.off # m.off /\ ~(n.off < m.off)
      BY <2>4, <2>6, <2>7, <3>1, <3>2 DEF Agree
    <3> QED BY <2>6, <2>7, <3>3
  <2>9. PICK hi : hi = cache[Here].cursor[0]
    OBVIOUS
  <2>10. /\ cache[Here] # None /\ hi \in Nat
         /\ \A x \in Items : hi <= x.off
         /\ \A x \in ToSet(paging.older) : paging.cursor # None /\ x.off < hi
    <3>1. Items # {} \/ paging.cursor # None
      BY <1>1, <2>2, <2>7, RowsPlaced
    <3>2. cache[Here] # None
      BY <1>1, <2>2, <3>1, RowsPlaced DEF Items
    <3>3. hi \in Nat
      BY <1>1, <2>2, <2>3, <2>9, <3>2
         DEF Base, ScreenOK, CacheOK, Cached, ResultOK, TailOK, Cursor, Here, Single
    <3>4. \A x \in Items \cup ToSet(paging.older) : x.part = 0
      BY <1>1, <2>2, <2>5, TailRowsOK
    <3> QED BY <1>1, <2>2, <2>9, <3>2, <3>3, <3>4, RowsPlaced
  <2>11. CASE hi <= m.off
    <3>1. n \in Items
      BY <2>6, <2>7, <2>8, <2>10, <2>11
    <3>2. InOrExcused(m, Items)
      BY <1>1, <2>2, <2>3, <2>4, <2>8, <2>9, <2>10, <2>11, <3>1
         DEF Base, ScreenOK, CacheOK, Cached, ResultOK, TailOK, Here, Items
    <3>3. Items \subseteq ToSet(TailRows)
      BY <1>1, <2>2, TailRowsOK
    <3> QED BY <2>4, <3>2, <3>3 DEF InOrExcused
  <2>12. CASE m.off < hi
    <3>1. paging.cursor # None
      <4>1. CASE \E x \in ToSet(TailRows) : x.part = m.part /\ x.off < m.off
        <5>1. PICK x \in ToSet(TailRows) : x.off < m.off
          BY <4>1
        <5>2. x \notin Items
          BY <2>6, <2>7, <2>10, <2>12, <5>1
        <5> QED BY <2>7, <2>10, <5>1, <5>2
      <4> QED BY <2>4, <4>1
    <3>2. /\ PagedOK(paging, cache[Here].cursor) /\ paging.cursor[0] \in Nat
      BY <1>1, <2>3, <3>1 DEF Paged, PagingOK, PagedOK, Cursor, Single
    <3>3. paging.cursor[0] <= m.off
      <4>1. CASE \E x \in ToSet(TailRows) : x.part = m.part /\ x.off < m.off
        <5>1. PICK x \in ToSet(TailRows) : x.off < m.off
          BY <4>1
        <5>2. paging.cursor[0] <= x.off /\ x.off \in Nat
          BY <1>1, <2>2, <2>7, <3>1, <5>1, RowsPlaced
        <5> QED BY <2>6, <3>2, <5>1, <5>2
      <4>2. CASE ~paging.more
        <5>1. paging.cursor[0] <= begin[topic][0]
          BY <2>3, <3>2, <4>2 DEF PagedOK, Exhausted, Single
        <5>2. begin[topic][0] <= m.off /\ begin[topic][0] \in Nat
          BY <1>1, <2>2, <2>3, <2>4, <2>6 DEF Base, BrokerOK, OffsetsOK, Single
        <5> QED BY <2>6, <3>2, <5>1, <5>2
      <4> QED BY <2>4, <4>1, <4>2
    <3>4. InOrExcused(m, ToSet(paging.older))
      BY <2>3, <2>4, <2>9, <2>12, <3>2, <3>3 DEF PagedOK, Complete
    <3>5. ASSUME NEW k \in ToSet(paging.older) PROVE k \in ToSet(TailRows)
      <4>1. /\ k.off \in Nat /\ k.off < hi
            /\ \A x \in Items : x.off \in Nat /\ hi <= x.off
        BY <1>1, <2>2, <2>10, <3>5, RowsPlaced
      <4>2. \A x \in Items : ~SameRow(x, k)
        BY <2>10, <4>1 DEF SameRow
      <4> QED BY <1>1, <2>2, <4>2, TailRowsOK
    <3> QED BY <2>4, <3>4, <3>5 DEF InOrExcused
  <2> QED BY <2>6, <2>10, <2>11, <2>12
<1> QED BY <1>1, PagedInvariant, PTL

\* In a topic with one partition the rows stay newest first when older pages
\* are appended, or a row below was written before the row above it.
THEOREM RowsNewestFirst == ASSUME NoOverlap PROVE Spec => []NewestFirst
<1>1. ASSUME Base, Paged PROVE NewestFirst
  <2>1. SUFFICES ASSUME Tailing, OnePartition PROVE Descending(TailRows)
    BY DEF NewestFirst, Tailing, Displayed, Descending, Above
  <2>2. topic \in Topics /\ filter = Latest
    BY <1>1, <2>1 DEF Base, ScreenOK, Here, Key, Tailing
  <2>3. Single(topic)
    <3>1. IsFiniteSet(Parts[topic]) /\ 0 \in Parts[topic]
      BY <2>2, BrowserAssumption
    <3>2. \E x : Parts[topic] = {x}
      BY <2>1, <3>1, FS_Singleton DEF OnePartition
    <3> QED BY <3>1, <3>2 DEF Single
  <2>4. ASSUME NEW m \in Items, NEW n \in ToSet(paging.older) PROVE Above(m, n)
    <3>1. m \in Known /\ n \in Known /\ m.topic = topic /\ n.topic = topic
      BY <1>1, <2>2, TailRowsOK
    <3>2. /\ m.part = 0 /\ n.part = 0 /\ m.off \in Nat /\ n.off \in Nat
          /\ m.ts \in Nat /\ n.ts \in Nat
      BY <1>1, <2>3, <3>1, RealOK DEF Base, KnownOK, Single
    <3>3. n.off < m.off
      BY <1>1, <2>2, <3>2, RowsPlaced
    <3> QED BY <3>3 DEF Above
  <2>5. Descending(paging.older)
    <3>1. CASE paging.cursor = None
      BY <1>1, <3>1 DEF Paged, PagingOK, Descending
    <3>2. CASE paging.cursor # None
      BY <1>1, <2>3, <3>2 DEF Paged, PagingOK, PagedOK, Complete
    <3> QED BY <3>1, <3>2
  <2>6. /\ Sorted(Items) \in Seq(Message) /\ ToSet(Sorted(Items)) = Items
        /\ Descending(Sorted(Items)) /\ paging.older \in Seq(Message)
    BY <1>1, <2>2, TailRowsOK, SameRows
  <2> QED BY <2>4, <2>5, <2>6, MergeDescends DEF TailRows
<1> QED BY <1>1, PagedInvariant, PTL

\* An older page brings no message that the page already shows, although
\* messages are produced and deleted between the pages.
THEOREM OlderRowsNew == ASSUME NoOverlap PROVE Spec => OlderPagesNew
<1> DEFINE P == (asked # None /\ asked' = None /\ paging' # paging)
                  => \A e \in Errors(asked.topic) :
                       TailOf(asked.topic, asked.cursor, e).items
                         \cap ToSet(TailRows) = {}
<1>1. ASSUME Base, Paged PROVE [Next]_vars => [P]_vars
  <2> SUFFICES ASSUME asked # None, NEW e,
                      NEW m \in TailOf(asked.topic, asked.cursor, e).items,
                      m \in ToSet(TailRows)
               PROVE  FALSE
    OBVIOUS
  <2>1. /\ asked.topic = topic /\ asked.cursor = paging.cursor /\ paging.cursor # None
        /\ filter = Latest /\ Cursor(paging.cursor, topic) /\ topic \in Topics
    BY <1>1 DEF Paged, AskedOK, PagingOK, PagedOK, Base, ScreenOK, Here, Key
  <2>2. PICK cur, res : cur = paging.cursor /\ res = TailOf(topic, cur, e)
    OBVIOUS
  <2>3. m \in res.items /\ m.off < cur[m.part]
    BY <1>1, <2>1, <2>2, TailServes DEF Base
  <2>4. m \in Items \cup ToSet(paging.older)
    BY <1>1, <2>1, TailRowsOK
  <2>5. cur[m.part] \in Nat /\ cur[m.part] <= m.off /\ m.off \in Nat
    BY <1>1, <2>1, <2>2, <2>4, RowsPlaced
  <2> QED BY <2>3, <2>5
<1> QED BY <1>1, PagedInvariant, PTL DEF Spec, OlderPagesNew
=============================================================================

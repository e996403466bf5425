--------------------------- MODULE MessageBrowser ---------------------------
(***************************************************************************)
(* The Messages page of the frontend, the messages endpoint behind it and   *)
(* the broker: a page that shows one topic, loads older pages on request,   *)
(* refreshes, looks an offset up and follows new messages over a socket,    *)
(* while producers and retention change the log.                            *)
(*                                                                          *)
(* The page keeps its query results by topic and filter (React Query); an   *)
(* answer that equals the cached one does not count as new data.            *)
(***************************************************************************)
EXTENDS TailPager, Ordering, SequencesExt

CONSTANTS
  None,
  Topics,
  Parts,       \* the partitions of every topic, numbered from 0
  Filters,     \* what the user may type: [topic, part, from], from an offset
               \* or None
  Latest,      \* both fields empty: tail mode
  StartLog,    \* the messages at the start, [topic, part, off, ts]
  MaxOffset,   \* bound on the offsets producers reach
  MaxChanges,  \* bound on the messages that are appended and deleted
  MaxErrors,   \* bound on the errors one request meets and survives
  MaxUnread,   \* bound on the messages that broken-off fetches left out
  Stamps,      \* the time stamps producers set
  LiveBatch,   \* messages read per live poll (20)
  LiveMax,     \* messages the live view keeps (100)
  User,        \* what the user does besides loading older pages
  Broker,      \* subset of {"produce", "retain", "compact", "fail", "cut",
               \* "offsets"}
  NoOverlap    \* TRUE: nothing else happens on the page while an older page
               \* is on its way

VARIABLES
  log,         \* messages of the broker
  begin, end,  \* log start and log end offsets, per topic and partition
  topic, filter, \* what the page shows
  cache,       \* query results by [topic, filter]
  fetching,    \* keys with a query in flight
  paging,      \* olderMessages, tailCursor and hasMore
  asked,       \* the request of loadOlder in flight, or None
  live,        \* liveTail and liveMessages
  wsNext,      \* the offset the live loop reads next, or None: no socket
  unread       \* history: the messages of a tail that fetches broke off
               \* before

broker == <<log, begin, end>>
page == <<topic, filter, cache, fetching, paging, asked, live, wsNext, unread>>
vars == <<log, begin, end, topic, filter, cache, fetching, paging, asked,
          live, wsNext, unread>>

Message == [topic : Topics, part : Nat, off : 0..MaxOffset, ts : Nat]
Of(t) == {m \in log : m.topic = t}
Key == {k \in [topic : Topics, filter : Filters \cup {Latest}] :
          k.filter # Latest => k.filter.topic = k.topic}
Here == [topic |-> topic, filter |-> filter]
Ends(t, ms) == [p \in Parts[t] |->
                  LET offs == {m.off : m \in {x \in ms : /\ x.topic = t
                                                          /\ x.part = p}}
                  IN  Cardinality(offs)]

Fresh == [older |-> <<>>, cursor |-> None, more |-> FALSE]
Quiet == [on |-> FALSE, shown |-> <<>>]

ASSUME BrowserAssumption ==
  /\ {MaxOffset, MaxErrors, MaxUnread, LiveBatch, LiveMax} \subseteq Nat
  /\ Stamps \subseteq Nat
  /\ None \notin Nat /\ None \notin Message /\ Latest \notin Filters
  /\ IsFiniteSet(Topics) /\ Parts \in [Topics -> SUBSET Nat]
  /\ \A t \in Topics : /\ IsFiniteSet(Parts[t]) /\ 0 \in Parts[t]
                        /\ None \notin [Parts[t] -> Nat]
  /\ \A f \in Filters : /\ f.topic \in Topics /\ f.part \in Parts[f.topic]
                        /\ f.from \in Nat \cup {None}

\* The log starts without gaps.
ASSUME StartAssumption ==
  /\ StartLog \subseteq Message /\ IsFiniteSet(StartLog)
  /\ \A m \in StartLog : m.part \in Parts[m.topic] /\ m.off < MaxOffset
  /\ \A m \in StartLog, o \in 0..MaxOffset :
       o < m.off => \E n \in StartLog : n.topic = m.topic /\ n.part = m.part
                                        /\ n.off = o
  /\ \A m, n \in StartLog :
       m.topic = n.topic /\ m.part = n.part /\ m.off = n.off => m = n

Init == /\ log = StartLog
        /\ begin = [t \in Topics |-> [p \in Parts[t] |-> 0]]
        /\ end = [t \in Topics |-> Ends(t, StartLog)]
        /\ topic \in Topics /\ filter = Latest
        /\ cache = [k \in Key |-> None]
        /\ fetching = {Here}
        /\ paging = Fresh /\ asked = None
        /\ live = Quiet /\ wsNext = None
        /\ unread = {}

-----------------------------------------------------------------------------
(* The broker.                                                             *)

\* Every message ever written, and how many were appended or deleted since the
\* start.
Written == {w \in [topic : Topics, part : UNION {Parts[t] : t \in Topics},
                    off : 0..MaxOffset] :
              w.part \in Parts[w.topic] /\ w.off < end[w.topic][w.part]}
Changes == (Cardinality(Written) - Cardinality(StartLog))
           + (Cardinality(Written) - Cardinality(log))

\* A producer appends, with a time stamp of its own.
Produce(t, p, ts) ==
  /\ "produce" \in Broker /\ Changes < MaxChanges
  /\ end[t][p] < MaxOffset
  /\ log' = log \cup {[topic |-> t, part |-> p, off |-> end[t][p], ts |-> ts]}
  /\ end' = [end EXCEPT ![t][p] = @ + 1]
  /\ UNCHANGED <<begin, page>>

\* Retention deletes the oldest message.
Retain(t, p) ==
  /\ "retain" \in Broker /\ Changes < MaxChanges
  /\ begin[t][p] < end[t][p]
  /\ begin' = [begin EXCEPT ![t][p] = @ + 1]
  /\ log' = {m \in log : ~(m.topic = t /\ m.part = p /\ m.off = begin[t][p])}
  /\ UNCHANGED <<end, page>>

\* Compaction deletes a message that is not the last of its partition.
Compact(m) ==
  /\ "compact" \in Broker /\ Changes < MaxChanges
  /\ m.off + 1 < end[m.topic][m.part]
  /\ log' = log \ {m}
  /\ UNCHANGED <<begin, end, page>>

-----------------------------------------------------------------------------
(* The endpoint: fetchMessages.                                            *)

\* The errors one request meets and answers 200 all the same: the partitions
\* whose offsets cannot be listed, and the offsets its fetches come to.
Unbroken(t) == [p \in Parts[t] |-> MaxOffset + 1]
Errors(t) ==
  {e \in [deaf : IF "offsets" \in Broker THEN SUBSET Parts[t] ELSE {{}},
          stop : IF "cut" \in Broker
                 THEN [Parts[t] -> {m.off : m \in Of(t)} \cup {MaxOffset + 1}]
                 ELSE {Unbroken(t)}] :
     Cardinality({p \in Parts[t] : p \in e.deaf \/ e.stop[p] <= MaxOffset})
       <= MaxErrors}

\* ListPartitions: a partition whose offsets cannot be listed begins and ends
\* at 0.
Listed(offs, e) == [p \in DOMAIN offs |-> IF p \in e.deaf THEN 0 ELSE offs[p]]

TailOf(t, cur, e) == TailPage(Of(t), e.stop, Listed(begin[t], e), cur)
Left(t, cur, e) == Unread(Of(t), e.stop, Listed(begin[t], e), cur)
SomeOf(t, cur, e) == SomeRead(Of(t), e.stop, Listed(begin[t], e), cur)

\* An absent partition is partition 0, an absent offset the log start.
FoundIn(recs, t, f) ==
  Lookup(recs, begin[t], end[t], f.part,
         IF f.from = None THEN begin[t][f.part] ELSE f.from, Limit)

Served(k, e) ==
  IF k.filter = Latest THEN TailOf(k.topic, Listed(end[k.topic], e), e)
  ELSE [items |-> FoundIn(Read(Of(k.topic), e.stop), k.topic, k.filter),
        more |-> FALSE, cursor |-> None]

\* A fetch has come to a record, if there was one to read.
Answers(k, e) ==
  IF k.filter = Latest THEN SomeOf(k.topic, Listed(end[k.topic], e), e)
  ELSE FoundIn(Of(k.topic), k.topic, k.filter) # {} => Served(k, e).items # {}

-----------------------------------------------------------------------------
(* The page.                                                               *)

Sorted(ms) == InOrder(ms, {r \in ms \X ms : Newer(r[1], r[2])})
ByOffset(ms) == InOrder(ms, {r \in ms \X ms : r[1].off < r[2].off})

\* mergeMessages: rows are told apart by partition and offset alone.
SameRow(m, n) == m.part = n.part /\ m.off = n.off
Unseen(old, new) ==
  {i \in DOMAIN new : \A j \in DOMAIN old : ~SameRow(old[j], new[i])}
Merge(old, new) == old \o Taken(new, Unseen(old, new))

\* What the effect on new query data leaves of the paging state.
PagingOf(f, data) ==
  IF f = Latest /\ data # None
  THEN [older |-> <<>>, cursor |-> data.cursor, more |-> data.more]
  ELSE Fresh

\* The rows on the screen.
Items == IF cache[Here] = None THEN {} ELSE cache[Here].items
TailRows == Merge(Sorted(Items), paging.older)
Displayed ==
  IF live.on /\ live.shown # <<>> THEN live.shown
  ELSE IF filter = Latest THEN TailRows
  ELSE ByOffset(Items)

Free == NoOverlap => asked = None

\* Slip: olderMessages are kept when another topic is selected.
SelectKeepingOlder(t, f) ==
  /\ Free
  /\ [topic |-> t, filter |-> f] # Here
  /\ topic' = t /\ filter' = f
  /\ LET k == [topic |-> t, filter |-> f]
     IN  /\ paging' = [PagingOf(f, cache[k]) EXCEPT !.older = paging.older]
         /\ fetching' \in {fetching \cup {k}}
                       \cup (IF cache[k] = None THEN {} ELSE {fetching})
  /\ live' = Quiet /\ wsNext' = None
  /\ UNCHANGED <<broker, cache, asked, unread>>

\* Another topic or filter: the reset effect, then the effect on the data the
\* cache has for it; the query runs unless that data is fresh.
Select(t, f) ==
  /\ Free
  /\ [topic |-> t, filter |-> f] # Here
  /\ topic' = t /\ filter' = f
  /\ LET k == [topic |-> t, filter |-> f]
     IN  /\ paging' = PagingOf(f, cache[k])
         /\ fetching' \in {fetching \cup {k}}
                       \cup (IF cache[k] = None THEN {} ELSE {fetching})
  /\ live' = Quiet /\ wsNext' = None
  /\ UNCHANGED <<broker, cache, asked, unread>>

\* The query of k is answered, with the errors e.  Equal data keeps its
\* identity, so the effect does not run.
Answer(k, e) ==
  /\ k \in fetching
  /\ Answers(k, e)
  /\ LET data == Served(k, e)
     IN  /\ cache' = [cache EXCEPT ![k] = data]
         /\ paging' = IF k = Here /\ cache[k] # data /\ filter = Latest
                      THEN PagingOf(filter, data) ELSE paging
  /\ fetching' = fetching \ {k}
  /\ unread' = IF k.filter = Latest
               THEN unread \cup Left(k.topic, Listed(end[k.topic], e), e)
               ELSE unread
  /\ Cardinality(unread') <= MaxUnread
  /\ UNCHANGED <<broker, topic, filter, asked, live, wsNext>>

\* (The page hides the older-messages button until the next answer; the model
\* lets it be pressed.)
QueryFails(k) ==
  /\ "fail" \in Broker
  /\ k \in fetching
  /\ fetching' = fetching \ {k}
  /\ UNCHANGED <<broker, topic, filter, cache, paging, asked, live, wsNext,
                 unread>>

\* The Refresh button, disabled while the query runs.
Refresh ==
  /\ "refresh" \in User /\ Free
  /\ Here \notin fetching
  /\ paging' = Fresh
  /\ fetching' = fetching \cup {Here}
  /\ UNCHANGED <<broker, topic, filter, cache, asked, live, wsNext, unread>>

\* The query runs again by itself: the window gets the focus, or a message
\* was published in the dialog.
Refetch ==
  /\ "refetch" \in User /\ Free
  /\ Here \notin fetching
  /\ fetching' = fetching \cup {Here}
  /\ UNCHANGED <<broker, topic, filter, cache, paging, asked, live, wsNext,
                 unread>>

\* Show older messages.
LoadOlder ==
  /\ filter = Latest /\ cache[Here] # None
  /\ paging.cursor # None /\ paging.more /\ asked = None
  /\ NoOverlap => Here \notin fetching
  /\ asked' = [topic |-> topic, cursor |-> paging.cursor]
  /\ UNCHANGED <<broker, topic, filter, cache, fetching, paging, live, wsNext,
                 unread>>

\* Slip: the answer is put in front of the older rows.
OlderArrivesOnTop(e) ==
  /\ asked # None
  /\ SomeOf(asked.topic, asked.cursor, e)
  /\ LET res == TailOf(asked.topic, asked.cursor, e)
     IN  paging' = [older |-> Merge(Sorted(res.items), paging.older),
                    cursor |-> res.cursor, more |-> res.more]
  /\ unread' = unread \cup Left(asked.topic, asked.cursor, e)
  /\ Cardinality(unread') <= MaxUnread
  /\ asked' = None
  /\ UNCHANGED <<broker, topic, filter, cache, fetching, live, wsNext>>

\* Its answer is appended to whatever the page shows by then.
OlderArrives(e) ==
  /\ asked # None
  /\ SomeOf(asked.topic, asked.cursor, e)
  /\ LET res == TailOf(asked.topic, asked.cursor, e)
     IN  paging' = [older |-> Merge(paging.older, Sorted(res.items)),
                    cursor |-> res.cursor, more |-> res.more]
  /\ unread' = unread \cup Left(asked.topic, asked.cursor, e)
  /\ Cardinality(unread') <= MaxUnread
  /\ asked' = None
  /\ UNCHANGED <<broker, topic, filter, cache, fetching, live, wsNext>>

OlderFails ==
  /\ "fail" \in Broker
  /\ asked # None
  /\ asked' = None
  /\ UNCHANGED <<broker, topic, filter, cache, fetching, paging, live, wsNext,
                 unread>>

\* The Live tail button; the server's loop starts at offset 0.
ToggleLive ==
  /\ "live" \in User /\ filter = Latest
  /\ live' = [live EXCEPT !.on = ~@]
  /\ wsNext' = IF live.on THEN None ELSE 0
  /\ UNCHANGED <<broker, topic, filter, cache, fetching, paging, asked, unread>>

\* What the fetch of a tick reads that comes to the offset o.
Comes == (IF "cut" \in Broker THEN 1..MaxOffset ELSE {}) \cup {MaxOffset + 1}
Polled(o) == Lookup({m \in Of(topic) : m.off < o}, begin[topic], end[topic], 0,
                    wsNext, LiveBatch)

\* Slip: the view keeps every message.
LivePollUnbounded(o) ==
  /\ wsNext # None
  /\ LET got == ByOffset(Polled(o))
     IN  /\ got # <<>>
         /\ wsNext' = got[Len(got)].off + 1
         /\ live' = [live EXCEPT !.shown = Merge(@, got)]
  /\ UNCHANGED <<broker, topic, filter, cache, fetching, paging, asked, unread>>

\* One tick of liveTailMessages: partition 0, at most LiveBatch messages.
LivePoll(o) ==
  /\ wsNext # None
  /\ LET got == ByOffset(Polled(o))
         all == Merge(live.shown, got)
     IN  /\ got # <<>>
         /\ wsNext' = got[Len(got)].off + 1
         /\ live' = [live EXCEPT !.shown =
                       SubSeq(all, IF Len(all) > LiveMax
                                   THEN Len(all) - LiveMax + 1 ELSE 1, Len(all))]
  /\ UNCHANGED <<broker, topic, filter, cache, fetching, paging, asked, unread>>

Next == \/ \E t \in Topics : \E p \in Parts[t] :
             Retain(t, p) \/ \E ts \in Stamps : Produce(t, p, ts)
        \/ \E m \in log : Compact(m)
        \/ \E k \in Key : \/ Select(k.topic, k.filter) \/ QueryFails(k)
                          \/ \E e \in Errors(k.topic) : Answer(k, e)
        \/ Refresh \/ Refetch \/ LoadOlder \/ OlderFails
        \/ asked # None /\ \E e \in Errors(asked.topic) : OlderArrives(e)
        \/ ToggleLive \/ \E o \in Comes : LivePoll(o)

Spec == Init /\ [][Next]_vars

-----------------------------------------------------------------------------
(* Properties.                                                             *)

TypeOK ==
  /\ log \subseteq Message
  /\ topic \in Topics /\ filter \in Filters \cup {Latest}
  /\ DOMAIN cache = Key /\ fetching \subseteq Key
  /\ \A t \in Topics : \A p \in Parts[t] : begin[t][p] <= end[t][p]
  /\ paging.cursor # None =>
       DOMAIN paging.cursor \in {Parts[t] : t \in Topics}
  /\ Len(live.shown) <= LiveMax
  /\ wsNext # None => live.on
  /\ unread \subseteq Message

\* Every row on the screen is of the selected topic, and of the partition and
\* offsets looked up: the reset effect of MessagesPage leaves nothing behind.
ShowsSelected ==
  \A m \in ToSet(Displayed) :
    /\ m.topic = topic
    /\ filter # Latest => /\ m.part = filter.part
                          /\ filter.from # None => m.off >= filter.from

Tailing == filter = Latest /\ ~(live.on /\ live.shown # <<>>)
OnePartition == Cardinality(Parts[topic]) = 1
Shown == ToSet(Displayed)

\* Messages that are older than one on the screen and left out, above a row of
\* their partition or although the last answer said there is no more.
Skipped == LET shown == Shown
           IN  {m \in Of(topic) \ shown :
                  /\ \E n \in shown : m.ts < n.ts
                  /\ \/ \E n \in shown : n.part = m.part /\ n.off < m.off
                     \/ paging.cursor # None /\ ~paging.more}

\* "Repeat until the button disappears (all available messages loaded)": the
\* older pages leave no older message out.
NothingSkipped == Tailing => Skipped = {}

\* With one partition the cursor goes below rows only: a message left out is
\* one a fetch broke off before, or its producer stamped it earlier than a row
\* that was written before it.
OnePartitionNothingSkipped ==
  (Tailing /\ OnePartition) =>
    \A m \in Skipped \ unread :
      \E n \in Shown : n.part = m.part /\ n.off < m.off /\ n.ts > m.ts

\* "sorts them newest first": older pages appended below keep the order of a
\* topic with one partition; where time stamps do not follow the offsets, the
\* row below was written before the row above.
NewestFirst ==
  (Tailing /\ OnePartition) =>
    LET rows == Displayed
    IN  \A i, j \in DOMAIN rows :
          i < j => Newer(rows[i], rows[j]) \/ rows[j].off < rows[i].off

\* An older page never brings a message the tail already holds, although
\* messages are produced and deleted between the pages.
OlderPagesNew ==
  [][(asked # None /\ asked' = None /\ paging' # paging)
       => \A e \in Errors(asked.topic) :
            TailOf(asked.topic, asked.cursor, e).items
              \cap ToSet(TailRows) = {}]_vars
=============================================================================

------------------------------ MODULE VendorFetch ------------------------------
(***************************************************************************)
(* One run of ingest_all over a declarative connector and a vendor that    *)
(* goes on publishing meanwhile (ingestion/providers/declarative.py).  The *)
(* series of an instrument is sharded over the endpoints of its category;  *)
(* each is requested page by page or, unpaginated, once for the life of    *)
(* the connector, and what the shards yield is mapped, averaged by day if  *)
(* the descriptor says so, concatenated, cleaned and stored.               *)
(*                                                                         *)
(* A row is an instrument and a time.  Its value is not modelled, so an    *)
(* observation is known by the rows its value was averaged from, and of a  *)
(* list of rows received only how often each is in it.                     *)
(***************************************************************************)
EXTENDS Integers, SequencesExt

CONSTANTS
  Keys,           \* instrument keys of the category, in the order of the universe
  Other,          \* a provider-native instrument the instrument_key_map leaves out
  All,            \* of a path whose template names no instrument
  Configurations, \* descriptors: see Descriptor
  Shards,         \* external: endpoint -> times it has when the run begins
  Columns,        \* external: order of the instruments in a shared response
  Collections,    \* external: rows of each path when the run begins, by where it grows
  Begun,          \* external: last time published when the run begins
  MaxTime,        \* bound: last time published
  PartsPerDay,    \* times of one calendar day
  PageLimit       \* rows a vendor puts in a page, however many are asked for

Instruments == {Keys[i] : i \in DOMAIN Keys}
Endpoints == DOMAIN Shards
Newest == Len(Shards) \* the endpoint still written
Paths == Endpoints \X (Instruments \union {All})

RowsOf(keys, times) == {[key |-> k, time |-> t] : k \in keys, t \in times}
Row == RowsOf(Instruments \union {Other}, 1..MaxTime)
Carried(path) == IF path[2] = All THEN Instruments \union {Other} ELSE {path[2]}

Day(t) == (t + PartsPerDay - 1) \div PartsPerDay

Descriptor ==
  [mode : {"none", "offset", "cursor"}, \* pagination.mode
   shared : BOOLEAN, \* one response for all instruments, with an instrument_key_map
   filter : BOOLEAN, \* row_filter, which leaves the rows of Other out
   mean : BOOLEAN,   \* aggregate: daily_mean
   grows : {"end", "front"}] \* external: where the vendor adds rows

ASSUME DescriptorAssumption == Configurations \subseteq Descriptor

ASSUME PublisherAssumption ==
  /\ Keys \in Seq(Instruments) /\ Keys # <<>>
  /\ Other \notin Instruments /\ All \notin Instruments
  /\ Columns \in Seq(Instruments \union {Other}) /\ IsInjective(Columns)
  /\ Range(Columns) = Instruments \union {Other}
  /\ MaxTime \in Nat /\ Begun \in 0..MaxTime
  /\ PartsPerDay \in Nat \ {0} /\ PageLimit \in Nat \ {0}

\* A time is in one shard, and where days are averaged an old shard has whole ones.
ASSUME ShardAssumption ==
  /\ Shards \in Seq(SUBSET (1..Begun)) /\ Shards # <<>>
  /\ UNION {Shards[e] : e \in Endpoints} = 1..Begun
  /\ \A e, f \in Endpoints : e # f => Shards[e] \intersect Shards[f] = {}
  /\ (\E c \in Configurations : c.mean) =>
       \A e \in Endpoints \ {Newest} : \A t \in Shards[e], u \in (1..MaxTime) \ Shards[e] :
         Day(t) # Day(u)

\* A vendor serves each row of its shard once.
ASSUME CollectionAssumption ==
  \A grows \in {"end", "front"}, path \in Paths :
    /\ Collections[grows][path] \in Seq(Row) /\ IsInjective(Collections[grows][path])
    /\ Range(Collections[grows][path]) = RowsOf(Carried(path), Shards[path[1]])

VARIABLES
  cfg,          \* the descriptor
  shelf,        \* external: path -> rows in the order the vendor serves them
  clock,        \* external: last time published
  at,           \* index in Keys of the series being fetched
  endpoint,     \* of the descriptor, being fetched
  step,         \* of fetch_series: request, map, store; or done, failed
  offset,       \* _fetch_all_elements: rows seen so far
  cursor,       \* _fetch_all_elements: sequence with the last cursor received, if any
  elements,     \* _fetch_all_elements: row -> how often this endpoint sent it so far
  cache,        \* _payload_cache: rendered path -> payload
  observations, \* of this series so far
  frames        \* series stored: instrument -> observations

published == <<cfg, shelf, clock>>
fetchVars == <<published, at, endpoint, step, offset, cursor, elements, cache, observations,
               frames>>

Nothing == [row \in Row |-> 0]
Put(f, x, y) == [z \in DOMAIN f \union {x} |-> IF z = x THEN y ELSE f[z]]

FetchInit ==
  /\ cfg \in Configurations
  /\ shelf = [path \in Paths |-> Collections[cfg.grows][path]]
  /\ clock = Begun
  /\ at = 1 /\ endpoint = 1 /\ step = "request"
  /\ offset = 0 /\ cursor = <<>> /\ elements = Nothing
  /\ cache = <<>>
  /\ observations = {}
  /\ frames = <<>>

(***************************************************************************)
(* The vendor.                                                             *)
(***************************************************************************)
\* The rows of a time: of one instrument, or of all of them at once.
RowsAt(path, t) ==
  IF path[2] = All THEN [i \in DOMAIN Columns |-> [key |-> Columns[i], time |-> t]]
  ELSE <<[key |-> path[2], time |-> t]>>

Grown(path, t) ==
  IF path[1] # Newest THEN shelf[path]
  ELSE IF cfg.grows = "end" THEN shelf[path] \o RowsAt(path, t)
  ELSE RowsAt(path, t) \o shelf[path]

Publish ==
  /\ step \notin {"done", "failed"}
  /\ clock < MaxTime
  /\ clock' = clock + 1
  /\ shelf' = [path \in Paths |-> Grown(path, clock + 1)]
  /\ UNCHANGED <<cfg, at, endpoint, step, offset, cursor, elements, cache, observations,
                 frames>>

\* path_template names the instrument unless the response is shared.
Path == <<endpoint, IF cfg.shared THEN All ELSE Keys[at]>>
Response == shelf[Path]

PageAfter(n) == SubSeq(Response, n + 1, Min({n + PageLimit, Len(Response)}))

\* A cursor is the last row served: the next page begins after it, wherever it now is.
Resume == IF cursor = <<>> THEN 0 ELSE CHOOSE i \in DOMAIN Response : Response[i] = cursor[1]

(***************************************************************************)
(* _fetch_all_elements.                                                    *)
(***************************************************************************)
Kept(row) == cfg.filter => row.key # Other

\* elements.extend(self._filtered(endpoint, page))
Extended(some, page) ==
  [row \in Row |->
     some[row] + IF Kept(row) THEN Cardinality({i \in DOMAIN page : page[i] = row}) ELSE 0]

Received(rows) ==
  /\ elements' = rows
  /\ step' = "map"
  /\ UNCHANGED <<published, at, endpoint, offset, cursor, observations, frames>>

\* Mutant: every series is requested anew.
RequestUncached ==
  /\ step = "request" /\ cfg.mode = "none"
  /\ cache' = Put(cache, Path, Response)
  /\ Received(Extended(Nothing, Response))

Request ==
  /\ step = "request" /\ cfg.mode = "none" /\ Path \notin DOMAIN cache
  /\ cache' = Put(cache, Path, Response)
  /\ Received(Extended(Nothing, Response))

ReadCache ==
  /\ step = "request" /\ cfg.mode = "none" /\ Path \in DOMAIN cache
  /\ Received(Extended(Nothing, cache[Path]))
  /\ UNCHANGED cache

\* Mutant: the offset grows by the rows asked for, one more than this vendor's pages hold.
RequestOffsetByLimit ==
  LET page == PageAfter(offset) IN
  /\ step = "request" /\ cfg.mode = "offset"
  /\ page # <<>>
  /\ elements' = Extended(elements, page)
  /\ offset' = offset + PageLimit + 1
  /\ UNCHANGED <<published, at, endpoint, step, cursor, cache, observations, frames>>

\* Mutant: the offset grows by the rows kept.
RequestOffsetByKept ==
  LET page == PageAfter(offset) IN
  /\ step = "request" /\ cfg.mode = "offset"
  /\ page # <<>>
  /\ elements' = Extended(elements, page)
  /\ offset' = offset + Cardinality({i \in DOMAIN page : Kept(page[i])})
  /\ UNCHANGED <<published, at, endpoint, step, cursor, cache, observations, frames>>

\* Mutant: the offset is not advanced.
RequestSamePage ==
  LET page == PageAfter(offset) IN
  /\ step = "request" /\ cfg.mode = "offset"
  /\ page # <<>>
  /\ elements' = Extended(Nothing, page)
  /\ UNCHANGED <<published, at, endpoint, step, offset, cursor, cache, observations, frames>>

RequestPage ==
  LET page == PageAfter(offset) IN
  /\ step = "request" /\ cfg.mode = "offset"
  /\ page # <<>>
  /\ elements' = Extended(elements, page)
  /\ offset' = offset + Len(page)
  /\ UNCHANGED <<published, at, endpoint, step, cursor, cache, observations, frames>>

RequestEmptyPage ==
  /\ step = "request" /\ cfg.mode = "offset"
  /\ PageAfter(offset) = <<>>
  /\ Received(elements)
  /\ UNCHANGED cache

\* The vendor sends a cursor with every page but the last.
FollowCursor ==
  LET page == PageAfter(Resume) IN
  /\ step = "request" /\ cfg.mode = "cursor"
  /\ Resume + Len(page) < Len(Response)
  /\ elements' = Extended(elements, page)
  /\ cursor' = <<Last(page)>>
  /\ UNCHANGED <<published, at, endpoint, step, offset, cache, observations, frames>>

LastCursorPage ==
  LET page == PageAfter(Resume) IN
  /\ step = "request" /\ cfg.mode = "cursor"
  /\ Resume + Len(page) = Len(Response)
  /\ Received(Extended(elements, page))
  /\ UNCHANGED cache

\* An HTTP error, or a health check that fails, ends ingest_all.
Fail ==
  /\ step = "request"
  /\ step' = "failed"
  /\ UNCHANGED <<published, at, endpoint, offset, cursor, elements, cache, observations,
                 frames>>

(***************************************************************************)
(* fetch_series for one endpoint, then clean_series and the store.         *)
(***************************************************************************)
\* With no instrument_key_map a row is taken for the requested instrument's.
Mapped == {row \in Row : elements[row] > 0 /\ (cfg.shared => row.key = Keys[at])}

\* The date of an observation is the day of its rows (_daily_mean) or the time of its row.
DateOf(row) == IF cfg.mean THEN Day(row.time) ELSE row.time

\* What the batch yields: the mean of all elements of a day, or each element alone.
Batch ==
  {[date |-> DateOf(row),
    of |-> [r \in {m \in Mapped : DateOf(m) = DateOf(row)} |-> IF cfg.mean THEN elements[r] ELSE 1]]
     : row \in Mapped}

MapElements ==
  /\ step = "map"
  /\ observations' = observations \union Batch
  /\ offset' = 0 /\ cursor' = <<>> /\ elements' = Nothing
  /\ IF endpoint < Newest
     THEN endpoint' = endpoint + 1 /\ step' = "request"
     ELSE step' = "store" /\ UNCHANGED endpoint
  /\ UNCHANGED <<published, at, cache, frames>>

\* clean_series keeps one observation a date: the last of a sort that leaves the order of
\* equal dates open.
OnePerDate(found) ==
  {kept \in SUBSET found :
     \A o \in found : Cardinality({other \in kept : other.date = o.date}) = 1}

Store ==
  /\ step = "store"
  /\ \E frame \in OnePerDate(observations) : frames' = Put(frames, Keys[at], frame)
  /\ observations' = {}
  /\ endpoint' = 1
  /\ IF at < Len(Keys) THEN at' = at + 1 /\ step' = "request"
     ELSE step' = "done" /\ UNCHANGED at
  /\ UNCHANGED <<published, offset, cursor, elements, cache>>

Fetch ==
  \/ Request \/ ReadCache
  \/ RequestPage \/ RequestEmptyPage
  \/ FollowCursor \/ LastCursorPage
  \/ MapElements \/ Store

FetchNext == Publish \/ Fetch \/ Fail

\* The connector goes on while it is alive; the vendor need not.
FetchSpec == FetchInit /\ [][FetchNext]_fetchVars /\ WF_fetchVars(Fetch)

(***************************************************************************)
(* Properties.                                                             *)
(***************************************************************************)
FetchTypeOK ==
  /\ cfg \in Configurations
  /\ shelf \in [Paths -> Seq(Row)]
  /\ clock \in Begun..MaxTime
  /\ at \in DOMAIN Keys /\ endpoint \in Endpoints
  /\ step \in {"request", "map", "store", "done", "failed"}
  /\ offset \in Nat
  /\ cursor \in Seq(Row) /\ elements \in [Row -> Nat]
  /\ DOMAIN cache \subseteq Paths /\ DOMAIN frames \subseteq Instruments

\* contracts/declarative-connector.md, Fetch and Pagination: a stored series has every time
\* its vendor had published when the run began, from whichever shard and page, and an
\* observation is made of rows of its own instrument and date, whatever the vendor adds to
\* either end of the collection between two pages.
SeriesIsWhole ==
  \A k \in DOMAIN frames :
    /\ \A t \in 1..Begun : \E o \in frames[k] : [key |-> k, time |-> t] \in DOMAIN o.of
    /\ \A o \in frames[k] : \A row \in DOMAIN o.of : row.key = k /\ o.date = DateOf(row)

\* The mean of a day weighs each of its times once, although pages are cut anywhere,
\* unless rows move to a later page when the vendor adds before them.
MeanWeighsOnce ==
  ~(cfg.mode = "offset" /\ cfg.grows = "front" /\ cfg.mean) =>
    \A k \in DOMAIN frames : \A o \in frames[k] : \A row \in DOMAIN o.of : o.of[row] = 1

\* The instruments of a shared unpaginated file are stored with the same dates, made of
\* the same times, although their series are fetched one after another while the file
\* grows: a panel of them has no hole where the vendor left none.
SharedFileIsOneSnapshot ==
  LET made(k) == {[date |-> o.date, of |-> {row.time : row \in DOMAIN o.of}] : o \in frames[k]}
  IN cfg.shared /\ cfg.mode = "none" => \A j, k \in DOMAIN frames : made(j) = made(k)

\* Every run ends, with its series stored or with an error, while the vendor publishes a
\* bounded number of times: the two paging loops have no bound of their own.
FetchEnds == <>(step \in {"done", "failed"})
=============================================================================

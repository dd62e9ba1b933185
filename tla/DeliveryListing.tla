-------------------------- MODULE DeliveryListing ---------------------------
(***************************************************************************)
(* core_functions/delivery: the ID that a client gives to a delivery, the  *)
(* registered deliveries, and the GET that lists them.                     *)
(*                                                                         *)
(* Clients run on machines whose clocks show local time: each reading is   *)
(* UTC and one of the offsets, since machines stand in different zones and *)
(* summer time ends.  The service is external: it stamps a delivery when   *)
(* the POST arrives, and answers a GET with the deliveries of the entity   *)
(* that the parameters select, created_after included.                     *)
(***************************************************************************)
EXTENDS Integers, Sequences, SequencesExt

CONSTANTS
    Client,
    NoEntity,           \* no on_behalf_of
    OwnEntity,          \* the pushing entity of the credentials
    OnBehalfOf,         \* COPERNICUSMARINE_SERVICE_PUSHING_ENTITY_ID
    NoId,
    Product,            \* numbers in the order of the product IDs
    RandomNumber,
    Offset,             \* local time minus UTC
    TimeframeMapping,   \* the seconds of each timeframe but "all"
    MaxUtc              \* bound of the clock

ASSUME ListingAssumption ==
    /\ Product \cup RandomNumber \cup Offset \subseteq Int
    /\ \A timeframe \in DOMAIN TimeframeMapping :
          TimeframeMapping[timeframe] \in Nat

VARIABLES
    utc,
    deliveries,     \* what the service has registered, in that order
    query,          \* the GET each client sent last
    answer          \* the answer to it, as the client sorted it

listingVars == <<utc, deliveries, query, answer>>

Timeframe == DOMAIN TimeframeMapping \cup {"all"}

EntityOf(onBehalfOf) == IF onBehalfOf = NoEntity THEN OwnEntity ELSE onBehalfOf

NoQuery == [delivery_id |-> NoId, created_after |-> 0, entity |-> NoEntity,
            timeframe |-> "all", sent |-> 0, at |-> 0, answered |-> FALSE]

ListingInit ==
    /\ utc = 0
    /\ deliveries = <<>>
    /\ query = [c \in Client |-> NoQuery]
    /\ answer = [c \in Client |-> <<>>]

-----------------------------------------------------------------------------
\* create_delivery_id: datetime.now() is local time, in seconds.
CreateDeliveryId(local, product, number) ==
    [second |-> local, product |-> product, number |-> number]

\* The order of the ID strings, whose parts have fixed widths.
IdBefore(id, other) ==
    \/ id.second < other.second
    \/ id.second = other.second /\ id.product < other.product
    \/ /\ id.second = other.second
       /\ id.product = other.product
       /\ id.number < other.number

\* The readings that a local clock may show.
LocalTime == {utc + o : o \in Offset}

\* The service registers a delivery of client c, and stamps it.
Register(c, serial, id, begun) ==
    deliveries' = Append(deliveries,
                         [id |-> id, entity |-> EntityOf(OnBehalfOf[c]),
                          client |-> c, serial |-> serial, begun |-> begun,
                          created |-> utc])

\* Mutant of TimeframeToCreatedAfter: the local clock.
LocalTimeframeToCreatedAfter(local, timeframe) ==
    IF timeframe = "all" THEN 0 ELSE local - TimeframeMapping[timeframe]

\* _timeframe_to_created_after: from the clock in UTC.  0 is no parameter:
\* nothing was created before.
TimeframeToCreatedAfter(local, timeframe) ==
    IF timeframe = "all" THEN 0 ELSE utc - TimeframeMapping[timeframe]

\* get_deliveries: the GET leaves.
SendQuery(c, id, timeframe, onBehalfOf) ==
    /\ \E local \in LocalTime : query' = [query EXCEPT ![c] =
                    [delivery_id |-> id,
                     created_after |-> TimeframeToCreatedAfter(local, timeframe),
                     entity |-> EntityOf(onBehalfOf),
                     timeframe |-> timeframe,
                     sent |-> utc, at |-> Len(deliveries), answered |-> FALSE]]
    /\ answer' = [answer EXCEPT ![c] = <<>>]

ForgetQuery(c) ==
    /\ query' = [query EXCEPT ![c] = NoQuery]
    /\ answer' = [answer EXCEPT ![c] = <<>>]

\* The deliveries the service selects for the parameters, by their places.
Selected(q) ==
    {i \in DOMAIN deliveries :
        /\ deliveries[i].entity = q.entity
        /\ q.delivery_id \in {NoId, deliveries[i].id}
        /\ deliveries[i].created >= q.created_after}

\* The selected deliveries, each at the place after those that come before it.
InOrder(places, Before(_, _)) ==
    LET Rank(i) == Cardinality({j \in places : Before(j, i)}) + 1
    IN  [k \in 1..Cardinality(places) |->
            deliveries[CHOOSE i \in places : Rank(i) = k]]

\* Of equal IDs sorted lets the first one stay first, reverse or not.
Earlier(i, j) == deliveries[i].id = deliveries[j].id /\ i < j

Precedes(i, j) == \/ IdBefore(deliveries[j].id, deliveries[i].id)
                  \/ Earlier(i, j)

\* Mutant of Sorted: the answer of the service turned round, not sorted.
SortedByArrival(places) == InOrder(places, LAMBDA i, j : i > j)

\* sorted(key=lambda d: d.delivery_id, reverse=True)
Sorted(places) == InOrder(places, Precedes)

\* get_deliveries: the answer arrives, any time later.
ReceiveAnswer(c) ==
    /\ answer' = [answer EXCEPT ![c] = Sorted(Selected(query[c]))]
    /\ query' = [query EXCEPT ![c].answered = TRUE]

Tick ==
    /\ utc < MaxUtc
    /\ utc' = utc + 1
    /\ UNCHANGED <<deliveries, query, answer>>

-----------------------------------------------------------------------------
(***************************************************************************)
(* Properties.                                                             *)
(***************************************************************************)
\* The offset of the clock that the ID was made from, at the instant begun.
OffsetOf(d) == d.id.second - d.begun

\* Of two deliveries listed for an entity whose IDs were made under one offset,
\* the later comes first: also when the later was registered first, the other
\* client being slow with its uploads.  Within a second the product and the
\* random number decide.
ListedInOrder ==
    \A c \in Client : \A i, j \in DOMAIN answer[c] :
        LET d == answer[c][i]
            e == answer[c][j]
        IN  i < j /\ OffsetOf(d) = OffsetOf(e) => d.begun >= e.begun

\* "sorted by delivery_id in descending order (most recent first)"
\* (list_deliveries): whatever the clocks of the clients show.
MostRecentFirst ==
    \A c \in Client : \A i, j \in DOMAIN answer[c] :
        query[c].delivery_id = NoId /\ i < j =>
            answer[c][i].begun >= answer[c][j].begun

\* A delivery of the entity that was registered within the timeframe before
\* the request was sent is in the answer, wherever the client's clock stands,
\* and none is that is older than the timeframe.
TimeframeKept ==
    \A c \in Client :
        LET q == query[c]
            Within(d) == \/ q.timeframe = "all"
                         \/ q.sent - d.created <= TimeframeMapping[q.timeframe]
        IN  /\ q.answered /\ q.delivery_id = NoId =>
                  \A i \in 1..q.at :
                      deliveries[i].entity = q.entity /\ Within(deliveries[i]) =>
                          deliveries[i] \in ToSet(answer[c])
            /\ \A d \in ToSet(answer[c]) : Within(d)
=============================================================================

------------------------- MODULE InterfacesProofs --------------------------
(***************************************************************************)
(* Interfaces, proved for any number of clients and commands, any clocks,  *)
(* timeframes and operations: what the users are told, what they save and  *)
(* what they are shown of the deliveries is true.                          *)
(***************************************************************************)
EXTENDS Interfaces, TLAPS, FiniteSetTheorems

Id == [second : Int, product : Product, number : RandomNumber]

Anchoring == Seq(Anchor \cup {NoAnchor})

CoreCall == [serial : Nat, anchors : Anchoring, asked : Anchoring,
             id : Id \cup {NoId}, dry_run : BOOLEAN, save : BOOLEAN, begun : Nat]

Entity == {OwnEntity, NoEntity} \cup {OnBehalfOf[c] : c \in Client}

RegisteredDelivery == [id : Id, entity : Entity, client : Client, serial : Nat,
                       begun : Nat, created : Nat]

Query == [delivery_id : Id \cup {NoId}, created_after : Int, entity : Entity,
          timeframe : Timeframe, sent : Nat, at : Nat, answered : BOOLEAN]

DeliveryFile == [id : Id, dry_run : BOOLEAN, whole : BOOLEAN]

Message == {"nothing", "done", "raised", "post_raised", "save_raised",
            "echo_raised", "killed", "fatal_error", "query_raised", "listed",
            "status", "not_found"}

\* The types of the listing's variables.
ListingTypeOK ==
    /\ utc \in Nat
    /\ deliveries \in Seq(RegisteredDelivery)
    /\ query \in [Client -> Query]
    /\ answer \in [Client -> Seq(RegisteredDelivery)]

ClientTypeOK ==
    /\ commands \in Nat
    /\ call \in [Client -> CoreCall]
    /\ pc \in [Client -> {"idle", "core", "delivering", "saving", "status", "list"}]
    /\ told \in [Client -> Message]
    /\ response \in [Client -> SUBSET (Id \cup {NoId})]
    /\ saved \in [Client -> SUBSET DeliveryFile]

\* The delivery that a client in its core call is about has an ID.
HasId == \A c \in Client : pc[c] \in {"delivering", "saving"} => call[c].id \in Id

InterfacesTypeOK == ListingTypeOK /\ ClientTypeOK /\ HasId

-----------------------------------------------------------------------------
\* No call and no query: what a client starts with.
LEMMA NothingYet == NoCall \in CoreCall /\ NoQuery \in Query
<1>1. <<>> \in Anchoring
  BY DEF Anchoring
<1>2. NoCall \in CoreCall
  BY <1>1 DEF NoCall, CoreCall
<1>3. NoQuery \in Query
  BY DEF NoQuery, Query, Entity, Timeframe
<1> QED
  BY <1>2, <1>3

\* The types hold at the start.
LEMMA TypeInit == InterfacesInit => InterfacesTypeOK
<1> SUFFICES ASSUME InterfacesInit PROVE InterfacesTypeOK
  OBVIOUS
<1>1. ListingTypeOK
  BY NothingYet DEF InterfacesInit, ListingInit, ListingTypeOK
<1>2. ClientTypeOK
  BY NothingYet DEF InterfacesInit, ClientTypeOK, Message
<1>3. HasId
  BY DEF InterfacesInit, HasId
<1> QED
  BY <1>1, <1>2, <1>3 DEF InterfacesTypeOK

-----------------------------------------------------------------------------
(***************************************************************************)
(* The order of the list.                                                  *)
(***************************************************************************)
\* Of two IDs one comes before the other, or they are equal.
LEMMA IdsOrdered ==
  ASSUME NEW a \in Id, NEW b \in Id, NEW d \in Id
  PROVE  /\ ~IdBefore(a, a)
         /\ IdBefore(a, b) /\ IdBefore(b, d) => IdBefore(a, d)
         /\ IdBefore(a, b) \/ IdBefore(b, a) \/ a = b
<1>1. \A x \in Id : x.second \in Int /\ x.product \in Int /\ x.number \in Int
  BY ListingAssumption DEF Id
<1>2. a.second = b.second /\ a.product = b.product /\ a.number = b.number => a = b
  BY DEF Id
<1> QED
  BY <1>1, <1>2 DEF IdBefore

\* Precedes is a strict and total order of the places.
LEMMA PlacesOrdered ==
  ASSUME ListingTypeOK, NEW i \in DOMAIN deliveries, NEW j \in DOMAIN deliveries,
         NEW k \in DOMAIN deliveries
  PROVE  /\ ~Precedes(i, i)
         /\ Precedes(i, j) /\ Precedes(j, k) => Precedes(i, k)
         /\ Precedes(i, j) \/ Precedes(j, i) \/ i = j
<1>1. i \in Nat /\ j \in Nat /\ k \in Nat
  BY DEF ListingTypeOK
<1> DEFINE a == deliveries[i].id
           b == deliveries[j].id
           d == deliveries[k].id
<1>2. a \in Id /\ b \in Id /\ d \in Id
  <2>1. \A n \in DOMAIN deliveries : deliveries[n] \in RegisteredDelivery
    BY DEF ListingTypeOK
  <2> QED
    BY <2>1 DEF RegisteredDelivery
<1> HIDE DEF a, b, d
<1>3. /\ ~IdBefore(a, a)
      /\ IdBefore(a, b) /\ IdBefore(b, d) => IdBefore(a, d)
      /\ IdBefore(a, b) \/ IdBefore(b, a) \/ a = b
  BY <1>2, IdsOrdered
<1>4. IdBefore(b, a) /\ IdBefore(d, b) => IdBefore(d, a)
  BY <1>2, IdsOrdered
<1>5. /\ Precedes(i, i) <=> IdBefore(a, a) \/ i < i
      /\ Precedes(i, j) <=> IdBefore(b, a) \/ (a = b /\ i < j)
      /\ Precedes(j, i) <=> IdBefore(a, b) \/ (a = b /\ j < i)
      /\ Precedes(j, k) <=> IdBefore(d, b) \/ (b = d /\ j < k)
      /\ Precedes(i, k) <=> IdBefore(d, a) \/ (a = d /\ i < k)
  BY DEF Precedes, Earlier, a, b, d
<1> QED
  BY <1>1, <1>3, <1>4, <1>5

\* place says where in deliveries each element of a sorted list stands.
Arranges(place, places) ==
    /\ place \in [1..Cardinality(places) -> places]
    /\ \A i \in places : \E k \in 1..Cardinality(places) : place[k] = i
    /\ \A k, l \in 1..Cardinality(places) : k < l => Precedes(place[k], place[l])

\* Sorted lists each place once, and in the order of Precedes.
LEMMA SortedArranges ==
  ASSUME ListingTypeOK, NEW places \in SUBSET DOMAIN deliveries, IsFiniteSet(places)
  PROVE  \E place : /\ Arranges(place, places)
                    /\ Sorted(places) = [k \in 1..Cardinality(places) |->
                                            deliveries[place[k]]]
<1> DEFINE N == Cardinality(places)
           Ahead(i) == {j \in places : Precedes(j, i)}
           Rank(i) == Cardinality(Ahead(i)) + 1
<1>1. N \in Nat
  BY FS_CardinalityType
<1>2. ASSUME NEW i \in places
      PROVE  IsFiniteSet(Ahead(i)) /\ Rank(i) \in 1..N
  <2>1. Ahead(i) \subseteq places /\ i \notin Ahead(i)
    BY PlacesOrdered
  <2>2. /\ IsFiniteSet(Ahead(i))
        /\ Cardinality(Ahead(i)) <= N
        /\ N = Cardinality(Ahead(i)) => places = Ahead(i)
    BY <2>1, FS_Subset
  <2>3. Cardinality(Ahead(i)) \in Nat
    BY <2>2, FS_CardinalityType
  <2> QED
    BY <1>1, <2>1, <2>2, <2>3
<1>3. ASSUME NEW i \in places, NEW j \in places, Precedes(i, j)
      PROVE  Rank(i) < Rank(j)
  <2>1. Ahead(i) \subseteq Ahead(j) /\ i \in Ahead(j) /\ i \notin Ahead(i)
    BY <1>3, PlacesOrdered
  <2>2. /\ Cardinality(Ahead(i)) <= Cardinality(Ahead(j))
        /\ Cardinality(Ahead(j)) = Cardinality(Ahead(i)) => Ahead(j) = Ahead(i)
    BY <1>2, <2>1, FS_Subset
  <2>3. Cardinality(Ahead(i)) \in Nat /\ Cardinality(Ahead(j)) \in Nat
    BY <1>2, FS_CardinalityType
  <2> QED
    BY <2>1, <2>2, <2>3
<1> HIDE DEF Ahead
<1>4. \A i, j \in places : Rank(i) = Rank(j) => i = j
  <2> HIDE DEF Rank
  <2> QED
    BY <1>1, <1>2, <1>3, PlacesOrdered
<1> DEFINE rank == [i \in places |-> Rank(i)]
<1>5. rank \in Injection(places, 1..N)
  <2>1. rank \in [places -> 1..N]
    BY <1>2
  <2> HIDE DEF Rank, N
  <2>2. \A i, j \in places : rank[i] = rank[j] => i = j
    BY <1>4
  <2> HIDE DEF rank
  <2> QED
    BY <2>1, <2>2 DEF Injection, IsInjective
<1>6. IsFiniteSet(1..N) /\ Cardinality(1..N) = N
  BY <1>1, FS_Interval
<1>7. rank \in Surjection(places, 1..N)
  <2> HIDE DEF rank
  <2> QED
    BY <1>5, <1>6, FS_Injection
<1>8. \A k \in 1..N : \E i \in places : Rank(i) = k
  <2> HIDE DEF Rank, N
  <2> QED
    BY <1>7 DEF Surjection
<1> DEFINE place == [k \in 1..N |-> CHOOSE i \in places : Rank(i) = k]
<1>9. \A k \in 1..N : place[k] \in places /\ Rank(place[k]) = k
  <2> HIDE DEF Rank, N
  <2> QED
    BY <1>8
<1>10. place \in [1..N -> places]
  <2> HIDE DEF Rank, N
  <2> QED
    BY <1>9
<1>11. Sorted(places) = [k \in 1..N |-> deliveries[place[k]]]
  BY DEF Sorted, InOrder, Ahead
<1> HIDE DEF place, N, Rank
<1>12. \A i \in places : \E k \in 1..N : place[k] = i
  BY <1>2, <1>4, <1>9
<1>13. ASSUME NEW k \in 1..N, NEW l \in 1..N, k < l
       PROVE  Precedes(place[k], place[l])
  <2>1. k \in Nat /\ l \in Nat /\ ~(l < k) /\ k # l
    BY <1>1, <1>13
  <2> QED
    BY <1>3, <1>9, <2>1, PlacesOrdered
<1>14. Arranges(place, places)
  BY <1>10, <1>12, <1>13 DEF Arranges, N
<1> QED
  BY <1>11, <1>14 DEF N

\* The selected places are finitely many.
LEMMA SelectedPlaces ==
  ASSUME ListingTypeOK, NEW q
  PROVE  Selected(q) \in SUBSET DOMAIN deliveries /\ IsFiniteSet(Selected(q))
<1>1. Selected(q) \subseteq DOMAIN deliveries
  BY DEF Selected
<1>2. DOMAIN deliveries = 1..Len(deliveries) /\ Len(deliveries) \in Nat
  BY DEF ListingTypeOK
<1>3. IsFiniteSet(DOMAIN deliveries)
  BY <1>2, FS_Interval
<1> QED
  BY <1>1, <1>3, FS_Subset

-----------------------------------------------------------------------------
(***************************************************************************)
(* What the actions are made of.                                           *)
(***************************************************************************)
\* A query is forgotten.
LEMMA ForgetType ==
  ASSUME ListingTypeOK, NEW c \in Client, ForgetQuery(c),
         UNCHANGED <<utc, deliveries>>
  PROVE  ListingTypeOK'
  BY NothingYet DEF ListingTypeOK, ForgetQuery

\* A query is sent.
LEMMA SendType ==
  ASSUME ListingTypeOK, NEW c \in Client, NEW id \in Id \cup {NoId},
         NEW timeframe \in Timeframe, NEW onBehalfOf \in Entity,
         SendQuery(c, id, timeframe, onBehalfOf), UNCHANGED <<utc, deliveries>>
  PROVE  ListingTypeOK'
<1> DEFINE q == [delivery_id |-> id,
                 created_after |-> TimeframeToCreatedAfter(0, timeframe),
                 entity |-> EntityOf(onBehalfOf), timeframe |-> timeframe,
                 sent |-> utc, at |-> Len(deliveries), answered |-> FALSE]
<1>1. query' = [query EXCEPT ![c] = q] /\ answer' = [answer EXCEPT ![c] = <<>>]
  BY DEF SendQuery, TimeframeToCreatedAfter
<1>2. TimeframeToCreatedAfter(0, timeframe) \in Int
  BY ListingAssumption DEF TimeframeToCreatedAfter, Timeframe, ListingTypeOK
<1>3. EntityOf(onBehalfOf) \in Entity
  BY DEF EntityOf, Entity
<1>4. utc \in Nat /\ Len(deliveries) \in Nat
  BY DEF ListingTypeOK
<1>5. q \in Query
  BY <1>2, <1>3, <1>4 DEF Query
<1> HIDE DEF q
<1> QED
  BY <1>1, <1>5 DEF ListingTypeOK

\* An answer is received: a list of registered deliveries.
LEMMA ReceiveType ==
  ASSUME ListingTypeOK, NEW c \in Client, ReceiveAnswer(c),
         UNCHANGED <<utc, deliveries>>
  PROVE  ListingTypeOK'
<1> DEFINE places == Selected(query[c])
           N == Cardinality(places)
<1>1. places \in SUBSET DOMAIN deliveries /\ IsFiniteSet(places)
  BY SelectedPlaces
<1>2. PICK place : /\ Arranges(place, places)
                   /\ Sorted(places) = [k \in 1..N |-> deliveries[place[k]]]
  BY <1>1, SortedArranges
<1>3. N \in Nat
  BY <1>1, FS_CardinalityType
<1>4. query' = [query EXCEPT ![c].answered = TRUE]
      /\ answer' = [answer EXCEPT ![c] = Sorted(places)]
  BY DEF ReceiveAnswer
<1> HIDE DEF places, N
<1>5. Sorted(places) \in Seq(RegisteredDelivery)
  <2>1. \A k \in 1..N : place[k] \in DOMAIN deliveries
    BY <1>1, <1>2 DEF Arranges, N
  <2>2. \A k \in 1..N : deliveries[place[k]] \in RegisteredDelivery
    BY <2>1 DEF ListingTypeOK
  <2> QED
    BY <1>2, <1>3, <2>2
<1>6. [query[c] EXCEPT !.answered = TRUE] \in Query
  BY DEF ListingTypeOK, Query
<1> QED
  BY <1>4, <1>5, <1>6 DEF ListingTypeOK

\* A delivery is registered.
LEMMA RegisterType ==
  ASSUME ListingTypeOK, NEW c \in Client, NEW serial \in Nat, NEW id \in Id,
         NEW begun \in Nat, Register(c, serial, id, begun),
         UNCHANGED <<utc, query, answer>>
  PROVE  /\ ListingTypeOK'
         /\ Len(deliveries') = Len(deliveries) + 1
         /\ \A i \in DOMAIN deliveries :
               i \in DOMAIN deliveries' /\ deliveries'[i] = deliveries[i]
         /\ deliveries'[Len(deliveries')].id = id
         /\ deliveries'[Len(deliveries')].client = c
         /\ deliveries'[Len(deliveries')].serial = serial
         /\ deliveries'[Len(deliveries')].entity = EntityOf(OnBehalfOf[c])
         /\ deliveries'[Len(deliveries')].created = utc
         /\ DOMAIN deliveries' = DOMAIN deliveries \cup {Len(deliveries')}
<1> DEFINE d == [id |-> id, entity |-> EntityOf(OnBehalfOf[c]), client |-> c,
                 serial |-> serial, begun |-> begun, created |-> utc]
<1>1. EntityOf(OnBehalfOf[c]) \in Entity
  BY DEF EntityOf, Entity
<1>2. d \in RegisteredDelivery
  BY <1>1 DEF RegisteredDelivery, ListingTypeOK
<1>3. deliveries' = Append(deliveries, d)
  BY DEF Register
<1>4. /\ d.id = id /\ d.client = c /\ d.serial = serial
      /\ d.entity = EntityOf(OnBehalfOf[c])
      /\ d.created = utc
  OBVIOUS
<1> HIDE DEF d
<1>5. /\ deliveries' \in Seq(RegisteredDelivery)
      /\ Len(deliveries') = Len(deliveries) + 1
      /\ deliveries'[Len(deliveries')] = d
      /\ \A i \in DOMAIN deliveries :
            i \in DOMAIN deliveries' /\ deliveries'[i] = deliveries[i]
      /\ DOMAIN deliveries' = DOMAIN deliveries \cup {Len(deliveries')}
  BY <1>2, <1>3 DEF ListingTypeOK
<1> QED
  BY <1>4, <1>5 DEF ListingTypeOK

-----------------------------------------------------------------------------
(***************************************************************************)
(* The commands that submit: they call the core, or end at once.           *)
(***************************************************************************)
Opens(c) ==
    /\ pc[c] = "idle"
    /\ commands' = commands + 1
    /\ \E new \in CoreCall : new.serial = commands + 1
                             /\ call' = [call EXCEPT ![c] = new]
    /\ pc' = [pc EXCEPT ![c] = "core"]
    /\ told' = [told EXCEPT ![c] = "nothing"]
    /\ ForgetQuery(c)
    /\ UNCHANGED <<utc, deliveries, response, saved>>

Rejects(c) ==
    /\ pc[c] = "idle"
    /\ commands' = commands + 1
    /\ call' = [call EXCEPT ![c] = NoCall]
    /\ pc' = [pc EXCEPT ![c] = "idle"]
    /\ \E message \in {"raised", "fatal_error"} : told' = [told EXCEPT ![c] = message]
    /\ response' \in [Client -> SUBSET (Id \cup {NoId})]
    /\ ForgetQuery(c)
    /\ UNCHANGED <<utc, deliveries, saved>>

\* Anchors takes the anchors off a list of operations.
LEMMA AnchorsType ==
  ASSUME NEW n \in Nat, NEW operations, DOMAIN operations = 1..n,
         \A i \in 1..n : operations[i].anchor \in Anchor \cup {NoAnchor}
  PROVE  Anchors(operations) \in Anchoring
<1>1. Anchors(operations) = [i \in 1..n |-> operations[i].anchor]
  BY DEF Anchors
<1> QED
  BY <1>1 DEF Anchoring

\* An operation keeps its shape when it is given an anchor.
LEMMA AnchoredOperation ==
  ASSUME NEW op \in Operation, NEW anchor \in Anchor \cup {NoAnchor}
  PROVE  /\ op.anchor \in Anchor \cup {NoAnchor}
         /\ [op EXCEPT !.anchor = anchor].anchor = anchor
  BY InterfaceAssumption

\* The anchors before and after Delivery.submit has set its own.
LEMMA WithAnchorType ==
  ASSUME NEW n \in Nat, NEW operations \in [1..n -> Operation],
         NEW anchor \in Anchor \cup {NoAnchor}
  PROVE  /\ Anchors(operations) \in Anchoring
         /\ Anchors(WithAnchor(operations, anchor)) \in Anchoring
<1>1. Anchors(operations) \in Anchoring
  BY AnchorsType, AnchoredOperation
<1>2. DOMAIN WithAnchor(operations, anchor) = 1..n
  BY DEF WithAnchor
<1>3. ASSUME NEW i \in 1..n
      PROVE  WithAnchor(operations, anchor)[i].anchor \in Anchor \cup {NoAnchor}
  <2>1. operations[i] \in Operation
    OBVIOUS
  <2>2. \/ WithAnchor(operations, anchor)[i] = [operations[i] EXCEPT !.anchor = anchor]
        \/ WithAnchor(operations, anchor)[i] = operations[i]
    BY DEF WithAnchor
  <2>3. /\ operations[i].anchor \in Anchor \cup {NoAnchor}
        /\ [operations[i] EXCEPT !.anchor = anchor].anchor = anchor
    BY <2>1, AnchoredOperation
  <2> QED
    BY <2>2, <2>3
<1> QED
  BY <1>1, <1>2, <1>3, AnchorsType

\* CallCore, from whichever command, opens a call of the core.
LEMMA CallOpens ==
  ASSUME InterfacesTypeOK, NEW c \in Client, BeginCommand(c),
         NEW operations, NEW asked,
         Anchors(operations) \in Anchoring, Anchors(asked) \in Anchoring,
         NEW dryRun \in BOOLEAN, NEW save \in BOOLEAN,
         CallCore(c, operations, asked, dryRun, save)
  PROVE  Opens(c)
<1> DEFINE new == [NoCall EXCEPT !.serial = commands + 1,
                                 !.anchors = Anchors(operations),
                                 !.asked = Anchors(asked),
                                 !.dry_run = dryRun, !.save = save]
<1>1. commands + 1 \in Nat
  BY DEF InterfacesTypeOK, ClientTypeOK
<1>2. new \in CoreCall /\ new.serial = commands + 1
  BY <1>1 DEF CoreCall, NoCall
<1>3. call' = [call EXCEPT ![c] = new]
  BY DEF CallCore
<1> HIDE DEF new
<1> QED
  BY <1>2, <1>3 DEF Opens, BeginCommand, CallCore

\* An exception before the core is called ends the command.
LEMMA RefuseRejects ==
  ASSUME InterfacesTypeOK, NEW c \in Client, BeginCommand(c), Refuse(c)
  PROVE  Rejects(c)
<1>1. response' \in [Client -> SUBSET (Id \cup {NoId})]
  BY DEF Refuse, InterfacesTypeOK, ClientTypeOK
<1>2. told' = [told EXCEPT ![c] = "fatal_error"]
  BY DEF Refuse, End
<1> QED
  BY <1>1, <1>2 DEF Rejects, BeginCommand, Refuse, End

\* The commands that submit do one of the two.
LEMMA SubmitSteps ==
  ASSUME InterfacesTypeOK, NEW c \in Client,
         \/ \E op \in Operation, anchor \in Anchor \cup {NoAnchor},
               dryRun, save \in BOOLEAN : SubmitOne(c, op, anchor, dryRun, save)
         \/ \E operations \in Operations, dryRun, save \in BOOLEAN :
               SubmitDeliveryFile(c, operations, dryRun, save)
         \/ BadDeliveryFile(c)
         \/ \E operations \in Operations, anchor \in Anchor \cup {NoAnchor},
               dryRun \in BOOLEAN : SubmitDelivery(c, operations, anchor, dryRun)
  PROVE  Opens(c) \/ Rejects(c)
<1>1. ASSUME NEW op \in Operation, NEW anchor \in Anchor \cup {NoAnchor},
             NEW dryRun \in BOOLEAN, NEW save \in BOOLEAN,
             SubmitOne(c, op, anchor, dryRun, save)
      PROVE  Opens(c) \/ Rejects(c)
  <2> DEFINE given == <<[op EXCEPT !.anchor = anchor]>>
  <2>1. Anchors(given) \in Anchoring
    <3>1. DOMAIN given = 1..1 /\ given[1] = [op EXCEPT !.anchor = anchor]
      OBVIOUS
    <3> HIDE DEF given
    <3>2. \A i \in 1..1 : given[i].anchor \in Anchor \cup {NoAnchor}
      <4>1. given[1].anchor = anchor
        BY <3>1, AnchoredOperation
      <4> QED
        BY <4>1
    <3> QED
      BY <3>1, <3>2, AnchorsType
  <2>2. <<op>> \in [1..1 -> Operation]
    OBVIOUS
  <2>3. Anchors(WithAnchor(<<op>>, anchor)) \in Anchoring
    BY <2>2, WithAnchorType
  <2> HIDE DEF given
  <2> QED
    BY <1>1, <2>1, <2>3, CallOpens, RefuseRejects DEF SubmitOne, given
<1>2. ASSUME NEW operations \in Operations, NEW dryRun \in BOOLEAN,
             NEW save \in BOOLEAN, SubmitDeliveryFile(c, operations, dryRun, save)
      PROVE  Opens(c)
  <2>1. Anchors(operations) \in Anchoring
    BY WithAnchorType DEF Operations
  <2> QED
    BY <1>2, <2>1, CallOpens DEF SubmitDeliveryFile
<1>3. ASSUME BadDeliveryFile(c) PROVE Rejects(c)
  <2>1. response' \in [Client -> SUBSET (Id \cup {NoId})]
    BY <1>3 DEF BadDeliveryFile, Raise, InterfacesTypeOK, ClientTypeOK
  <2>2. told' = [told EXCEPT ![c] = "raised"]
    BY <1>3 DEF BadDeliveryFile, Raise, End
  <2> QED
    BY <1>3, <2>1, <2>2 DEF BadDeliveryFile, Rejects, BeginCommand, Raise, End
<1>4. ASSUME NEW operations \in Operations, NEW anchor \in Anchor \cup {NoAnchor},
             NEW dryRun \in BOOLEAN, SubmitDelivery(c, operations, anchor, dryRun)
      PROVE  Opens(c) \/ Rejects(c)
  <2>1. /\ Anchors(operations) \in Anchoring
        /\ Anchors(WithAnchor(operations, anchor)) \in Anchoring
    BY WithAnchorType DEF Operations
  <2> QED
    BY <1>4, <2>1, CallOpens, RefuseRejects DEF SubmitDelivery
<1> QED
  BY <1>1, <1>2, <1>3, <1>4

-----------------------------------------------------------------------------
(***************************************************************************)
(* The types.                                                              *)
(***************************************************************************)
\* The call that an exception has ended.
LEMMA UnwoundCall ==
  ASSUME ClientTypeOK, NEW c \in Client
  PROVE  /\ [NoCall EXCEPT !.serial = call[c].serial] \in CoreCall
         /\ [NoCall EXCEPT !.serial = call[c].serial].serial = call[c].serial
         /\ [NoCall EXCEPT !.serial = call[c].serial].dry_run = FALSE
         /\ [NoCall EXCEPT !.serial = call[c].serial].save = FALSE
<1>1. call[c].serial \in Nat
  BY DEF ClientTypeOK, CoreCall
<1> QED
  BY <1>1, NothingYet DEF CoreCall, NoCall

\* The call that has got its ID.
LEMMA BegunCall ==
  ASSUME InterfacesTypeOK, NEW c \in Client, Begin(c)
  PROVE  \E new \in CoreCall :
            /\ call' = [call EXCEPT ![c] = new]
            /\ new.id \in Id
            /\ new.serial = call[c].serial
            /\ new.dry_run = call[c].dry_run /\ new.save = call[c].save
<1>1. PICK local \in LocalTime, product \in Product, number \in RandomNumber :
         call' = [call EXCEPT ![c] =
                      [@ EXCEPT !.anchors = <<>>, !.asked = <<>>,
                                !.id = CreateDeliveryId(local, product, number),
                                !.begun = utc]]
  BY DEF Begin
<1> DEFINE id == CreateDeliveryId(local, product, number)
           new == [call[c] EXCEPT !.anchors = <<>>, !.asked = <<>>,
                                  !.id = id, !.begun = utc]
<1>2. utc \in Nat /\ call[c] \in CoreCall
  BY DEF InterfacesTypeOK, ListingTypeOK, ClientTypeOK
<1>3. local \in Int
  BY <1>2, ListingAssumption DEF LocalTime
<1>4. id \in Id
  BY <1>3 DEF CreateDeliveryId, Id
<1>5. <<>> \in Anchoring
  BY DEF Anchoring
<1>6. call' = [call EXCEPT ![c] = new]
  BY <1>1, <1>2 DEF InterfacesTypeOK, ClientTypeOK
<1> HIDE DEF id
<1>7. /\ new \in CoreCall /\ new.id \in Id
      /\ new.serial = call[c].serial
      /\ new.dry_run = call[c].dry_run /\ new.save = call[c].save
  BY <1>2, <1>4, <1>5 DEF CoreCall
<1> HIDE DEF new
<1> QED
  BY <1>6, <1>7

\* What a delivery file says of a delivery that has an ID.
LEMMA FileType ==
  ASSUME InterfacesTypeOK, NEW c \in Client, pc[c] = "saving", NEW whole \in BOOLEAN
  PROVE  SavedFile(c, whole) \in DeliveryFile
<1>1. call[c].id \in Id /\ call[c].dry_run \in BOOLEAN
  BY DEF InterfacesTypeOK, HasId, ClientTypeOK, CoreCall
<1> QED
  BY <1>1 DEF SavedFile, DeliveryFile

\* Every step keeps the types of the listing.
LEMMA ListingTypeStep ==
  InterfacesTypeOK /\ [InterfacesNext]_interfaceVars => ListingTypeOK'
<1> SUFFICES ASSUME InterfacesTypeOK, [InterfacesNext]_interfaceVars
             PROVE  ListingTypeOK'
  OBVIOUS
<1> USE DEF InterfacesTypeOK
<1>1. CASE UNCHANGED listingVars
  BY <1>1 DEF ListingTypeOK, listingVars
<1>2. CASE Clock
  BY <1>2 DEF Clock, Tick, ListingTypeOK
<1>3. ASSUME NEW c \in Client, Opens(c) PROVE ListingTypeOK'
  BY <1>3, ForgetType DEF Opens
<1>4. ASSUME NEW c \in Client, Rejects(c) PROVE ListingTypeOK'
  BY <1>4, ForgetType DEF Rejects
<1>5. ASSUME NEW c \in Client, RegisterCall(c) PROVE ListingTypeOK'
  <2>1. call[c].id \in Id /\ call[c].serial \in Nat /\ call[c].begun \in Nat
    BY <1>5 DEF RegisterCall, HasId, ClientTypeOK, CoreCall
  <2> QED
    BY <1>5, <2>1, RegisterType DEF RegisterCall
<1>6. ASSUME NEW c \in Client, AskStatus(c) PROVE ListingTypeOK'
  <2>1. PICK id \in KnownIds(c) : SendQuery(c, id, "all", QueriedFor(c))
    BY <1>6 DEF AskStatus
  <2>2. KnownIds(c) \subseteq Id \cup {NoId}
    BY DEF KnownIds, ClientTypeOK, DeliveryFile
  <2>3. QueriedFor(c) \in Entity /\ "all" \in Timeframe
    BY DEF QueriedFor, Entity, Timeframe
  <2> QED
    BY <1>6, <2>1, <2>2, <2>3, SendType DEF AskStatus
<1>7. ASSUME NEW c \in Client, AskList(c) PROVE ListingTypeOK'
  <2>1. QueriedFor(c) \in Entity
    BY DEF QueriedFor, Entity
  <2> QED
    BY <1>7, <2>1, SendType DEF AskList
<1>8. ASSUME NEW c \in Client, BadDeliveryJson(c) PROVE ListingTypeOK'
  BY <1>8, ForgetType DEF BadDeliveryJson
<1>9. ASSUME NEW c \in Client, Answered(c) PROVE ListingTypeOK'
  BY <1>9, ReceiveType DEF Answered
<1>10. ASSUME NEW c \in Client, ClientNext(c) PROVE ListingTypeOK'
  <2>1. \/ Opens(c) \/ Rejects(c) \/ RegisterCall(c) \/ UNCHANGED listingVars
        \/ AskStatus(c) \/ AskList(c) \/ BadDeliveryJson(c) \/ Answered(c)
    BY <1>10, SubmitSteps
    DEF ClientNext, Begin, CoreRaises, CoreReturns, PostRaises, DryRunReturns, Save,
        SaveFails, Kill, QueryRaises
  <2> QED
    BY <2>1, <1>1, <1>3, <1>4, <1>5, <1>6, <1>7, <1>8, <1>9
<1>11. CASE UNCHANGED interfaceVars
  BY <1>1, <1>11 DEF interfaceVars
<1> QED
  BY <1>2, <1>10, <1>11 DEF InterfacesNext

\* Every step keeps the types of the clients.
LEMMA ClientTypeStep ==
  InterfacesTypeOK /\ [InterfacesNext]_interfaceVars => ClientTypeOK' /\ HasId'
<1> SUFFICES ASSUME InterfacesTypeOK, [InterfacesNext]_interfaceVars
             PROVE  ClientTypeOK' /\ HasId'
  OBVIOUS
<1>0. ClientTypeOK /\ HasId
  BY DEF InterfacesTypeOK
<1>1. CASE UNCHANGED <<call, pc, told, response, saved, commands>>
  BY <1>0, <1>1 DEF ClientTypeOK, HasId
<1>2. ASSUME NEW c \in Client, Opens(c) PROVE ClientTypeOK' /\ HasId'
  <2>1. PICK new \in CoreCall : call' = [call EXCEPT ![c] = new]
    BY <1>2 DEF Opens
  <2>2. /\ commands' = commands + 1 /\ pc' = [pc EXCEPT ![c] = "core"]
        /\ told' = [told EXCEPT ![c] = "nothing"] /\ UNCHANGED <<response, saved>>
    BY <1>2 DEF Opens
  <2>3. "nothing" \in Message
    BY DEF Message
  <2> QED
    BY <1>0, <2>1, <2>2, <2>3 DEF ClientTypeOK, HasId
<1>3. ASSUME NEW c \in Client, Rejects(c) PROVE ClientTypeOK' /\ HasId'
  <2>1. PICK message \in {"raised", "fatal_error"} :
           told' = [told EXCEPT ![c] = message]
    BY <1>3 DEF Rejects
  <2>2. message \in Message
    BY DEF Message
  <2>3. response' \in [Client -> SUBSET (Id \cup {NoId})]
    BY <1>3 DEF Rejects
  <2>4. /\ commands' = commands + 1 /\ call' = [call EXCEPT ![c] = NoCall]
        /\ pc' = [pc EXCEPT ![c] = "idle"] /\ saved' = saved
    BY <1>3 DEF Rejects
  <2> QED
    BY <1>0, <2>1, <2>2, <2>3, <2>4, NothingYet DEF ClientTypeOK, HasId
<1>4. ASSUME NEW c \in Client, Begin(c) PROVE ClientTypeOK' /\ HasId'
  <2>1. PICK new \in CoreCall : call' = [call EXCEPT ![c] = new] /\ new.id \in Id
    BY <1>4, BegunCall
  <2>2. /\ pc' = [pc EXCEPT ![c] = "delivering"]
        /\ UNCHANGED <<told, response, saved, commands>>
    BY <1>4 DEF Begin
  <2> QED
    BY <1>0, <2>1, <2>2 DEF ClientTypeOK, HasId
<1>5. ASSUME NEW c \in Client, NEW message \in Message, Raise(c, message), Unwind(c),
             UNCHANGED <<saved, commands>>
      PROVE  ClientTypeOK' /\ HasId'
  BY <1>0, <1>5, UnwoundCall DEF Raise, End, Unwind, ClientTypeOK, HasId
<1>6. ASSUME NEW c \in Client, Respond(c), UNCHANGED <<call, commands>>,
             saved' \in [Client -> SUBSET DeliveryFile], call[c].id \in Id
      PROVE  ClientTypeOK' /\ HasId'
  BY <1>0, <1>6 DEF Respond, Raise, End, ClientTypeOK, HasId, Message
<1>7. ASSUME NEW c \in Client, pc[c] = "delivering", Continue(c),
             UNCHANGED <<call, saved, commands>>
      PROVE  ClientTypeOK' /\ HasId'
  <2>1. call[c].id \in Id
    BY <1>0, <1>7 DEF HasId
  <2>2. CASE call[c].save
    BY <1>0, <1>7, <2>1, <2>2 DEF Continue, ClientTypeOK, HasId
  <2>3. CASE ~call[c].save
    BY <1>0, <1>6, <1>7, <2>1, <2>3 DEF Continue, ClientTypeOK
  <2> QED
    BY <2>2, <2>3
<1>8. ASSUME NEW c \in Client, Save(c) PROVE ClientTypeOK' /\ HasId'
  <2>1. SavedFile(c, TRUE) \in DeliveryFile
    BY <1>8, FileType DEF Save
  <2>2. call[c].id \in Id
    BY <1>0, <1>8 DEF Save, HasId
  <2>3. saved' \in [Client -> SUBSET DeliveryFile]
    BY <1>0, <1>8, <2>1 DEF Save, ClientTypeOK
  <2> QED
    BY <1>6, <1>8, <2>2, <2>3 DEF Save
<1>9. ASSUME NEW c \in Client, SaveFails(c) PROVE ClientTypeOK' /\ HasId'
  <2>1. SavedFile(c, FALSE) \in DeliveryFile
    BY <1>9, FileType DEF SaveFails
  <2>2. saved' \in [Client -> SUBSET DeliveryFile]
    BY <1>0, <1>9, <2>1 DEF SaveFails, ClientTypeOK
  <2> QED
    BY <1>0, <1>9, <2>2 DEF SaveFails, Raise, End, ClientTypeOK, HasId, Message
<1>10. ASSUME NEW c \in Client, NEW next \in {"status", "list"}, BeginCommand(c),
              pc' = [pc EXCEPT ![c] = next], UNCHANGED <<call, told, response, saved>>
       PROVE  ClientTypeOK' /\ HasId'
  BY <1>0, <1>10 DEF BeginCommand, ClientTypeOK, HasId
<1>11. ASSUME NEW c \in Client, NEW message \in Message, End(c, message),
              UNCHANGED <<call, response, saved>>, commands' \in Nat
       PROVE  ClientTypeOK' /\ HasId'
  BY <1>0, <1>11 DEF End, ClientTypeOK, HasId
<1>12. ASSUME NEW c \in Client, ClientNext(c) PROVE ClientTypeOK' /\ HasId'
  <2>1. CASE Opens(c) \/ Rejects(c)
    BY <1>2, <1>3, <2>1
  <2>2. CASE Begin(c)
    BY <1>4, <2>2
  <2>3. CASE CoreRaises(c) \/ PostRaises(c) \/ Kill(c)
    BY <1>5, <2>3 DEF CoreRaises, PostRaises, RegisterCall, Kill, Message
  <2>4. CASE CoreReturns(c) \/ DryRunReturns(c)
    BY <1>7, <2>4 DEF CoreReturns, RegisterCall, DryRunReturns
  <2>5. CASE Save(c) \/ SaveFails(c)
    BY <1>8, <1>9, <2>5
  <2>6. CASE AskStatus(c) \/ AskList(c)
    BY <1>10, <2>6 DEF AskStatus, AskList
  <2>7. CASE BadDeliveryJson(c) \/ Answered(c) \/ QueryRaises(c)
    <3>1. commands \in Nat /\ commands + 1 \in Nat
      BY <1>0 DEF ClientTypeOK
    <3>2. CASE BadDeliveryJson(c)
      BY <1>11, <3>1, <3>2 DEF BadDeliveryJson, BeginCommand, Raise, Message
    <3>3. CASE Answered(c)
      BY <1>11, <3>1, <3>3 DEF Answered, Message
    <3>4. CASE QueryRaises(c)
      BY <1>11, <3>1, <3>4 DEF QueryRaises, Raise, Message
    <3> QED
      BY <2>7, <3>2, <3>3, <3>4
  <2> QED
    BY <1>12, SubmitSteps, <2>1, <2>2, <2>3, <2>4, <2>5, <2>6, <2>7 DEF ClientNext
<1> QED
  BY <1>1, <1>12 DEF InterfacesNext, Clock, interfaceVars

\* The variables of Interfaces keep their types, whatever the clients do.
THEOREM InterfacesTypeCorrect == InterfacesSpec => []InterfacesTypeOK
<1>1. InterfacesTypeOK /\ [InterfacesNext]_interfaceVars => InterfacesTypeOK'
  BY ListingTypeStep, ClientTypeStep DEF InterfacesTypeOK
<1> QED
  BY <1>1, TypeInit, PTL DEF InterfacesSpec

-----------------------------------------------------------------------------
(***************************************************************************)
(* Serial numbers: a core call has one of its own, from which the delivery *)
(* it registers is known.  0 is that of no call.                           *)
(***************************************************************************)
Serials ==
    /\ \A i \in DOMAIN deliveries : deliveries[i].serial \in 1..commands
    /\ \A i, j \in DOMAIN deliveries :
          deliveries[i].serial = deliveries[j].serial => i = j
    /\ \A c \in Client : call[c].serial <= commands
    /\ \A c, d \in Client :
          call[c].serial = call[d].serial => call[c].serial = 0 \/ c = d
    /\ \A c \in Client : \A i \in Registered(c) : deliveries[i].client = c

\* Where the client stands in its core call, and what it has registered in it.
AtWork(c) ==
    /\ pc[c] \in {"core", "delivering", "saving"} =>
          call[c].serial # 0 /\ told[c] = "nothing"
    /\ pc[c] \in {"core", "delivering"} => Registered(c) = {}
    /\ pc[c] = "saving" =>
          /\ call[c].dry_run <=> Registered(c) = {}
          /\ \A i \in Registered(c) : deliveries[i].id = call[c].id

\* ExitTold, but for the number of deliveries, which is that of Serials.
ToldRight(c) ==
    /\ told[c] \in {"done", "echo_raised", "save_raised"} =>
          (call[c].dry_run <=> Registered(c) = {})
    /\ told[c] \in {"done", "echo_raised"} /\ call[c].save =>
          SavedFile(c, TRUE) \in saved[c]
    /\ told[c] \in {"raised", "fatal_error"} => Registered(c) = {}

\* SavedIsRegistered, for one client.
SavedRight(c) ==
    \A file \in saved[c] :
        ~file.dry_run =>
            \E i \in DOMAIN deliveries : deliveries[i].id = file.id
                                       /\ deliveries[i].client = c

Right(c) == AtWork(c) /\ ToldRight(c) /\ SavedRight(c)

\* The numbers that the serials are compared by.
LEMMA NumbersTyped ==
  ASSUME InterfacesTypeOK
  PROVE  /\ commands \in Nat
         /\ \A c \in Client : call[c].serial \in Nat
         /\ DOMAIN deliveries = 1..Len(deliveries) /\ Len(deliveries) \in Nat
         /\ \A i \in DOMAIN deliveries : deliveries[i].serial \in Nat
<1>1. \A c \in Client : call[c] \in CoreCall
  BY DEF InterfacesTypeOK, ClientTypeOK
<1>2. \A i \in DOMAIN deliveries : deliveries[i] \in RegisteredDelivery
  BY DEF InterfacesTypeOK, ListingTypeOK
<1>3. /\ commands \in Nat
      /\ DOMAIN deliveries = 1..Len(deliveries) /\ Len(deliveries) \in Nat
  BY DEF InterfacesTypeOK, ListingTypeOK, ClientTypeOK
<1> QED
  BY <1>1, <1>2, <1>3 DEF CoreCall, RegisteredDelivery

\* A step that registers nothing and begins no call.
LEMMA SerialsStay ==
  ASSUME InterfacesTypeOK, Serials, UNCHANGED deliveries,
         commands' \in {commands, commands + 1},
         \A d \in Client : call'[d].serial = call[d].serial
  PROVE  Serials' /\ \A d \in Client : Registered(d)' = Registered(d)
<1>1. \A d \in Client : Registered(d)' = Registered(d)
  BY DEF Registered
<1>2. \A n \in Nat : (n <= commands => n <= commands')
                     /\ (n \in 1..commands => n \in 1..commands')
  BY NumbersTyped
<1> QED
  BY <1>1, <1>2, NumbersTyped DEF Serials

\* A call begins, with a number of its own; or a command ends without one.
LEMMA SerialsOfNew ==
  ASSUME InterfacesTypeOK, Serials, UNCHANGED deliveries,
         commands' = commands + 1, NEW c \in Client,
         call'[c].serial \in {0, commands + 1},
         \A d \in Client \ {c} : call'[d].serial = call[d].serial
  PROVE  /\ Serials'
         /\ Registered(c)' = {}
         /\ \A d \in Client \ {c} : Registered(d)' = Registered(d)
<1>1. \A d \in Client \ {c} : Registered(d)' = Registered(d)
  BY DEF Registered
<1>2. Registered(c)' = {}
  BY NumbersTyped DEF Registered, Serials
<1>3. \A i \in DOMAIN deliveries' : deliveries'[i].serial \in 1..commands'
  BY NumbersTyped DEF Serials
<1>4. \A d \in Client : call'[d].serial <= commands'
  BY NumbersTyped DEF Serials
<1>5. \A d, e \in Client :
         call'[d].serial = call'[e].serial => call'[d].serial = 0 \/ d = e
  BY NumbersTyped DEF Serials
<1>6. ASSUME NEW d \in Client PROVE \A i \in Registered(d)' : deliveries'[i].client = d
  BY <1>1, <1>2 DEF Serials
<1>7. \A i, j \in DOMAIN deliveries' :
         deliveries'[i].serial = deliveries'[j].serial => i = j
  BY DEF Serials
<1>8. Serials'
  BY <1>3, <1>4, <1>5, <1>6, <1>7 DEF Serials
<1> QED
  BY <1>1, <1>2, <1>8

\* A delivery is registered: it is the one of its call, and of no other.
LEMMA SerialsOfRegistered ==
  ASSUME InterfacesTypeOK, Serials, NEW c \in Client, RegisterCall(c),
         Registered(c) = {}, call[c].serial # 0,
         \A d \in Client : call'[d].serial \in {call[d].serial}
  PROVE  /\ Serials'
         /\ Registered(c)' = {Len(deliveries')}
         /\ deliveries'[Len(deliveries')].id = call[c].id
         /\ deliveries'[Len(deliveries')].client = c
         /\ \A d \in Client \ {c} : Registered(d)' = Registered(d)
         /\ \A i \in DOMAIN deliveries :
               i \in DOMAIN deliveries' /\ deliveries'[i] = deliveries[i]
<1> DEFINE L == Len(deliveries')
<1>1. call[c].id \in Id /\ call[c].begun \in Nat /\ call[c].serial \in Nat
  BY DEF RegisterCall, InterfacesTypeOK, HasId, ClientTypeOK, CoreCall
<1>2. /\ L = Len(deliveries) + 1
      /\ \A i \in DOMAIN deliveries :
            i \in DOMAIN deliveries' /\ deliveries'[i] = deliveries[i]
      /\ deliveries'[L].id = call[c].id
      /\ deliveries'[L].client = c
      /\ deliveries'[L].serial = call[c].serial
      /\ DOMAIN deliveries' = DOMAIN deliveries \cup {L}
  <2>1. /\ ListingTypeOK /\ UNCHANGED <<utc, query, answer>>
        /\ Register(c, call[c].serial, call[c].id, call[c].begun)
    BY DEF RegisterCall, InterfacesTypeOK
  <2> QED
    BY <1>1, <2>1, RegisterType
<1> HIDE DEF L
<1>3. L \notin DOMAIN deliveries
  BY <1>2, NumbersTyped
<1>4. \A i \in DOMAIN deliveries : deliveries[i].serial # call[c].serial
  BY DEF Registered
<1>5. commands' = commands
  BY DEF RegisterCall
<1>6. Registered(c)' = {L}
  BY <1>2, <1>4 DEF Registered
<1>7. ASSUME NEW d \in Client \ {c} PROVE Registered(d)' = Registered(d)
  <2>1. call[d].serial # call[c].serial /\ call'[d].serial = call[d].serial
    BY DEF Serials
  <2>2. Registered(d)' = {i \in DOMAIN deliveries \cup {L} :
                             deliveries'[i].serial = call[d].serial}
    BY <1>2, <2>1 DEF Registered
  <2> QED
    BY <1>2, <2>1, <2>2 DEF Registered
<1>8. \A i \in DOMAIN deliveries' : deliveries'[i].serial \in 1..commands'
  BY <1>1, <1>2, <1>5, NumbersTyped DEF Serials
<1>9. \A i, j \in DOMAIN deliveries' :
         deliveries'[i].serial = deliveries'[j].serial => i = j
  BY <1>2, <1>4 DEF Serials
<1>10. /\ \A d \in Client : call'[d].serial <= commands'
       /\ \A d, e \in Client :
             call'[d].serial = call'[e].serial => call'[d].serial = 0 \/ d = e
  BY <1>5 DEF Serials
<1>11. \A d \in Client : \A i \in Registered(d)' : deliveries'[i].client = d
  <2>1. \A i \in Registered(c)' : deliveries'[i].client = c
    BY <1>2, <1>6
  <2>2. \A d \in Client \ {c} : \A i \in Registered(d)' : deliveries'[i].client = d
    BY <1>2, <1>7 DEF Serials, Registered
  <2> QED
    BY <2>1, <2>2
<1>12. Serials'
  BY <1>8, <1>9, <1>10, <1>11 DEF Serials
<1> QED
  BY <1>2, <1>6, <1>7, <1>12 DEF L

-----------------------------------------------------------------------------
(***************************************************************************)
(* What a user is told and what is saved.                                  *)
(***************************************************************************)
\* No registered delivery goes, or changes.
Grown == \A i \in DOMAIN deliveries :
             i \in DOMAIN deliveries' /\ deliveries'[i] = deliveries[i]

\* What a client saved stays true of deliveries that only grow.
LEMMA SavedStays ==
  ASSUME NEW d, SavedRight(d), Grown, saved'[d] = saved[d]
  PROVE  SavedRight(d)'
  BY DEF SavedRight, Grown

\* A client that takes no part in the step.
LEMMA OthersStay ==
  ASSUME NEW d, Right(d), Grown, Registered(d)' = Registered(d),
         pc'[d] = pc[d], told'[d] = told[d], call'[d] = call[d], saved'[d] = saved[d]
  PROVE  Right(d)'
<1>1. SavedRight(d)'
  BY SavedStays DEF Right
<1>2. \A i \in Registered(d)' : deliveries'[i] = deliveries[i]
  BY DEF Grown, Registered
<1>3. AtWork(d)'
  BY <1>2 DEF AtWork, Right
<1>4. SavedFile(d, TRUE)' = SavedFile(d, TRUE)
  BY DEF SavedFile
<1>5. ToldRight(d)'
  BY <1>4 DEF ToldRight, Right
<1> QED
  BY <1>1, <1>3, <1>5 DEF Right

\* The client ends with a message that claims nothing.
LEMMA NothingClaimed ==
  ASSUME NEW c, SavedRight(c), Grown, saved'[c] = saved[c], pc'[c] = "idle",
         told'[c] \in {"post_raised", "killed", "query_raised", "listed", "status",
                       "not_found"}
  PROVE  Right(c)'
<1>1. SavedRight(c)'
  BY SavedStays
<1> QED
  BY <1>1 DEF Right, AtWork, ToldRight

\* A client that is idle or waits for an answer and has registered nothing,
\* or that has failed before the POST.
LEMMA NoneRegistered ==
  ASSUME NEW c, SavedRight(c), Grown, saved'[c] = saved[c], pc'[c] = "idle",
         Registered(c)' = {}, told'[c] \in {"raised", "fatal_error"}
  PROVE  Right(c)'
<1>1. SavedRight(c)'
  BY SavedStays
<1> QED
  BY <1>1 DEF Right, AtWork, ToldRight

\* A step of one client only.
Alone(c) ==
    \A d \in Client \ {c} : /\ pc'[d] = pc[d] /\ told'[d] = told[d]
                            /\ call'[d] = call[d] /\ saved'[d] = saved[d]

AllRight == Serials /\ \A c \in Client : Right(c)

\* One client moves, and the others keep what is right of them.
LEMMA OneMoves ==
  ASSUME AllRight, NEW c \in Client, Grown, Alone(c), Serials', Right(c)',
         \A d \in Client \ {c} : Registered(d)' = Registered(d)
  PROVE  AllRight'
<1>1. \A d \in Client \ {c} : Right(d)'
  BY OthersStay DEF AllRight, Alone
<1> QED
  BY <1>1 DEF AllRight

\* A step that registers nothing and leaves the number of the call.
LEMMA OneMovesQuietly ==
  ASSUME InterfacesTypeOK, AllRight, NEW c \in Client, UNCHANGED deliveries,
         commands' \in {commands, commands + 1}, Alone(c),
         call'[c].serial = call[c].serial,
         Registered(c)' = Registered(c) => Right(c)'
  PROVE  AllRight'
<1>1. \A d \in Client : call'[d].serial = call[d].serial
  BY DEF Alone
<1>2. Serials' /\ \A d \in Client : Registered(d)' = Registered(d)
  BY <1>1, SerialsStay DEF AllRight
<1>3. Grown
  BY DEF Grown
<1> QED
  BY <1>2, <1>3, OneMoves

\* Opening a call.
LEMMA OpensRight ==
  ASSUME InterfacesTypeOK, AllRight, NEW c \in Client, Opens(c)
  PROVE  AllRight'
<1>1. PICK new \in CoreCall : /\ new.serial = commands + 1
                              /\ call' = [call EXCEPT ![c] = new]
  BY DEF Opens
<1>2. /\ commands' = commands + 1 /\ UNCHANGED <<deliveries, saved>>
      /\ pc' = [pc EXCEPT ![c] = "core"] /\ told' = [told EXCEPT ![c] = "nothing"]
  BY DEF Opens
<1>3. /\ call'[c].serial = commands + 1 /\ pc'[c] = "core" /\ told'[c] = "nothing"
      /\ Alone(c)
  BY <1>1, <1>2 DEF InterfacesTypeOK, ClientTypeOK, Alone
<1>4. /\ Serials' /\ Registered(c)' = {}
      /\ \A d \in Client \ {c} : Registered(d)' = Registered(d)
  <2>1. \A d \in Client \ {c} : call'[d].serial = call[d].serial
    BY <1>3 DEF Alone
  <2> QED
    BY <1>2, <1>3, <2>1, SerialsOfNew DEF AllRight
<1>5. Grown
  BY <1>2 DEF Grown
<1>6. SavedRight(c)'
  BY <1>2, <1>5, SavedStays DEF AllRight, Right
<1>7. commands + 1 # 0
  BY NumbersTyped
<1>8. Right(c)'
  BY <1>3, <1>4, <1>6, <1>7 DEF Right, AtWork, ToldRight
<1> QED
  BY <1>3, <1>4, <1>5, <1>8, OneMoves

\* Ending a command before the core is called.
LEMMA RejectsRight ==
  ASSUME InterfacesTypeOK, AllRight, NEW c \in Client, Rejects(c)
  PROVE  AllRight'
<1>1. PICK message \in {"raised", "fatal_error"} : told' = [told EXCEPT ![c] = message]
  BY DEF Rejects
<1>2. /\ commands' = commands + 1 /\ UNCHANGED <<deliveries, saved>>
      /\ pc' = [pc EXCEPT ![c] = "idle"] /\ call' = [call EXCEPT ![c] = NoCall]
  BY DEF Rejects
<1>3. /\ call'[c].serial = 0 /\ pc'[c] = "idle" /\ told'[c] = message
      /\ Alone(c)
  BY <1>1, <1>2 DEF InterfacesTypeOK, ClientTypeOK, Alone, NoCall
<1>4. /\ Serials' /\ Registered(c)' = {}
      /\ \A d \in Client \ {c} : Registered(d)' = Registered(d)
  <2>1. \A d \in Client \ {c} : call'[d].serial = call[d].serial
    BY <1>3 DEF Alone
  <2> QED
    BY <1>2, <1>3, <2>1, SerialsOfNew DEF AllRight
<1>5. Grown
  BY <1>2 DEF Grown
<1>6. Right(c)'
  BY <1>2, <1>3, <1>4, <1>5, NoneRegistered DEF AllRight, Right
<1> QED
  BY <1>3, <1>4, <1>5, <1>6, OneMoves

\* The core makes the ID.
LEMMA BeginRight ==
  ASSUME InterfacesTypeOK, AllRight, NEW c \in Client, Begin(c)
  PROVE  AllRight'
<1>1. PICK new \in CoreCall : /\ call' = [call EXCEPT ![c] = new]
                              /\ new.serial = call[c].serial
  BY BegunCall
<1>2. /\ pc[c] = "core" /\ UNCHANGED <<deliveries, told, saved, commands>>
      /\ pc' = [pc EXCEPT ![c] = "delivering"]
  BY DEF Begin, listingVars
<1>3. call'[c].serial = call[c].serial /\ pc'[c] = "delivering" /\ Alone(c)
  BY <1>1, <1>2 DEF InterfacesTypeOK, ClientTypeOK, Alone
<1>4. Right(c)
  BY DEF AllRight
<1>5. ASSUME Registered(c)' = Registered(c) PROVE Right(c)'
  <2>1. SavedRight(c)'
    BY <1>2, <1>4, SavedStays DEF Right, Grown
  <2>2. call[c].serial # 0 /\ told[c] = "nothing" /\ Registered(c) = {}
    BY <1>2, <1>4 DEF Right, AtWork
  <2> QED
    BY <1>2, <1>3, <1>5, <2>1, <2>2 DEF Right, AtWork, ToldRight
<1> QED
  BY <1>2, <1>3, <1>5, OneMovesQuietly

\* The client ends, with or without its call, before or without a POST.
LEMMA EndsRight ==
  ASSUME InterfacesTypeOK, AllRight, NEW c \in Client, NEW message, End(c, message),
         \/ message = "raised" /\ pc[c] \in {"core", "delivering"}
         \/ message \in {"killed", "query_raised", "listed", "status", "not_found"},
         Unwind(c) \/ UNCHANGED call,
         UNCHANGED <<deliveries, saved>>, commands' \in {commands, commands + 1}
  PROVE  AllRight'
<1>1. pc'[c] = "idle" /\ told'[c] = message /\ Alone(c)
  BY DEF End, Unwind, InterfacesTypeOK, ClientTypeOK, Alone
<1>2. call'[c].serial = call[c].serial
  <2>1. CASE Unwind(c)
    BY <2>1, UnwoundCall DEF Unwind, InterfacesTypeOK, ClientTypeOK
  <2> QED
    BY <2>1
<1>3. Right(c)
  BY DEF AllRight
<1>4. SavedRight(c) /\ Grown
  BY <1>3 DEF Right, Grown
<1>5. ASSUME Registered(c)' = Registered(c) PROVE Right(c)'
  <2>1. CASE message = "raised" /\ pc[c] \in {"core", "delivering"}
    <3>1. Registered(c)' = {}
      BY <1>3, <1>5, <2>1 DEF Right, AtWork
    <3> QED
      BY <1>1, <1>4, <2>1, <3>1, NoneRegistered
  <2>2. CASE message # "raised"
    BY <1>1, <1>4, <2>2, NothingClaimed
  <2> QED
    BY <2>1, <2>2
<1> QED
  BY <1>1, <1>2, <1>5, OneMovesQuietly

\* The POST has registered the delivery.
LEMMA PostRight ==
  ASSUME InterfacesTypeOK, AllRight, NEW c \in Client, RegisterCall(c),
         Alone(c), UNCHANGED saved, call'[c].serial = call[c].serial,
         \/ pc'[c] = "idle" /\ told'[c] \in {"post_raised", "killed"}
         \/ /\ UNCHANGED call
            /\ \/ pc'[c] = "saving" /\ told' = told
               \/ /\ pc'[c] = "idle" /\ told'[c] \in {"done", "echo_raised"}
                  /\ ~call[c].save
  PROVE  AllRight'
<1> DEFINE L == Len(deliveries')
<1>1. Right(c) /\ Serials /\ pc[c] = "delivering" /\ ~call[c].dry_run
  BY DEF AllRight, RegisterCall
<1>2. Registered(c) = {} /\ call[c].serial # 0 /\ told[c] = "nothing"
  BY <1>1 DEF Right, AtWork
<1>3. \A d \in Client : call'[d].serial \in {call[d].serial}
  BY DEF Alone
<1>4. /\ Serials' /\ Registered(c)' = {L} /\ deliveries'[L].id = call[c].id
      /\ \A d \in Client \ {c} : Registered(d)' = Registered(d)
      /\ Grown
  BY <1>1, <1>2, <1>3, SerialsOfRegistered DEF Grown
<1>5. SavedRight(c)'
  BY <1>1, <1>4, SavedStays DEF Right
<1> HIDE DEF L
<1>6. CASE pc'[c] = "idle" /\ told'[c] \in {"post_raised", "killed"}
  <2>1. Right(c)'
    BY <1>1, <1>4, <1>6, NothingClaimed DEF Right
  <2> QED
    BY <1>4, <2>1, OneMoves
<1>7. CASE UNCHANGED call /\ pc'[c] = "saving" /\ told' = told
  <2>1. AtWork(c)' /\ ToldRight(c)'
    BY <1>1, <1>2, <1>4, <1>7 DEF AtWork, ToldRight
  <2> QED
    BY <1>4, <1>5, <2>1, OneMoves DEF Right
<1>8. CASE /\ UNCHANGED call /\ ~call[c].save
           /\ pc'[c] = "idle" /\ told'[c] \in {"done", "echo_raised"}
  <2>1. AtWork(c)' /\ ToldRight(c)'
    BY <1>1, <1>2, <1>4, <1>8 DEF AtWork, ToldRight
  <2> QED
    BY <1>4, <1>5, <2>1, OneMoves DEF Right
<1> QED
  BY <1>6, <1>7, <1>8

\* The POST fails, or the process dies, after the delivery was registered.
LEMMA PostRaisesRight ==
  ASSUME InterfacesTypeOK, AllRight, NEW c \in Client, PostRaises(c)
  PROVE  AllRight'
<1>1. /\ RegisterCall(c) /\ UNCHANGED saved
      /\ pc' = [pc EXCEPT ![c] = "idle"]
      /\ \E message \in {"post_raised", "killed"} :
            told' = [told EXCEPT ![c] = message]
  BY DEF PostRaises, Raise, End
<1>2. call' = [call EXCEPT ![c] = [NoCall EXCEPT !.serial = call[c].serial]]
  BY DEF PostRaises, Unwind
<1>3. ClientTypeOK
  BY DEF InterfacesTypeOK
<1>4. call'[c].serial = call[c].serial
  BY <1>2, <1>3, UnwoundCall DEF ClientTypeOK
<1>5. pc'[c] = "idle" /\ told'[c] \in {"post_raised", "killed"} /\ Alone(c)
  BY <1>1, <1>2, <1>3 DEF ClientTypeOK, Alone
<1> QED
  BY <1>1, <1>4, <1>5, PostRight

\* What happens after the core call has succeeded.
LEMMA Continued ==
  ASSUME InterfacesTypeOK, NEW c \in Client, Continue(c), UNCHANGED <<call, saved>>
  PROVE  /\ Alone(c)
         /\ \/ call[c].save /\ pc'[c] = "saving" /\ told' = told
            \/ /\ ~call[c].save
               /\ pc'[c] = "idle" /\ told'[c] \in {"done", "echo_raised"}
  BY DEF Continue, Respond, Raise, End, InterfacesTypeOK, ClientTypeOK, Alone

\* The core returns.
LEMMA CoreReturnsRight ==
  ASSUME InterfacesTypeOK, AllRight, NEW c \in Client, CoreReturns(c)
  PROVE  AllRight'
<1>1. RegisterCall(c) /\ Continue(c) /\ UNCHANGED <<call, saved>>
  BY DEF CoreReturns
<1> QED
  BY <1>1, Continued, PostRight

\* The core returns from a dry run.
LEMMA DryRunReturnsRight ==
  ASSUME InterfacesTypeOK, AllRight, NEW c \in Client, DryRunReturns(c)
  PROVE  AllRight'
<1>1. /\ pc[c] = "delivering" /\ call[c].dry_run /\ Continue(c)
      /\ UNCHANGED <<deliveries, call, saved, commands>>
  BY DEF DryRunReturns, listingVars
<1>2. Right(c)
  BY DEF AllRight
<1>3. Registered(c) = {} /\ call[c].serial # 0 /\ told[c] = "nothing"
  BY <1>1, <1>2 DEF Right, AtWork
<1>4. /\ Alone(c)
      /\ \/ call[c].save /\ pc'[c] = "saving" /\ told' = told
         \/ /\ ~call[c].save
            /\ pc'[c] = "idle" /\ told'[c] \in {"done", "echo_raised"}
  BY <1>1, Continued
<1>5. ASSUME Registered(c)' = Registered(c) PROVE Right(c)'
  <2>1. SavedRight(c)'
    BY <1>1, <1>2, SavedStays DEF Right, Grown
  <2>2. AtWork(c)' /\ ToldRight(c)'
    BY <1>1, <1>3, <1>4, <1>5 DEF AtWork, ToldRight
  <2> QED
    BY <2>1, <2>2 DEF Right
<1> QED
  BY <1>1, <1>4, <1>5, OneMovesQuietly

\* A delivery file more, of the delivery the call has registered if it did.
LEMMA SavedMore ==
  ASSUME AllRight, NEW c \in Client, pc[c] = "saving", UNCHANGED <<deliveries, call>>,
         NEW whole \in BOOLEAN,
         saved'[c] \subseteq saved[c] \cup {SavedFile(c, whole)}
  PROVE  SavedRight(c)'
<1>1. Serials /\ AtWork(c) /\ SavedRight(c)
  BY DEF AllRight, Right
<1>2. ~call[c].dry_run => \E i \in DOMAIN deliveries : /\ deliveries[i].id = call[c].id
                                                       /\ deliveries[i].client = c
  BY <1>1 DEF AtWork, Serials, Registered
<1>3. /\ SavedFile(c, whole).dry_run = call[c].dry_run
      /\ SavedFile(c, whole).id = call[c].id
  BY DEF SavedFile
<1> QED
  BY <1>1, <1>2, <1>3 DEF SavedRight

\* The delivery file is saved, or is not.
LEMMA SaveRight ==
  ASSUME InterfacesTypeOK, AllRight, NEW c \in Client, Save(c) \/ SaveFails(c)
  PROVE  AllRight'
<1>1. /\ pc[c] = "saving" /\ UNCHANGED <<deliveries, call, commands>>
      /\ pc' = [pc EXCEPT ![c] = "idle"]
  BY DEF Save, SaveFails, Respond, Raise, End, listingVars
<1>2. Right(c)
  BY DEF AllRight
<1>3. \/ /\ \E message \in {"done", "echo_raised"} :
               told' = [told EXCEPT ![c] = message]
         /\ saved' = [saved EXCEPT ![c] = @ \cup {SavedFile(c, TRUE)}]
      \/ /\ told' = [told EXCEPT ![c] = "save_raised"]
         /\ saved' = saved \/ saved' = [saved EXCEPT ![c] = @ \cup {SavedFile(c, FALSE)}]
  BY DEF Save, SaveFails, Respond, Raise, End
<1>4. /\ pc'[c] = "idle" /\ Alone(c)
      /\ \/ /\ told'[c] \in {"done", "echo_raised"}
            /\ saved'[c] = saved[c] \cup {SavedFile(c, TRUE)}
         \/ /\ told'[c] = "save_raised"
            /\ saved'[c] \subseteq saved[c] \cup {SavedFile(c, FALSE)}
  BY <1>1, <1>3 DEF InterfacesTypeOK, ClientTypeOK, Alone
<1>5. SavedRight(c)'
  BY <1>1, <1>4, SavedMore
<1>6. call[c].dry_run <=> Registered(c) = {}
  BY <1>1, <1>2 DEF Right, AtWork
<1>7. SavedFile(c, TRUE)' = SavedFile(c, TRUE)
  BY <1>1 DEF SavedFile
<1>8. ASSUME Registered(c)' = Registered(c) PROVE Right(c)'
  BY <1>1, <1>4, <1>5, <1>6, <1>7, <1>8 DEF Right, AtWork, ToldRight
<1> QED
  BY <1>1, <1>4, <1>8, OneMovesQuietly

\* A query is sent.
LEMMA AsksRight ==
  ASSUME InterfacesTypeOK, AllRight, NEW c \in Client, AskStatus(c) \/ AskList(c)
  PROVE  AllRight'
<1>1. /\ commands' = commands + 1 /\ UNCHANGED <<deliveries, call, told, saved>>
      /\ pc' = [pc EXCEPT ![c] = "status"] \/ pc' = [pc EXCEPT ![c] = "list"]
  BY DEF AskStatus, AskList, BeginCommand
<1>2. pc'[c] \in {"status", "list"} /\ Alone(c)
  BY <1>1 DEF InterfacesTypeOK, ClientTypeOK, Alone
<1>3. Right(c)
  BY DEF AllRight
<1>4. ASSUME Registered(c)' = Registered(c) PROVE Right(c)'
  <2>1. SavedRight(c)'
    BY <1>1, <1>3, SavedStays DEF Right, Grown
  <2>2. SavedFile(c, TRUE)' = SavedFile(c, TRUE)
    BY <1>1 DEF SavedFile
  <2>3. AtWork(c)' /\ ToldRight(c)'
    BY <1>1, <1>2, <1>3, <1>4, <2>2 DEF AtWork, ToldRight, Right
  <2> QED
    BY <2>1, <2>3 DEF Right
<1> QED
  BY <1>1, <1>2, <1>4, OneMovesQuietly

\* All is right at the start.
LEMMA AllRightInit == InterfacesInit => AllRight
<1> SUFFICES ASSUME InterfacesInit PROVE AllRight
  OBVIOUS
<1>1. /\ deliveries = <<>> /\ commands = 0
      /\ \A c \in Client : /\ call[c].serial = 0 /\ pc[c] = "idle"
                           /\ told[c] = "nothing" /\ saved[c] = {}
  BY DEF InterfacesInit, ListingInit, NoCall
<1>2. Serials
  BY <1>1 DEF Serials, Registered
<1>3. \A c \in Client : Right(c)
  BY <1>1 DEF Right, AtWork, ToldRight, SavedRight
<1> QED
  BY <1>2, <1>3 DEF AllRight

\* Every step keeps all right.
LEMMA AllRightStep ==
  InterfacesTypeOK /\ AllRight /\ [InterfacesNext]_interfaceVars => AllRight'
<1> SUFFICES ASSUME InterfacesTypeOK, AllRight, [InterfacesNext]_interfaceVars
             PROVE  AllRight'
  OBVIOUS
<1>1. CASE UNCHANGED <<deliveries, call, pc, told, saved, commands>>
  BY <1>1 DEF AllRight, Serials, Right, AtWork, ToldRight, SavedRight, Registered,
              SavedFile
<1>2. ASSUME NEW c \in Client, ClientNext(c) PROVE AllRight'
  <2>1. CASE Opens(c) \/ Rejects(c)
    BY <2>1, OpensRight, RejectsRight
  <2>2. CASE Begin(c)
    BY <2>2, BeginRight
  <2>3. CASE CoreRaises(c)
    BY <2>3, EndsRight DEF CoreRaises, Raise, listingVars
  <2>4. CASE CoreReturns(c)
    BY <2>4, CoreReturnsRight
  <2>5. CASE PostRaises(c)
    BY <2>5, PostRaisesRight
  <2>6. CASE DryRunReturns(c)
    BY <2>6, DryRunReturnsRight
  <2>7. CASE Save(c) \/ SaveFails(c)
    BY <2>7, SaveRight
  <2>8. CASE Kill(c)
    BY <2>8, EndsRight DEF Kill, Raise, listingVars
  <2>9. CASE AskStatus(c) \/ AskList(c)
    BY <2>9, AsksRight
  <2>10. CASE BadDeliveryJson(c)
    BY <2>10, EndsRight DEF BadDeliveryJson, BeginCommand, Raise
  <2>11. CASE Answered(c)
    <3>1. PICK message \in {"listed", "not_found", "status"} : End(c, message)
      BY <2>11 DEF Answered
    <3> QED
      BY <2>11, <3>1, EndsRight DEF Answered
  <2>12. CASE QueryRaises(c)
    BY <2>12, EndsRight DEF QueryRaises, Raise, listingVars
  <2> QED
    BY <1>2, SubmitSteps, <2>1, <2>2, <2>3, <2>4, <2>5, <2>6, <2>7, <2>8, <2>9,
       <2>10, <2>11, <2>12
    DEF ClientNext
<1> QED
  BY <1>1, <1>2 DEF InterfacesNext, Clock, Tick, interfaceVars, listingVars

\* The inductive invariant of the clients: serial numbers are unique, and what
\* each client was told and has saved is backed by the deliveries registered.
THEOREM InterfacesRight == InterfacesSpec => [](InterfacesTypeOK /\ AllRight)
<1>1. InterfacesInit => InterfacesTypeOK /\ AllRight
  BY TypeInit, AllRightInit
<1>2. /\ InterfacesTypeOK /\ AllRight
      /\ [InterfacesNext]_interfaceVars
      => (InterfacesTypeOK /\ AllRight)'
  BY ListingTypeStep, ClientTypeStep, AllRightStep DEF InterfacesTypeOK
<1> QED
  BY <1>1, <1>2, PTL DEF InterfacesSpec

\* With any number of clients, whatever fails or dies: what a user is told of
\* a delivery is what happened to it.
THEOREM UsersTold == InterfacesSpec => []ExitTold
<1>1. InterfacesTypeOK /\ AllRight => ExitTold
  <2> SUFFICES ASSUME InterfacesTypeOK, AllRight, NEW c \in Client
               PROVE  Cardinality(Registered(c)) <= 1 /\ ToldRight(c)
    BY DEF ExitTold, ToldRight
  <2>1. Serials /\ ToldRight(c)
    BY DEF AllRight, Right
  <2>2. CASE Registered(c) = {}
    BY <2>1, <2>2, FS_EmptySet
  <2>3. ASSUME NEW i \in Registered(c) PROVE Cardinality(Registered(c)) = 1
    <3>1. Registered(c) = {i}
      BY <2>1 DEF Serials, Registered
    <3> QED
      BY <3>1, FS_Singleton
  <2> QED
    BY <2>1, <2>2, <2>3
<1> QED
  BY <1>1, InterfacesRight, PTL

\* A delivery file that is not of a dry run is of a registered delivery.
THEOREM SavedRegistered == InterfacesSpec => []SavedIsRegistered
<1>1. AllRight => SavedIsRegistered
  BY DEF AllRight, Right, SavedRight, SavedIsRegistered
<1> QED
  BY <1>1, InterfacesRight, PTL

-----------------------------------------------------------------------------
(***************************************************************************)
(* What a user is shown of the registered deliveries.                      *)
(***************************************************************************)
EntitiesTrue ==
    \A i \in DOMAIN deliveries :
        deliveries[i].entity = EntityOf(OnBehalfOf[deliveries[i].client])

\* What the parameters of the query were made from.
QueryTrue(c) ==
    /\ query[c].at <= Len(deliveries)
    /\ query[c].created_after =
          IF query[c].timeframe = "all" THEN 0
          ELSE query[c].sent - TimeframeMapping[query[c].timeframe]
    /\ pc[c] = "status" => /\ query[c].entity = EntityOf(QueriedFor(c))
                           /\ query[c].timeframe = "all"

\* ListedInOrder, TimeframeKept and FoundAgain, for one client.
OrderRight(c) ==
    \A i, j \in DOMAIN answer[c] :
        i < j /\ OffsetOf(answer[c][i]) = OffsetOf(answer[c][j])
        => answer[c][i].begun >= answer[c][j].begun

Within(d, q) == \/ q.timeframe = "all"
                \/ q.sent - d.created <= TimeframeMapping[q.timeframe]

TimeframeRight(c) ==
    /\ query[c].answered /\ query[c].delivery_id = NoId =>
          \A i \in 1..query[c].at :
              deliveries[i].entity = query[c].entity /\ Within(deliveries[i], query[c])
              => deliveries[i] \in ToSet(answer[c])
    /\ \A d \in ToSet(answer[c]) : Within(d, query[c])

FoundRight(c) ==
    /\ told[c] = "not_found" /\ query[c].answered
    /\ Interface[c] = "cli" \/ OnBehalfOf[c] = NoEntity
    =>  \A i \in 1..query[c].at :
            deliveries[i].client = c => deliveries[i].id # query[c].delivery_id

Shown(c) == QueryTrue(c) /\ OrderRight(c) /\ TimeframeRight(c) /\ FoundRight(c)

\* A step that leaves the query of the client alone.
LEMMA QueryStays ==
  ASSUME InterfacesTypeOK, NEW c \in Client, Shown(c), Grown,
         Len(deliveries') \in Nat, Len(deliveries) <= Len(deliveries'),
         query'[c] = query[c], answer'[c] = answer[c],
         pc'[c] = "status" => pc[c] = "status",
         told'[c] = "not_found" => told[c] = "not_found"
  PROVE  Shown(c)'
<1>1. query[c].at \in Nat
  BY DEF InterfacesTypeOK, ListingTypeOK, Query
<1>2. QueryTrue(c)'
  BY <1>1, NumbersTyped DEF QueryTrue, Shown, QueriedFor
<1>3. OrderRight(c)'
  BY DEF OrderRight, Shown, OffsetOf
<1>4. \A i \in 1..query[c].at :
         i \in DOMAIN deliveries /\ deliveries'[i] = deliveries[i]
  BY <1>1, NumbersTyped DEF Shown, QueryTrue, Grown
<1>5. TimeframeRight(c)'
  BY <1>4 DEF TimeframeRight, Shown, Within
<1>6. FoundRight(c)'
  BY <1>4 DEF FoundRight, Shown
<1> QED
  BY <1>2, <1>3, <1>5, <1>6 DEF Shown

\* A query without an answer.
LEMMA Unanswered ==
  ASSUME NEW c \in Client, QueryTrue(c)', ~query'[c].answered, answer'[c] = <<>>
  PROVE  Shown(c)'
<1>1. DOMAIN answer'[c] = {}
  OBVIOUS
<1>2. ToSet(answer[c])' = {}
  BY <1>1 DEF ToSet
<1> QED
  BY <1>1, <1>2 DEF Shown, OrderRight, TimeframeRight, FoundRight

\* A query that is forgotten shows nothing.
LEMMA Forgotten ==
  ASSUME InterfacesTypeOK, NEW c \in Client, ForgetQuery(c), UNCHANGED deliveries,
         pc'[c] # "status"
  PROVE  Shown(c)'
<1>1. query'[c] = NoQuery /\ answer'[c] = <<>>
  BY DEF ForgetQuery, InterfacesTypeOK, ListingTypeOK
<1>2. /\ NoQuery.at = 0 /\ NoQuery.created_after = 0 /\ NoQuery.timeframe = "all"
      /\ ~NoQuery.answered
  BY DEF NoQuery
<1>3. QueryTrue(c)'
  BY <1>1, <1>2, NumbersTyped DEF QueryTrue
<1> QED
  BY <1>1, <1>2, <1>3, Unanswered

\* A query that is sent shows nothing yet.
LEMMA Sent ==
  ASSUME InterfacesTypeOK, NEW c \in Client, NEW id, NEW timeframe,
         SendQuery(c, id, timeframe, QueriedFor(c)), UNCHANGED deliveries,
         pc'[c] = "status" => timeframe = "all"
  PROVE  Shown(c)'
<1> DEFINE q == [delivery_id |-> id,
                 created_after |-> TimeframeToCreatedAfter(0, timeframe),
                 entity |-> EntityOf(QueriedFor(c)), timeframe |-> timeframe,
                 sent |-> utc, at |-> Len(deliveries), answered |-> FALSE]
<1>1. query' = [query EXCEPT ![c] = q] /\ answer' = [answer EXCEPT ![c] = <<>>]
  BY DEF SendQuery, TimeframeToCreatedAfter
<1>2. /\ q.at = Len(deliveries) /\ q.sent = utc /\ q.timeframe = timeframe
      /\ q.entity = EntityOf(QueriedFor(c)) /\ ~q.answered
      /\ q.created_after = IF timeframe = "all" THEN 0
                           ELSE utc - TimeframeMapping[timeframe]
  BY DEF TimeframeToCreatedAfter
<1> HIDE DEF q
<1>3. query'[c] = q /\ answer'[c] = <<>>
  BY <1>1 DEF InterfacesTypeOK, ListingTypeOK
<1>4. QueryTrue(c)'
  BY <1>2, <1>3, NumbersTyped DEF QueryTrue, QueriedFor
<1> QED
  BY <1>2, <1>3, <1>4, Unanswered

\* The answer lists the selected deliveries and no others, in their order.
LEMMA AnswerLists ==
  ASSUME InterfacesTypeOK, NEW c \in Client, ReceiveAnswer(c), UNCHANGED deliveries
  PROVE  /\ OrderRight(c)'
         /\ ToSet(answer[c])' = {deliveries[i] : i \in Selected(query[c])}
         /\ answer'[c] = <<>> => Selected(query[c]) = {}
         /\ query'[c] = [query[c] EXCEPT !.answered = TRUE]
<1> DEFINE places == Selected(query[c])
           N == Cardinality(places)
<1>1. places \in SUBSET DOMAIN deliveries /\ IsFiniteSet(places)
  BY SelectedPlaces DEF InterfacesTypeOK
<1>2. PICK place : /\ Arranges(place, places)
                   /\ Sorted(places) = [k \in 1..N |-> deliveries[place[k]]]
  BY <1>1, SortedArranges DEF InterfacesTypeOK
<1>3. N \in Nat
  BY <1>1, FS_CardinalityType
<1>4. answer'[c] = Sorted(places) /\ query'[c] = [query[c] EXCEPT !.answered = TRUE]
  BY DEF ReceiveAnswer, InterfacesTypeOK, ListingTypeOK
<1>5. /\ place \in [1..N -> places]
      /\ \A i \in places : \E k \in 1..N : place[k] = i
      /\ \A k, l \in 1..N : k < l => Precedes(place[k], place[l])
  BY <1>2 DEF Arranges
<1> HIDE DEF places, N
<1>6. DOMAIN answer'[c] = 1..N /\ \A k \in 1..N : answer'[c][k] = deliveries[place[k]]
  BY <1>2, <1>4
<1>7. ToSet(answer[c])' = {deliveries[i] : i \in places}
  <2>1. ToSet(answer[c])' = {deliveries[place[k]] : k \in 1..N}
    BY <1>6 DEF ToSet
  <2> QED
    BY <1>5, <2>1
<1>8. answer'[c] = <<>> => places = {}
  <2> SUFFICES ASSUME answer'[c] = <<>>, NEW i \in places PROVE FALSE
    OBVIOUS
  <2>1. 1..N = {}
    BY <1>6
  <2> QED
    BY <1>5, <2>1
<1>9. OrderRight(c)'
  <2> SUFFICES ASSUME NEW k \in 1..N, NEW l \in 1..N, k < l,
                      OffsetOf(deliveries[place[k]]) = OffsetOf(deliveries[place[l]])
               PROVE  deliveries[place[k]].begun >= deliveries[place[l]].begun
    BY <1>6 DEF OrderRight, OffsetOf
  <2> DEFINE d == deliveries[place[k]]
             e == deliveries[place[l]]
  <2>1. d \in RegisteredDelivery /\ e \in RegisteredDelivery
    BY <1>1, <1>5 DEF InterfacesTypeOK, ListingTypeOK
  <2>2. IdBefore(e.id, d.id) \/ d.id = e.id
    BY <1>5 DEF Precedes, Earlier
  <2>3. OffsetOf(d) = OffsetOf(e)
    OBVIOUS
  <2> HIDE DEF d, e
  <2>4. /\ d.id.second \in Int /\ e.id.second \in Int
        /\ d.begun \in Int /\ e.begun \in Int
    BY <2>1 DEF RegisteredDelivery, Id
  <2>5. d.id.second >= e.id.second
    BY <2>2, <2>4 DEF IdBefore
  <2>6. d.begun >= e.begun
    BY <2>3, <2>4, <2>5 DEF OffsetOf
  <2> QED
    BY <2>6 DEF d, e
<1> QED
  BY <1>4, <1>7, <1>8, <1>9 DEF places

\* What an answer shows: the selected deliveries, in order.
LEMMA AnswerShown ==
  ASSUME InterfacesTypeOK, EntitiesTrue, NEW c \in Client, Shown(c),
         Answered(c)
  PROVE  Shown(c)'
<1> DEFINE q == query[c]
           places == Selected(q)
<1>1. /\ ReceiveAnswer(c) /\ UNCHANGED deliveries /\ pc[c] \in {"status", "list"}
      /\ pc' = [pc EXCEPT ![c] = "idle"]
      /\ told' = [told EXCEPT ![c] = IF pc[c] = "list" THEN "listed"
                                     ELSE IF answer'[c] = <<>> THEN "not_found"
                                     ELSE "status"]
  BY DEF Answered, End
<1>2. /\ OrderRight(c)'
      /\ ToSet(answer[c])' = {deliveries[i] : i \in places}
      /\ answer'[c] = <<>> => places = {}
      /\ query'[c] = [q EXCEPT !.answered = TRUE]
  BY <1>1, AnswerLists
<1>3. /\ QueryTrue(c) /\ q \in Query /\ DOMAIN deliveries = 1..Len(deliveries)
      /\ Len(deliveries) \in Nat
      /\ \A i \in DOMAIN deliveries : deliveries[i] \in RegisteredDelivery
  BY DEF Shown, InterfacesTypeOK, ListingTypeOK
<1>4. pc'[c] = "idle"
      /\ (told'[c] = "not_found" => pc[c] = "status" /\ answer'[c] = <<>>)
  BY <1>1 DEF InterfacesTypeOK, ClientTypeOK
<1>5. /\ query'[c].at = q.at /\ query'[c].created_after = q.created_after
      /\ query'[c].entity = q.entity /\ query'[c].timeframe = q.timeframe
      /\ query'[c].sent = q.sent /\ query'[c].delivery_id = q.delivery_id
  BY <1>2, <1>3 DEF Query
<1> HIDE DEF q
<1>6. QueryTrue(c)'
  BY <1>1, <1>3, <1>4, <1>5 DEF QueryTrue, q
<1>7. \A i \in 1..q.at : i \in DOMAIN deliveries
  BY <1>3 DEF QueryTrue, q, Query
<1>8. \A i \in DOMAIN deliveries : /\ deliveries[i].created \in Nat
                                   /\ deliveries[i].id \in Id
  BY <1>3 DEF RegisteredDelivery
<1>9. /\ q.sent \in Int /\ q.created_after \in Int
      /\ q.timeframe # "all" => TimeframeMapping[q.timeframe] \in Int
  BY <1>3, ListingAssumption DEF Query, Timeframe
<1>10. q.created_after = IF q.timeframe = "all" THEN 0
                         ELSE q.sent - TimeframeMapping[q.timeframe]
  BY <1>3 DEF QueryTrue, q
<1>11. \A i \in DOMAIN deliveries :
          deliveries[i].created >= q.created_after <=> Within(deliveries[i], q)
  BY <1>8, <1>9, <1>10 DEF Within
<1>12. TimeframeRight(c)'
  <2>1. ASSUME q.delivery_id = NoId, NEW i \in 1..q.at,
               deliveries[i].entity = q.entity, Within(deliveries[i], q)
        PROVE  deliveries[i] \in ToSet(answer[c])'
    <3>1. i \in places
      BY <1>7, <1>11, <2>1 DEF Selected
    <3> QED
      BY <1>2, <3>1
  <2>2. ASSUME NEW d \in ToSet(answer[c])' PROVE Within(d, q)
    <3>1. PICK i \in places : d = deliveries[i]
      BY <1>2, <2>2
    <3>2. i \in DOMAIN deliveries /\ deliveries[i].created >= q.created_after
      BY <3>1 DEF Selected
    <3> QED
      BY <1>11, <3>1, <3>2
  <2>3. \A d : Within(d, query[c])' <=> Within(d, q)
    BY <1>5 DEF Within
  <2> QED
    BY <1>1, <1>5, <2>1, <2>2, <2>3 DEF TimeframeRight
<1>13. FoundRight(c)'
  <2> SUFFICES ASSUME told'[c] = "not_found",
                      Interface[c] = "cli" \/ OnBehalfOf[c] = NoEntity,
                      NEW i \in 1..q.at, deliveries[i].client = c,
                      deliveries[i].id = q.delivery_id
               PROVE  FALSE
    BY <1>1, <1>5 DEF FoundRight
  <2>1. pc[c] = "status" /\ places = {}
    BY <1>2, <1>4
  <2>2. q.entity = EntityOf(QueriedFor(c)) /\ q.timeframe = "all"
    BY <1>3, <2>1 DEF QueryTrue, q
  <2>3. QueriedFor(c) = OnBehalfOf[c]
    BY DEF QueriedFor
  <2>4. i \in DOMAIN deliveries /\ deliveries[i].entity = EntityOf(OnBehalfOf[c])
    BY <1>7 DEF EntitiesTrue
  <2>5. deliveries[i].created >= q.created_after
    BY <1>11, <2>2, <2>4 DEF Within
  <2>6. i \in places
    BY <2>2, <2>3, <2>4, <2>5 DEF Selected
  <2> QED
    BY <2>1, <2>6
<1> QED
  BY <1>2, <1>6, <1>12, <1>13 DEF Shown

AllShown == EntitiesTrue /\ \A c \in Client : Shown(c)

\* Nothing is shown at the start.
LEMMA AllShownInit == InterfacesInit => AllShown
<1> SUFFICES ASSUME InterfacesInit PROVE AllShown
  OBVIOUS
<1>1. EntitiesTrue
  BY DEF InterfacesInit, ListingInit, EntitiesTrue
<1>2. ASSUME NEW c \in Client PROVE Shown(c)
  <2>1. /\ query[c] = NoQuery /\ answer[c] = <<>> /\ pc[c] = "idle"
        /\ told[c] = "nothing" /\ Len(deliveries) = 0
    BY DEF InterfacesInit, ListingInit
  <2>2. NoQuery.at = 0 /\ NoQuery.created_after = 0 /\ NoQuery.timeframe = "all"
        /\ ~NoQuery.answered
    BY DEF NoQuery
  <2>3. DOMAIN answer[c] = {} /\ ToSet(answer[c]) = {}
    BY <2>1 DEF ToSet
  <2> QED
    BY <2>1, <2>2, <2>3 DEF Shown, QueryTrue, OrderRight, TimeframeRight, FoundRight
<1> QED
  BY <1>1, <1>2 DEF AllShown

\* The query of no client changes; none begins to ask for a status, and none
\* is told "not found" anew.
LEMMA NoQueryMoves ==
  ASSUME InterfacesTypeOK, AllShown, UNCHANGED <<query, answer>>, Grown,
         EntitiesTrue', Len(deliveries') \in Nat,
         Len(deliveries) <= Len(deliveries'),
         \A d \in Client : /\ pc'[d] = "status" => pc[d] = "status"
                           /\ told'[d] = "not_found" => told[d] = "not_found"
  PROVE  AllShown'
  BY QueryStays DEF AllShown

\* The steps of a core call that register nothing, and those of no client.
Waits == /\ UNCHANGED <<deliveries, query, answer>>
         /\ \A d \in Client : /\ pc'[d] = "status" => pc[d] = "status"
                              /\ told'[d] = "not_found" => told[d] = "not_found"

\* Steps that neither register nor answer.
LEMMA WaitsShown == ASSUME InterfacesTypeOK, AllShown, Waits PROVE AllShown'
<1>1. Grown /\ Len(deliveries') \in Nat /\ Len(deliveries) <= Len(deliveries')
  BY NumbersTyped DEF Grown, Waits
<1>2. EntitiesTrue'
  BY DEF AllShown, Waits, EntitiesTrue
<1> QED
  BY <1>1, <1>2, NoQueryMoves DEF Waits

\* One client ends or goes on.
LEMMA WaitingSteps ==
  ASSUME InterfacesTypeOK, NEW c \in Client,
         \/ Begin(c) \/ CoreRaises(c) \/ DryRunReturns(c) \/ Save(c) \/ SaveFails(c)
         \/ Kill(c) \/ QueryRaises(c)
  PROVE  Waits
<1>1. UNCHANGED <<deliveries, query, answer>>
  BY DEF Begin, CoreRaises, DryRunReturns, Save, SaveFails, Kill, QueryRaises,
         listingVars
<1>2. \/ \E next \in {"delivering", "saving"} :
            pc' = [pc EXCEPT ![c] = next] /\ told' = told
      \/ \E message \in {"raised", "done", "save_raised", "echo_raised",
                        "killed", "query_raised"} :
            End(c, message)
  BY DEF Begin, CoreRaises, DryRunReturns, Continue, Respond, Save, SaveFails, Kill,
         QueryRaises, Raise
<1>3. \A d \in Client : /\ pc'[d] = "status" => pc[d] = "status"
                        /\ told'[d] = "not_found" => told[d] = "not_found"
  BY <1>2 DEF End, InterfacesTypeOK, ClientTypeOK
<1> QED
  BY <1>1, <1>3 DEF Waits

\* A delivery that is registered later does not change what was shown.
LEMMA RegisterShown ==
  ASSUME InterfacesTypeOK, AllShown, NEW c \in Client, CoreReturns(c) \/ PostRaises(c)
  PROVE  AllShown'
<1>1. /\ RegisterCall(c) /\ UNCHANGED <<query, answer>>
  BY DEF CoreReturns, PostRaises, RegisterCall
<1>2. \/ pc' = [pc EXCEPT ![c] = "saving"] /\ told' = told
      \/ \E message \in {"done", "echo_raised", "post_raised", "killed"} :
            End(c, message)
  BY DEF CoreReturns, PostRaises, Continue, Respond, Raise
<1>3. \A d \in Client : /\ pc'[d] = "status" => pc[d] = "status"
                        /\ told'[d] = "not_found" => told[d] = "not_found"
  BY <1>2 DEF End, InterfacesTypeOK, ClientTypeOK
<1>4. call[c].id \in Id /\ call[c].begun \in Nat /\ call[c].serial \in Nat
  BY <1>1 DEF RegisterCall, InterfacesTypeOK, HasId, ClientTypeOK, CoreCall
<1> DEFINE L == Len(deliveries')
<1>5. /\ L = Len(deliveries) + 1
      /\ \A i \in DOMAIN deliveries :
            i \in DOMAIN deliveries' /\ deliveries'[i] = deliveries[i]
      /\ deliveries'[L].client = c
      /\ deliveries'[L].entity = EntityOf(OnBehalfOf[c])
      /\ DOMAIN deliveries' = DOMAIN deliveries \cup {L}
  <2>1. /\ ListingTypeOK /\ UNCHANGED <<utc, query, answer>>
        /\ Register(c, call[c].serial, call[c].id, call[c].begun)
    BY <1>1 DEF RegisterCall, InterfacesTypeOK
  <2> QED
    BY <1>4, <2>1, RegisterType
<1> HIDE DEF L
<1>6. EntitiesTrue'
  BY <1>5 DEF AllShown, EntitiesTrue
<1>7. L \in Nat /\ Len(deliveries) <= L
  BY <1>5, NumbersTyped
<1> QED
  BY <1>1, <1>3, <1>5, <1>6, <1>7, NoQueryMoves DEF Grown, L

\* One client forgets its query, sends one or gets its answer.
LEMMA OneQueryMoves ==
  ASSUME InterfacesTypeOK, AllShown, NEW c \in Client, UNCHANGED deliveries, Shown(c)',
         \A d \in Client \ {c} : /\ query'[d] = query[d] /\ answer'[d] = answer[d]
                                 /\ pc'[d] = pc[d] /\ told'[d] = told[d]
  PROVE  AllShown'
<1>1. Grown /\ Len(deliveries') \in Nat /\ Len(deliveries) <= Len(deliveries')
  BY NumbersTyped DEF Grown
<1>2. EntitiesTrue'
  BY DEF AllShown, EntitiesTrue
<1>3. \A d \in Client \ {c} : Shown(d)'
  BY <1>1, QueryStays DEF AllShown
<1> QED
  BY <1>2, <1>3 DEF AllShown

\* The commands that query send a query or end.
LEMMA QuerySteps ==
  ASSUME InterfacesTypeOK, AllShown, NEW c \in Client,
         \/ Opens(c) \/ Rejects(c) \/ AskStatus(c) \/ BadDeliveryJson(c)
         \/ AskList(c) \/ Answered(c)
  PROVE  AllShown'
<1>1. UNCHANGED deliveries
  BY DEF Opens, Rejects, AskStatus, BadDeliveryJson, AskList, Answered
<1>2. \/ ForgetQuery(c)
      \/ \E id \in KnownIds(c) : SendQuery(c, id, "all", QueriedFor(c))
      \/ \E timeframe \in Timeframe : SendQuery(c, NoId, timeframe, QueriedFor(c))
      \/ ReceiveAnswer(c)
  BY DEF Opens, Rejects, AskStatus, BadDeliveryJson, AskList, Answered
<1>3. \A d \in Client \ {c} : query'[d] = query[d] /\ answer'[d] = answer[d]
  BY <1>2 DEF ForgetQuery, SendQuery, ReceiveAnswer, InterfacesTypeOK, ListingTypeOK
<1>4. /\ \E next \in {"idle", "core", "status", "list"} : pc' = [pc EXCEPT ![c] = next]
      /\ \/ told' = told
         \/ \E message \in Message : told' = [told EXCEPT ![c] = message]
  BY DEF Opens, Rejects, AskStatus, BadDeliveryJson, AskList, Answered, Raise, End,
         Message
<1>5. \A d \in Client \ {c} : pc'[d] = pc[d] /\ told'[d] = told[d]
  BY <1>4 DEF InterfacesTypeOK, ClientTypeOK
<1>6. Shown(c)'
  <2>1. CASE Opens(c) \/ Rejects(c) \/ BadDeliveryJson(c)
    <3>1. ForgetQuery(c) /\ pc'[c] # "status"
      BY <2>1 DEF Opens, Rejects, BadDeliveryJson, Raise, End, InterfacesTypeOK,
                  ClientTypeOK
    <3> QED
      BY <1>1, <3>1, Forgotten
  <2>2. CASE AskStatus(c)
    <3>1. PICK id \in KnownIds(c) : SendQuery(c, id, "all", QueriedFor(c))
      BY <2>2 DEF AskStatus
    <3> QED
      BY <1>1, <3>1, Sent
  <2>3. CASE AskList(c)
    <3>1. PICK timeframe \in Timeframe : SendQuery(c, NoId, timeframe, QueriedFor(c))
      BY <2>3 DEF AskList
    <3>2. pc'[c] # "status"
      BY <2>3 DEF AskList, InterfacesTypeOK, ClientTypeOK
    <3> QED
      BY <1>1, <3>1, <3>2, Sent
  <2>4. CASE Answered(c)
    BY <2>4, AnswerShown DEF AllShown
  <2> QED
    BY <2>1, <2>2, <2>3, <2>4
<1> QED
  BY <1>1, <1>3, <1>5, <1>6, OneQueryMoves

\* Every step keeps what is shown right.
LEMMA AllShownStep ==
  InterfacesTypeOK /\ AllShown /\ [InterfacesNext]_interfaceVars => AllShown'
<1> SUFFICES ASSUME InterfacesTypeOK, AllShown, [InterfacesNext]_interfaceVars
             PROVE  AllShown'
  OBVIOUS
<1>1. CASE UNCHANGED <<deliveries, query, answer, pc, told>>
  BY <1>1, WaitsShown DEF Waits
<1>2. ASSUME NEW c \in Client, ClientNext(c) PROVE AllShown'
  <2>1. \/ Begin(c) \/ CoreRaises(c) \/ DryRunReturns(c) \/ Save(c) \/ SaveFails(c)
        \/ Kill(c) \/ QueryRaises(c) \/ CoreReturns(c) \/ PostRaises(c)
        \/ Opens(c) \/ Rejects(c) \/ AskStatus(c) \/ BadDeliveryJson(c)
        \/ AskList(c) \/ Answered(c)
    BY <1>2, SubmitSteps DEF ClientNext
  <2> QED
    BY <2>1, WaitingSteps, WaitsShown, RegisterShown, QuerySteps
<1> QED
  BY <1>1, <1>2 DEF InterfacesNext, Clock, Tick, interfaceVars, listingVars

\* The inductive invariant of the answers: each shows the deliveries its query
\* selected, each once and in the order of get_deliveries.
THEOREM ListingRight == InterfacesSpec => []AllShown
<1>1. InterfacesTypeOK /\ AllShown /\ [InterfacesNext]_interfaceVars => AllShown'
  BY AllShownStep
<1> QED
  BY <1>1, AllShownInit, InterfacesTypeCorrect, PTL DEF InterfacesSpec

\* Whatever the clocks show and whenever the answer comes, the deliveries of
\* an answer are in the order in which the clients began them.
THEOREM AnswersInOrder == InterfacesSpec => []ListedInOrder
<1>1. AllShown => ListedInOrder
  BY DEF AllShown, Shown, OrderRight, ListedInOrder
<1> QED
  BY <1>1, ListingRight, PTL

\* No delivery of the timeframe is missing from an answer, and none is older.
THEOREM TimeframesKept == InterfacesSpec => []TimeframeKept
<1>1. AllShown => TimeframeKept
  BY DEF AllShown, Shown, TimeframeRight, Within, TimeframeKept
<1> QED
  BY <1>1, ListingRight, PTL

\* A delivery that a client has registered is found when it asks for it.
THEOREM DeliveriesFound == InterfacesSpec => []FoundAgain
<1>1. AllShown => FoundAgain
  BY DEF AllShown, Shown, FoundRight, FoundAgain
<1> QED
  BY <1>1, ListingRight, PTL
=============================================================================

-------------------------- MODULE MarketData_proofs --------------------------
(****************************************************************************)
(* Proofs about the two ends of the market data: Subscriptions, for any     *)
(* objects and any number of subscriptions and publications, and OrderLog,  *)
(* for any prices, depth, interval and volumes.                             *)
(*                                                                          *)
(* LinksInv and CalledOnceInOrder are inductive; that nobody loses a        *)
(* subscription follows from LinksInv.  The invariant of the reader of the  *)
(* order log says what it will know once it has read the records that are   *)
(* written: it is kept because a record read as a difference is the record  *)
(* that was written, and because the best levels of a book that is not      *)
(* crossed are those that have few enough others before them.               *)
(****************************************************************************)
EXTENDS Subscriptions, OrderLog, TLAPS, FiniteSetTheorems, SequenceTheorems

-----------------------------------------------------------------------------
(* Handlers *)

\* The handlers of some objects are named by ids that were given out.
LEMMA HandlersType ==
  ASSUME TypeOK, NEW S \in SUBSET Objects
  PROVE  /\ Handlers(S) \subseteq 1..MaxId
         /\ \A h : h \in Handlers(S) <=> h # 0 /\ \E o \in S : obj[o].handler = h
<1>1. \A h : h \in Handlers(S) <=> h # 0 /\ \E o \in S : obj[o].handler = h
  BY DEF Handlers
<1>2. \A o \in S : obj[o].handler \in 0..MaxId
  BY DEF TypeOK
<1> QED BY <1>1, <1>2, MaxIdAssumption

\* A publication runs over a sequence of some of the handlers.
LEMMA ByIdType ==
  ASSUME NEW S \in SUBSET (1..MaxId), NEW q \in ById(S)
  PROVE  q \in Seq(1..MaxId)
<1>1. IsFiniteSet(S)
  <2>1. MaxId \in Int /\ 1 \in Int
    BY MaxIdAssumption
  <2>2. IsFiniteSet(1..MaxId)
    BY <2>1, FS_Interval
  <2> QED BY <2>2, FS_Subset
<1>2. Cardinality(S) \in Nat
  BY <1>1, FS_CardinalityType
<1>3. q \in [1..Cardinality(S) -> S]
  BY DEF ById
<1> DEFINE n == Cardinality(S)
<1>4. q \in Seq(S)
  <2> HIDE DEF n
  <2> SUFFICES ASSUME n \in Nat, q \in [1..n -> S] PROVE q \in Seq(S)
    BY <1>2, <1>3 DEF n
  <2> QED OBVIOUS
<1> QED BY <1>4, SeqMonotonic

-----------------------------------------------------------------------------
(* Who is subscribed after each operation *)

\* Of the objects in the service only o has the id of o.
LEMMA OnlyOne ==
  ASSUME LinksInv, NEW o \in Objects
  PROVE  Without(o) = set \ {o}
<1>1. CASE obj[o].service
  <2>1. o \in set
    BY <1>1 DEF LinksInv, LinksAgree
  <2>2. \A p \in set : obj[p].id # obj[o].id <=> p # o
    BY <2>1 DEF LinksInv, LinksAgree
  <2>3. Erased(o) = set \ {o}
    BY <2>2 DEF Erased
  <2> QED BY <1>1, <2>3 DEF Without
<1>2. CASE ~obj[o].service
  <2>1. o \notin set
    BY <1>2 DEF LinksInv, LinksAgree
  <2> QED BY <1>2, <2>1 DEF Without
<1> QED BY <1>1, <1>2

\* What an object may be
Object == [service : BOOLEAN, id : 0..MaxId, removed : BOOLEAN, handler : 0..MaxId]

\* An object that is removed keeps its id, and loses what it had in the service.
LEMMA RemovedObject ==
  ASSUME TypeOK, NEW o \in Objects
  PROVE  /\ Removed(o) \in Object /\ [Removed(o) EXCEPT !.handler = 0] \in Object
         /\ ~[Removed(o) EXCEPT !.handler = 0].service
         /\ [Removed(o) EXCEPT !.handler = 0].id = obj[o].id
         /\ [Removed(o) EXCEPT !.handler = 0].handler = 0
<1>1. obj[o] \in Object
  BY DEF TypeOK, Object
<1>2. Removed(o) \in Object /\ ~Removed(o).service /\ Removed(o).id = obj[o].id
  BY <1>1 DEF Removed, Object
<1> QED BY <1>2, MaxIdAssumption DEF Object

\* A change of the objects that leaves the links right
LEMMA LinksStep ==
  ASSUME LinksInv, obj' \in [Objects -> [service : BOOLEAN, id : 0..MaxId, removed : BOOLEAN,
                                         handler : 0..MaxId]],
         set' \subseteq Objects, lastId' \in 0..MaxId,
         LinksAgree', Kept, ended' \subseteq 1..MaxId
  PROVE  LinksInv'
  BY DEF LinksInv, TypeOK, Kept

LEMMA EndsType ==
  ASSUME LinksInv, NEW o \in Objects, Ends(o)
  PROVE  ended' \subseteq 1..MaxId
<1>1. obj[o].service => obj[o].handler \in 1..MaxId
  BY MaxIdAssumption DEF LinksInv, LinksAgree, TypeOK
<1> QED BY <1>1 DEF Ends, LinksInv, TypeOK

LEMMA SubscribeLinks ==
  ASSUME LinksInv, NEW o \in Objects, Subscribe(o)
  PROVE  LinksInv'
<1> USE MaxIdAssumption
<1>1. set' = set \cup {o} /\ lastId' = lastId + 1 /\ lastId' \in 1..MaxId
  BY OnlyOne DEF Subscribe, LinksInv, TypeOK
<1>2. \A p \in Objects : obj'[p] = IF p = o THEN [service |-> TRUE, id |-> lastId + 1,
                                                  removed |-> FALSE, handler |-> lastId + 1]
                                   ELSE obj[p]
  BY DEF Subscribe, LinksInv, TypeOK
<1>3. obj' \in [Objects -> [service : BOOLEAN, id : 0..MaxId, removed : BOOLEAN,
                            handler : 0..MaxId]]
  <2>1. [service |-> TRUE, id |-> lastId + 1, removed |-> FALSE, handler |-> lastId + 1]
          \in [service : BOOLEAN, id : 0..MaxId, removed : BOOLEAN, handler : 0..MaxId]
    BY <1>1
  <2> QED BY <2>1 DEF Subscribe, LinksInv, TypeOK
<1>4. \A p \in Objects : obj[p].id \in 0..lastId /\ obj[p].handler \in 0..lastId
  BY DEF LinksInv, LinksAgree, TypeOK
<1>5. LinksAgree'
  <2>1. lastId \in Nat /\ obj'[o].service /\ ~obj'[o].removed
        /\ obj'[o].id = lastId + 1 /\ obj'[o].handler = lastId + 1
    BY <1>2 DEF LinksInv, TypeOK
  <2>2. \A p \in Objects : p # o => obj'[p] = obj[p] /\ (p \in set' <=> p \in set)
    BY <1>1, <1>2
  <2>3. \A p \in Objects : obj[p].service <=> p \in set
    BY DEF LinksInv, LinksAgree
  <2>4. \A p \in Objects : /\ obj'[p].service <=> p \in set'
                           /\ obj'[p].id <= lastId' /\ obj'[p].handler <= lastId'
    <3> SUFFICES ASSUME NEW p \in Objects
                 PROVE  /\ obj'[p].service <=> p \in set'
                        /\ obj'[p].id <= lastId' /\ obj'[p].handler <= lastId'
      OBVIOUS
    <3>1. CASE p = o
      BY <1>1, <2>1, <3>1
    <3>2. CASE p # o
      <4>1. obj[p].id \in 0..lastId /\ obj[p].handler \in 0..lastId
        BY <1>4
      <4> QED BY <1>1, <2>1, <2>2, <2>3, <3>2, <4>1
    <3> QED BY <3>1, <3>2
  <2>5. \A p \in Objects : p # o => obj'[p].id # lastId + 1 /\ obj'[p].handler # lastId + 1
    BY <1>4, <2>1, <2>2
  <2>6. \A p, q \in Objects : obj'[p].handler = obj'[q].handler /\ obj'[p].handler # 0 => p = q
    BY <2>1, <2>2, <2>5 DEF LinksInv, LinksAgree
  <2>7. \A p \in set' : obj'[p].id > 0 /\ obj'[p].handler = obj'[p].id /\ ~obj'[p].removed
    BY <1>1, <2>1, <2>2 DEF LinksInv, LinksAgree, TypeOK
  <2>8. \A p, q \in set' : obj'[p].id = obj'[q].id => p = q
    BY <1>1, <2>1, <2>2, <2>5 DEF LinksInv, LinksAgree, TypeOK
  <2> QED BY <2>4, <2>6, <2>7, <2>8 DEF LinksAgree
<1> QED BY <1>1, <1>3, <1>5, EndsType, LinksStep DEF Subscribe, LinksInv, TypeOK

LEMMA UnsubscribeLinks ==
  ASSUME LinksInv, NEW o \in Objects, Unsubscribe(o)
  PROVE  LinksInv'
<1> USE MaxIdAssumption
<1>1. set' = set \ {o} /\ lastId' = lastId
  BY OnlyOne DEF Unsubscribe
<1>2. \A p \in Objects : obj'[p] = IF p = o THEN [Removed(o) EXCEPT !.handler = 0] ELSE obj[p]
  BY DEF Unsubscribe, LinksInv, TypeOK
<1>3. obj' \in [Objects -> [service : BOOLEAN, id : 0..MaxId, removed : BOOLEAN,
                            handler : 0..MaxId]]
  BY RemovedObject DEF Unsubscribe, Object, LinksInv, TypeOK
<1>4. /\ ~obj'[o].service /\ obj'[o].handler = 0 /\ obj'[o].id = obj[o].id
  BY <1>2, RemovedObject DEF LinksInv, TypeOK
<1>5. LinksAgree'
  <2>1. \A p \in Objects : p # o => obj'[p] = obj[p] /\ (p \in set' <=> p \in set)
    BY <1>1, <1>2
  <2>2. \A p \in Objects : /\ obj'[p].service <=> p \in set'
                           /\ obj'[p].id <= lastId' /\ obj'[p].handler <= lastId'
    BY <1>1, <1>4, <2>1 DEF LinksInv, LinksAgree, TypeOK
  <2>3. \A p, q \in Objects : obj'[p].handler = obj'[q].handler /\ obj'[p].handler # 0 => p = q
    BY <1>4, <2>1 DEF LinksInv, LinksAgree
  <2>4. \A p \in set' : p \in set /\ p \in Objects /\ obj'[p] = obj[p]
    BY <1>1, <2>1 DEF LinksInv, TypeOK
  <2> QED BY <2>2, <2>3, <2>4 DEF LinksInv, LinksAgree
<1> QED BY <1>1, <1>3, <1>5, EndsType, LinksStep DEF Unsubscribe, LinksInv, TypeOK

LEMMA MoveLinks ==
  ASSUME LinksInv, NEW o \in Objects, NEW p \in Objects, Move(o, p)
  PROVE  LinksInv'
<1> USE MaxIdAssumption
<1>1. /\ set' = IF obj[p].service THEN (set \ {o, p}) \cup {o} ELSE set \ {o}
      /\ lastId' = lastId /\ o # p
  BY OnlyOne DEF Move
<1>2. \A r \in Objects : obj'[r] = IF r = o THEN [service |-> obj[p].service, id |-> obj[p].id,
                                                  removed |-> obj[p].removed, handler |-> obj[p].handler]
                                   ELSE IF r = p THEN [Removed(p) EXCEPT !.handler = 0] ELSE obj[r]
  BY <1>1 DEF Move, LinksInv, TypeOK
<1>3. obj' \in [Objects -> [service : BOOLEAN, id : 0..MaxId, removed : BOOLEAN,
                            handler : 0..MaxId]]
  <2>1. obj[p] \in Object
    BY DEF LinksInv, TypeOK, Object
  <2> QED BY <2>1, RemovedObject DEF Move, Object, LinksInv, TypeOK
<1>4. /\ ~obj'[p].service /\ obj'[p].handler = 0 /\ obj'[p].id = obj[p].id
  BY <1>1, <1>2, RemovedObject DEF LinksInv, TypeOK
<1>5. LinksAgree'
  <2>1. \A r \in Objects : r # o /\ r # p => obj'[r] = obj[r] /\ (r \in set' <=> r \in set)
    BY <1>1, <1>2
  <2>2. /\ obj'[o].service = obj[p].service /\ obj'[o].id = obj[p].id
        /\ obj'[o].removed = obj[p].removed /\ obj'[o].handler = obj[p].handler
    BY <1>2
  <2>3. p \notin set' /\ (o \in set' <=> obj[p].service)
    BY <1>1 DEF LinksInv, LinksAgree
  <2>4. \A r \in Objects : /\ obj'[r].service <=> r \in set'
                           /\ obj'[r].id <= lastId' /\ obj'[r].handler <= lastId'
    BY <1>1, <1>4, <2>1, <2>2, <2>3 DEF LinksInv, LinksAgree, TypeOK
  <2>5. \A r, q \in Objects : obj'[r].handler = obj'[q].handler /\ obj'[r].handler # 0 => r = q
    <3>1. \A r, q \in Objects : obj[r].handler = obj[q].handler /\ obj[r].handler # 0 => r = q
      BY DEF LinksInv, LinksAgree
    <3> QED BY <1>4, <2>1, <2>2, <3>1
  <2>6. \A r \in set' : /\ r \in Objects /\ r # p
                        /\ r # o => obj'[r] = obj[r] /\ r \in set
                        /\ r = o => p \in set
    BY <1>1, <2>1, <2>3 DEF LinksInv, LinksAgree, TypeOK
  <2> DEFINE from(r) == IF r = o THEN p ELSE r
  <2>7. \A r \in set' : /\ from(r) \in set
                        /\ obj'[r].id = obj[from(r)].id /\ obj'[r].handler = obj[from(r)].handler
                        /\ obj'[r].removed = obj[from(r)].removed
    <3> SUFFICES ASSUME NEW r \in set'
                 PROVE  /\ from(r) \in set
                        /\ obj'[r].id = obj[from(r)].id /\ obj'[r].handler = obj[from(r)].handler
                        /\ obj'[r].removed = obj[from(r)].removed
      OBVIOUS
    <3>1. CASE r = o
      <4>1. from(r) = p
        BY <3>1
      <4> QED BY <2>2, <2>6, <3>1, <4>1
    <3>2. CASE r # o
      <4>1. from(r) = r
        BY <3>2
      <4> QED BY <2>6, <3>2, <4>1
    <3> QED BY <3>1, <3>2
  <2>8. \A r, q \in set' : from(r) = from(q) => r = q
    <3> SUFFICES ASSUME NEW r \in set', NEW q \in set', from(r) = from(q) PROVE r = q
      OBVIOUS
    <3>1. r # p /\ q # p
      BY <2>6
    <3> QED BY <3>1
  <2> HIDE DEF from
  <2>9. \A r \in set' : obj'[r].id > 0 /\ obj'[r].handler = obj'[r].id /\ ~obj'[r].removed
    BY <2>7 DEF LinksInv, LinksAgree
  <2>10. \A r, q \in set' : obj'[r].id = obj'[q].id => r = q
    BY <2>7, <2>8 DEF LinksInv, LinksAgree
  <2> QED BY <2>4, <2>5, <2>9, <2>10 DEF LinksAgree
<1> QED BY <1>1, <1>3, <1>5, EndsType, LinksStep DEF Move, LinksInv, TypeOK

LEMMA ClearLinks ==
  ASSUME LinksInv, Clear
  PROVE  LinksInv'
<1> USE MaxIdAssumption
<1>1. set' = {} /\ lastId' = lastId
  BY DEF Clear
<1>2. \A p \in Objects : obj'[p] = IF p \in set THEN [obj[p] EXCEPT !.service = FALSE, !.removed = TRUE]
                                   ELSE obj[p]
  BY DEF Clear
<1>3. obj' \in [Objects -> [service : BOOLEAN, id : 0..MaxId, removed : BOOLEAN,
                            handler : 0..MaxId]]
  BY DEF Clear, LinksInv, TypeOK
<1>4. \A p \in Objects : ~obj'[p].service /\ obj'[p].handler = obj[p].handler /\ obj'[p].id = obj[p].id
  BY <1>2 DEF LinksInv, LinksAgree, TypeOK
<1>5. LinksAgree'
  BY <1>1, <1>4 DEF LinksInv, LinksAgree, TypeOK
<1>6. ended' \subseteq 1..MaxId
  BY HandlersType DEF Clear, LinksInv, TypeOK
<1> QED BY <1>1, <1>3, <1>5, <1>6, LinksStep DEF Clear, LinksInv, TypeOK

LEMMA PublicationLinks ==
  ASSUME LinksInv, Publish \/ Call \/ Return
  PROVE  LinksInv'
<1>1. LinksAgree'
  BY DEF LinksInv, LinksAgree, Publish, Call, Return
<1>2. CASE Publish
  <2>1. Handlers(set) \subseteq 1..MaxId
    BY HandlersType DEF LinksInv, TypeOK
  <2>2. left' \in Seq(1..MaxId)
    BY <1>2, <2>1, ByIdType DEF Publish
  <2>3. publications' \in 0..MaxPublications
    BY <1>2, MaxIdAssumption DEF Publish, LinksInv, TypeOK
  <2>4. called' \in Seq(1..MaxId)
    BY <1>2 DEF Publish
  <2> QED BY <1>1, <1>2, <2>1, <2>2, <2>3, <2>4 DEF Publish, LinksInv, TypeOK
<1>3. CASE Call
  <2>1. left \in Seq(1..MaxId) /\ left # <<>> /\ called \in Seq(1..MaxId)
    BY <1>3 DEF Call, LinksInv, TypeOK
  <2>2. Head(left) \in 1..MaxId /\ Tail(left) \in Seq(1..MaxId)
    BY <2>1, HeadTailProperties
  <2>3. Append(called, Head(left)) \in Seq(1..MaxId)
    BY <2>1, <2>2, AppendProperties
  <2> QED BY <1>1, <1>3, <2>2, <2>3 DEF Call, Remaining, LinksInv, TypeOK
<1>4. CASE Return
  <2>1. called' \in Seq(1..MaxId)
    BY <1>4 DEF Return
  <2> QED BY <1>1, <1>4, <2>1 DEF Return, LinksInv, TypeOK
<1> QED BY <1>2, <1>3, <1>4

LEMMA InitLinks == Init => LinksInv
<1> SUFFICES ASSUME Init PROVE LinksInv
  OBVIOUS
<1>1. left \in Seq(1..MaxId) /\ called \in Seq(1..MaxId)
  BY DEF Init
<1>2. TypeOK
  <2>1. [service |-> FALSE, id |-> 0, removed |-> FALSE, handler |-> 0]
          \in [service : BOOLEAN, id : 0..MaxId, removed : BOOLEAN, handler : 0..MaxId]
    BY MaxIdAssumption
  <2>2. obj \in [Objects -> [service : BOOLEAN, id : 0..MaxId, removed : BOOLEAN, handler : 0..MaxId]]
    BY <2>1 DEF Init
  <2>3. lastId \in 0..MaxId /\ publications \in 0..MaxPublications
    BY MaxIdAssumption DEF Init
  <2> QED BY <1>1, <2>2, <2>3 DEF Init, TypeOK
<1>3. LinksAgree
  BY DEF Init, LinksAgree
<1> QED BY <1>2, <1>3 DEF LinksInv

LEMMA NextLinks == LinksInv /\ [Next]_vars => LinksInv'
<1> SUFFICES ASSUME LinksInv, [Next]_vars PROVE LinksInv'
  OBVIOUS
<1>1. CASE UNCHANGED vars
  BY <1>1 DEF vars, LinksInv, LinksAgree, TypeOK
<1>2. CASE Publish \/ Call \/ Return
  BY <1>2, PublicationLinks
<1> QED BY <1>1, <1>2, SubscribeLinks, UnsubscribeLinks, MoveLinks, ClearLinks DEF Next

\* Objects and service agree about who is subscribed, whatever was moved over what and
\* in whatever order (subscription.hpp).
THEOREM LinksInvCorrect == Spec => []LinksInv
  BY InitLinks, NextLinks, PTL DEF Spec

-----------------------------------------------------------------------------
(* Nobody loses a subscription *)

LEMMA StaysStep ==
  ASSUME LinksInv, LinksInv', [Next]_vars, NEW h \in Handlers(set)
  PROVE  \/ h \in Handlers(set)'
         \/ Clear
         \/ \A o \in set : obj[o].handler = h => obj'[o].handler # h
<1>1. PICK o \in set : obj[o].handler = h /\ h # 0
  BY HandlersType DEF LinksInv, TypeOK
<1>2. o \in Objects /\ \A p \in Objects : obj[p].handler = h => p = o
  BY <1>1 DEF LinksInv, LinksAgree, TypeOK
<1>3. ASSUME NEW p \in set', obj'[p].handler = h PROVE h \in Handlers(set)'
  BY <1>1, <1>3 DEF Handlers
<1>4. CASE UNCHANGED <<obj, set>>
  BY <1>1, <1>3, <1>4
<1>5. ASSUME NEW r \in Objects, Subscribe(r) \/ Unsubscribe(r)
      PROVE  h \in Handlers(set)' \/ obj'[o].handler # h
  <2>1. CASE r # o
    <3>1. obj'[o] = obj[o]
      BY <1>2, <1>5, <2>1 DEF Subscribe, Unsubscribe, LinksInv, TypeOK
    <3>2. o \in set'
      BY <1>1, <1>5, <2>1, OnlyOne DEF Subscribe, Unsubscribe
    <3> QED BY <1>1, <1>3, <3>1, <3>2
  <2>2. CASE r = o
    <3>1. obj'[o].handler \in {0, lastId + 1}
      BY <1>2, <1>5, <2>2 DEF Subscribe, Unsubscribe, Removed, LinksInv, TypeOK
    <3>2. h \in 1..lastId /\ lastId \in Nat
      BY <1>1, <1>2, MaxIdAssumption DEF LinksInv, LinksAgree, TypeOK
    <3> QED BY <3>1, <3>2
  <2> QED BY <2>1, <2>2
<1>6. ASSUME NEW r \in Objects, NEW p \in Objects, Move(r, p)
      PROVE  h \in Handlers(set)' \/ obj'[o].handler # h
  <2>1. /\ r # p
        /\ set' = IF obj[p].service THEN (set \ {r, p}) \cup {r} ELSE set \ {r}
    BY <1>6, OnlyOne DEF Move
  <2>2. CASE o = p
    <3>1. obj'[r].handler = h
      BY <1>1, <1>2, <1>6, <2>1, <2>2 DEF Move, LinksInv, TypeOK
    <3>2. r \in set'
      BY <1>1, <1>2, <2>1, <2>2 DEF LinksInv, LinksAgree
    <3> QED BY <1>3, <3>1, <3>2
  <2>3. CASE o = r
    <3>1. obj'[o].handler = obj[p].handler
      BY <1>2, <1>6, <2>1, <2>3 DEF Move, LinksInv, TypeOK
    <3> QED BY <1>2, <2>1, <2>3, <3>1
  <2>4. CASE o # p /\ o # r
    <3>1. obj'[o] = obj[o]
      BY <1>2, <1>6, <2>4 DEF Move, LinksInv, TypeOK
    <3>2. o \in set'
      BY <1>1, <2>1, <2>4
    <3> QED BY <1>1, <1>3, <3>1, <3>2
  <2> QED BY <2>2, <2>3, <2>4
<1>7. (h \in Handlers(set)' \/ obj'[o].handler # h) =>
        \/ h \in Handlers(set)'
        \/ \A p \in set : obj[p].handler = h => obj'[p].handler # h
  BY <1>2 DEF LinksInv, TypeOK
<1>8. CASE Publish \/ Call \/ Return \/ UNCHANGED vars
  BY <1>4, <1>8 DEF Publish, Call, Return, vars
<1> QED BY <1>5, <1>6, <1>7, <1>8 DEF Next

\* Who is subscribed stays so until the service is cleared or the holder gives it up
\* (subscription.hpp: operator= and the destructor).
THEOREM StaysSubscribedCorrect == Spec => StaysSubscribed
<1>1. LinksInv /\ LinksInv' /\ [Next]_vars =>
        [\A h \in Handlers(set) :
           \/ h \in Handlers(set)'
           \/ Clear
           \/ \A o \in set : obj[o].handler = h => obj'[o].handler # h]_vars
  BY StaysStep
<1> QED BY <1>1, LinksInvCorrect, PTL DEF Spec, StaysSubscribed

-----------------------------------------------------------------------------
(* Publications *)

LEMMA InitCalled == Init => CalledOnceInOrder
  BY DEF Init, CalledOnceInOrder

\* What is subscribed and no longer so has ended.
LEMMA GoneEnded ==
  ASSUME LinksInv, LinksInv', publishing, [Next]_vars, ~Publish, ~Return,
         NEW h \in Handlers(set)
  PROVE  h \in Handlers(set)' \/ h \in ended'
<1>1. PICK o \in set : obj[o].handler = h /\ h # 0
  BY HandlersType DEF LinksInv, TypeOK
<1>2. o \in Objects /\ obj[o].service
  BY <1>1 DEF LinksInv, LinksAgree, TypeOK
<1>3. CASE \E p \in Objects : p = o /\ Ends(p)
  BY <1>1, <1>2, <1>3 DEF Ends
<1>4. CASE Clear
  BY <1>1, <1>4 DEF Clear, Handlers
<1>5. ASSUME NEW p \in set', obj'[p].handler = h PROVE h \in Handlers(set)'
  BY <1>1, <1>5 DEF Handlers
<1>6. ASSUME NEW r \in Objects, r # o, Subscribe(r) \/ Unsubscribe(r)
      PROVE  h \in Handlers(set)'
  <2>1. obj'[o] = obj[o]
    BY <1>2, <1>6 DEF Subscribe, Unsubscribe, LinksInv, TypeOK
  <2>2. o \in set'
    BY <1>1, <1>6, OnlyOne DEF Subscribe, Unsubscribe
  <2> QED BY <1>1, <1>5, <2>1, <2>2
<1>7. ASSUME NEW r \in Objects, NEW p \in Objects, r # o, Move(r, p)
      PROVE  h \in Handlers(set)'
  <2>1. /\ r # p
        /\ set' = IF obj[p].service THEN (set \ {r, p}) \cup {r} ELSE set \ {r}
    BY <1>7, OnlyOne DEF Move
  <2>2. CASE o = p
    <3>1. obj'[r].handler = h
      BY <1>1, <1>2, <1>7, <2>1, <2>2 DEF Move, LinksInv, TypeOK
    <3>2. r \in set'
      BY <1>2, <2>1, <2>2
    <3> QED BY <1>5, <3>1, <3>2
  <2>3. CASE o # p
    <3>1. obj'[o] = obj[o]
      BY <1>2, <1>7, <2>3 DEF Move, LinksInv, TypeOK
    <3>2. o \in set'
      BY <1>1, <1>7, <2>1, <2>3
    <3> QED BY <1>1, <1>5, <3>1, <3>2
  <2> QED BY <2>2, <2>3
<1>8. CASE UNCHANGED <<obj, set>>
  BY <1>1, <1>5, <1>8
<1>9. \A r, p \in Objects : Subscribe(r) \/ Unsubscribe(r) \/ Move(r, p) => Ends(r)
  BY DEF Subscribe, Unsubscribe, Move
<1> QED BY <1>3, <1>4, <1>6, <1>7, <1>8, <1>9 DEF Next, Call, vars

LEMMA NextCalled ==
  LinksInv /\ LinksInv' /\ CalledOnceInOrder /\ [Next]_vars => CalledOnceInOrder'
<1> SUFFICES ASSUME LinksInv, LinksInv', CalledOnceInOrder, [Next]_vars, publishing'
             PROVE  /\ called' \o left' \in ById(began')
                    /\ \A h \in began' : h \in Handlers(set)' \/ h \in ended'
  BY DEF CalledOnceInOrder, ById
<1>1. CASE Publish
  <2>1. called' = <<>> /\ left' \in ById(began') /\ began' = Handlers(set)'
    BY <1>1 DEF Publish, Handlers
  <2>2. left' \in Seq(1..MaxId)
    BY DEF LinksInv, TypeOK
  <2>3. called' \o left' = left'
    BY <2>1, <2>2, ConcatEmptySeq
  <2> QED BY <2>1, <2>3
<1>2. CASE ~Publish
  <2>1. ~Return /\ publishing
    BY <1>2 DEF Return, Next, Subscribe, Unsubscribe, Move, Clear, Call, Kept, vars
  <2>2. began' = began /\ ended \subseteq ended'
    BY <1>2, <2>1 DEF Next, Subscribe, Unsubscribe, Move, Clear, Call, Kept, Ends, vars
  <2>3. called' \o left' = called \o left
    <3>1. CASE Call
      <4>1. /\ left \in Seq(1..MaxId) /\ left # <<>> /\ called \in Seq(1..MaxId)
            /\ called' = Append(called, Head(left)) /\ left' = Tail(left)
        BY <3>1 DEF Call, Remaining, LinksInv, TypeOK
      <4> QED BY <4>1
    <3>2. CASE ~Call
      <4>1. called' = called /\ left' = left
        BY <1>2, <2>1, <3>2 DEF Next, Subscribe, Unsubscribe, Move, Clear, Kept, vars
      <4> QED BY <4>1
    <3> QED BY <3>1, <3>2
  <2>4. called \o left \in ById(began) /\ \A h \in began : h \in Handlers(set) \/ h \in ended
    BY <2>1 DEF CalledOnceInOrder
  <2>5. called' \o left' \in ById(began')
    BY <2>2, <2>3, <2>4
  <2>6. ASSUME NEW h \in began' PROVE h \in Handlers(set)' \/ h \in ended'
    BY <1>2, <2>1, <2>2, <2>4, GoneEnded
  <2> QED BY <2>5, <2>6
<1> QED BY <1>1, <1>2

\* A publication calls each handler that stays subscribed once and in order, none that
\* was added meanwhile, none that had ended before (subscription.hpp: publish).
THEOREM CalledOnceInOrderCorrect == Spec => []CalledOnceInOrder
  BY InitCalled, NextCalled, LinksInvCorrect, PTL DEF Spec

-----------------------------------------------------------------------------
(* The reader of the order log *)

\* The values a record stands for when those of the record before it are l
From(l, r) ==
    [price |-> l.price + r.price,
     amount |-> IF r.amount > 0 THEN r.amount ELSE l.amount,
     deal |-> l.deal + r.deal,
     paid |-> l.paid + r.paid,
     time |-> l.time + r.gap]

Skipped(r) == r.dir = "None" \/ ~r.system

\* What of the reader a record changes even within a transaction, and how
Reader == [last |-> last, raw |-> raw, pushed |-> pushedDeal, ticks |-> ticks]

DealIn(l, r) == IF r.deal > 0 \/ r.kind = "Fill" THEN From(l, r).deal ELSE 0

After(s, r) ==
    LET l == From(s.last, r) IN
    IF Skipped(r)
    THEN [s EXCEPT !.last = l, !.raw = IF r.kind = "Session" THEN Empty ELSE @]
    ELSE [last |-> l,
          raw |-> [s.raw EXCEPT ![l.price] = @ + Signed(r) * l.amount],
          pushed |-> IF s.pushed < DealIn(s.last, r) THEN DealIn(s.last, r) ELSE s.pushed,
          ticks |-> IF s.pushed < DealIn(s.last, r)
                    THEN Append(s.ticks, [id |-> DealIn(s.last, r), price |-> l.paid,
                                          volume |-> l.amount])
                    ELSE s.ticks]

Raw == [Prices -> -MaxLevel - MaxVolume..MaxLevel + MaxVolume]
State == [last : Values, raw : Raw, pushed : 0..MaxDeals, ticks : Seq(Tick)]

\* The reader knows all that the exchange has written.
Caught(s) ==
    /\ s \in State
    /\ s.last = pen /\ s.pushed <= pen.deal
    /\ s.raw = With(book, order)
    /\ s.ticks = traded

\* Once it has read the records it has still to read, it knows all.
Reading ==
    /\ Len(log) \in 0..2
    /\ Len(log) = 0 => Caught(Reader)
    /\ Len(log) = 1 => Caught(After(Reader, log[1]))
    /\ Len(log) = 2 => /\ After(Reader, log[1]) \in State
                       /\ Caught(After(After(Reader, log[1]), log[2]))
                       /\ ~log[1].end

\* The last record to be read ends a transaction of the book.
Settling ==
    /\ log # <<>>
    /\ log[Len(log)].end /\ ~Skipped(log[Len(log)])

\* Until it has read that record, the reader's quotes are those of the
\* transaction before.
Quoting ==
    IF Settling THEN order = NoOrder /\ settled = [time |-> pen.time, book |-> book]
    ELSE /\ TopOf(quotes, settled.book)
         /\ shown = quotes \/ quotes = Empty \/ settled.time - lastPush <= Interval

\* No bid of b stands at or above an ask.
Apart(b) == \A p, q \in Prices : b[p] > 0 /\ b[q] < 0 => q < p

Diff == [kind : {"Add", "Fill", "Cancel", "Session"}, dir : Dirs \cup {"None"}, system : BOOLEAN,
         price : Int, amount : Nat, deal : Int, paid : Int, gap : Nat, end : BOOLEAN]

ReaderInv == FeedOK /\ log \in Seq(Diff) /\ Reading /\ Quoting /\ Apart(book) /\ ShownSound

-----------------------------------------------------------------------------
(* The best levels of a side *)

LEMMA Numbers ==
  ASSUME NEW n \in Nat
  PROVE  IsFiniteSet(0..(n - 1)) /\ Cardinality(0..(n - 1)) = n
<1>1. 0 \in Int /\ n - 1 \in Int /\ (0 > n - 1 => n = 0) /\ (n - 1) - 0 + 1 = n
    OBVIOUS
<1>2. /\ IsFiniteSet(0..(n - 1))
      /\ Cardinality(0..(n - 1)) = IF 0 > n - 1 THEN 0 ELSE (n - 1) - 0 + 1
    BY <1>1, FS_Interval
<1> QED BY <1>1, <1>2

\* R orders S, and near are those of S with less than n elements before them.
IsOrder(S, R) ==
    /\ \A p \in S : <<p, p>> \notin R
    /\ \A p, q, r \in S : <<p, q>> \in R /\ <<q, r>> \in R => <<p, r>> \in R
    /\ \A p, q \in S : p = q \/ <<p, q>> \in R \/ <<q, p>> \in R

Ahead(S, R, p) == {q \in S : <<q, p>> \in R}

AreFirst(S, R, n, near) ==
    near \in SUBSET S /\ \A p \in S : p \in near <=> Cardinality(Ahead(S, R, p)) < n

\* Rank of the elements of a finite set by an order on it: there is one for each
\* number below its size, so those ranked below n are n or all, they come before
\* all others, and one of them comes first.
LEMMA Ranks ==
  ASSUME NEW S, IsFiniteSet(S), NEW R,
         IsOrder(S, R),
         NEW n \in Nat \ {0}, NEW near, AreFirst(S, R, n, near)
  PROVE  /\ IsFiniteSet(near)
         /\ Cardinality(near) = IF n < Cardinality(S) THEN n ELSE Cardinality(S)
         /\ \A p \in near, x \in S \ near : <<p, x>> \in R
         /\ S # {} => \E p \in near : \A q \in S : q = p \/ <<p, q>> \in R
<1> USE DEF IsOrder, AreFirst
<1> DEFINE Below(p) == Ahead(S, R, p)
           size == Cardinality(S)
           rank == [p \in S |-> Cardinality(Below(p))]
<1>1. size \in Nat
    BY FS_CardinalityType
<1>2. \A p \in S : IsFiniteSet(Below(p)) /\ rank[p] \in 0..(size - 1)
  <2> TAKE p \in S
  <2>2. Below(p) \in SUBSET (S \ {p}) /\ Below(p) \in SUBSET S
      BY DEF Ahead
  <2> HIDE DEF Below
  <2>1. IsFiniteSet(Below(p)) /\ IsFiniteSet(S \ {p}) /\ Cardinality(S \ {p}) = size - 1
    <3>1. IsFiniteSet(Below(p))
        BY <2>2, FS_Subset
    <3>2. IsFiniteSet(S \ {p}) /\ Cardinality(S \ {p}) = size - 1
        BY FS_RemoveElement
    <3> QED BY <3>1, <3>2
  <2>3. Cardinality(Below(p)) <= size - 1
      BY <2>1, <2>2, FS_Subset
  <2>4. Cardinality(Below(p)) \in Nat
      BY <2>1, FS_CardinalityType
  <2> QED BY <1>1, <2>1, <2>3, <2>4
<1>3. \A p, q \in S : <<q, p>> \in R => rank[q] < rank[p]
  <2> SUFFICES ASSUME NEW p \in S, NEW q \in S, <<q, p>> \in R PROVE rank[q] < rank[p]
      OBVIOUS
  <2>1. Below(q) \in SUBSET Below(p) /\ q \in Below(p) /\ q \notin Below(q)
      BY DEF Ahead
  <2> HIDE DEF Below
  <2>2. Cardinality(Below(q)) <= Cardinality(Below(p))
        /\ Cardinality(Below(q)) # Cardinality(Below(p))
    <3>1. IsFiniteSet(Below(p))
        BY <1>2
    <3> QED BY <2>1, <3>1, FS_Subset
  <2>3. rank[q] \in Int /\ rank[p] \in Int
      BY <1>2
  <2> QED BY <2>2, <2>3
<1> DEFINE m == IF n < size THEN n ELSE size
<1>4. rank \in Surjection(S, 0..(size - 1))
  <2>1. rank \in Injection(S, 0..(size - 1))
    <3> HIDE DEF rank
    <3>1. rank \in [S -> 0..(size - 1)]
      <4>1. rank = [p \in S |-> rank[p]]
          BY DEF rank
      <4> QED BY <1>2, <4>1
    <3>2. \A p, q \in S : rank[p] = rank[q] => p = q
      <4> SUFFICES ASSUME NEW p \in S, NEW q \in S, rank[p] = rank[q], p # q PROVE FALSE
          OBVIOUS
      <4>1. rank[p] < rank[q] \/ rank[q] < rank[p]
          BY <1>3
      <4>2. rank[p] \in 0..(size - 1) /\ rank[q] \in 0..(size - 1)
          BY <1>2
      <4> QED BY <4>1, <4>2
    <3> QED BY <3>1, <3>2 DEF Injection, IsInjective
  <2>2. IsFiniteSet(0..(size - 1)) /\ Cardinality(0..(size - 1)) = size
      BY <1>1, Numbers
  <2> QED BY <2>1, <2>2, FS_Injection
<1>5. \A k \in 0..(size - 1) : \E p \in S : rank[p] = k
    BY <1>4 DEF Surjection
<1>6. /\ \A p \in S : p \in near <=> rank[p] < n
      /\ \A p \in S : rank[p] \in Nat
    BY <1>1, <1>2
<1>7. IsFiniteSet(near)
    BY FS_Subset
<1> HIDE DEF rank, size
<1>8. Cardinality(near) = m
  <2> DEFINE f == [p \in near |-> rank[p]]
  <2>1. m \in Nat
      BY <1>1
  <2>2. f \in [near -> 0..(m - 1)]
      BY <1>1, <1>2, <1>6
  <2>3. \A p, q \in near : f[p] = f[q] => p = q
    <3> SUFFICES ASSUME NEW p \in near, NEW q \in near, rank[p] = rank[q], p # q PROVE FALSE
        OBVIOUS
    <3>1. p \in S /\ q \in S
        BY <1>6
    <3>2. rank[p] < rank[q] \/ rank[q] < rank[p]
        BY <1>3, <3>1
    <3>3. rank[p] \in Int /\ rank[q] \in Int
        BY <1>6, <3>1
    <3> QED BY <3>2, <3>3
  <2>4. \A k \in 0..(m - 1) : \E p \in near : f[p] = k
      BY <1>1, <1>5, <1>6
  <2>5. f \in Injection(near, 0..(m - 1)) /\ f \in Surjection(near, 0..(m - 1))
      BY <2>2, <2>3, <2>4 DEF Injection, IsInjective, Surjection
  <2> HIDE DEF m, f
  <2>6. IsFiniteSet(0..(m - 1)) /\ Cardinality(0..(m - 1)) = m
      BY <2>1, Numbers
  <2>7. Cardinality(near) = Cardinality(0..(m - 1))
      BY <2>5, <2>6, FS_Injection
  <2> QED BY <2>6, <2>7
<1>9. ASSUME NEW p \in near, NEW x \in S \ near PROVE <<p, x>> \in R
  <2>1. p \in S /\ x \in S /\ rank[p] < n /\ ~(rank[x] < n) /\ rank[p] \in Int /\ rank[x] \in Int
      BY <1>6
  <2>2. p # x /\ ~(rank[x] < rank[p])
      BY <2>1
  <2> QED BY <1>3, <2>1, <2>2
<1>10. ASSUME S # {} PROVE \E p \in near : \A q \in S : q = p \/ <<p, q>> \in R
  <2>1. size > 0
      BY <1>1, <1>10, FS_EmptySet DEF size
  <2>2. PICK p \in S : rank[p] = 0
      BY <1>1, <1>5, <2>1
  <2>3. p \in near
      BY <1>6, <2>2
  <2>4. \A q \in S : <<q, p>> \notin R
      BY <1>3, <1>6, <2>2
  <2> QED BY <2>3, <2>4
<1> QED BY <1>7, <1>8, <1>9, <1>10 DEF size

Bids(b) == {p \in Prices : b[p] < 0}
Asks(b) == {p \in Prices : b[p] > 0}
NearBids(b) == {p \in Bids(b) : Cardinality({q \in Bids(b) : q > p}) < Depth}
NearAsks(b) == {p \in Asks(b) : Cardinality({q \in Asks(b) : q < p}) < Depth}

\* The bids shown are the highest ones, Depth of them or all.
LEMMA HighestBids ==
  ASSUME PricesAssumption, BoundsAssumption, NEW b
  PROVE  LET s == Bids(b)
             near == NearBids(b)
         IN  /\ Cardinality(near) = IF Depth < Cardinality(s) THEN Depth ELSE Cardinality(s)
             /\ \A p \in near, x \in s \ near : p > x
             /\ s # {} => \E p \in near : \A q \in s : p >= q
<1> DEFINE s == Bids(b)
           near == NearBids(b)
           R == {r \in s \X s : r[1] > r[2]}
<1>1. s \subseteq Nat /\ s \subseteq Prices
    BY DEF Bids, PricesAssumption
<1>2. IsFiniteSet(s)
    BY <1>1, FS_Subset DEF PricesAssumption
<1>3. \A p, q \in s : <<p, q>> \in R <=> p > q
    OBVIOUS
<1>4. AreFirst(s, R, Depth, near)
  <2>1. \A p \in s : Ahead(s, R, p) = {q \in s : q > p}
      BY <1>3 DEF Ahead
  <2>2. near \in SUBSET s /\ \A p \in s : p \in near <=> Cardinality({q \in s : q > p}) < Depth
      BY DEF NearBids
  <2> HIDE DEF R, s, near
  <2> QED BY <2>1, <2>2 DEF AreFirst
<1>5. Depth \in Nat \ {0}
    BY DEF BoundsAssumption
<1>6. IsOrder(s, R)
  <2> HIDE DEF R, s
  <2> QED BY <1>1, <1>3 DEF IsOrder
<1> HIDE DEF R, s, near
<1>7. /\ Cardinality(near) = IF Depth < Cardinality(s) THEN Depth ELSE Cardinality(s)
      /\ \A p \in near, x \in s \ near : <<p, x>> \in R
      /\ s # {} => \E p \in near : \A q \in s : q = p \/ <<p, q>> \in R
    BY <1>2, <1>4, <1>5, <1>6, Ranks
<1>8. near \subseteq s
    BY <1>4 DEF AreFirst
<1>9. /\ \A p \in near, x \in s \ near : p > x
      /\ s # {} => \E p \in near : \A q \in s : p >= q
  <2>1. ASSUME NEW p \in near, NEW x \in s \ near PROVE p > x
      BY <1>3, <1>7, <1>8, <2>1
  <2>2. ASSUME NEW p \in near, \A q \in s : q = p \/ <<p, q>> \in R
        PROVE  \A q \in s : p >= q
    <3> TAKE q \in s
    <3>1. p \in Nat /\ q \in Nat /\ (q = p \/ p > q)
        BY <1>1, <1>3, <1>8, <2>2
    <3> QED BY <3>1
  <2> QED BY <1>7, <2>1, <2>2
<1> QED BY <1>7, <1>9 DEF s, near

\* The asks shown are the lowest ones, Depth of them or all.
LEMMA LowestAsks ==
  ASSUME PricesAssumption, BoundsAssumption, NEW b
  PROVE  LET s == Asks(b)
             near == NearAsks(b)
         IN  /\ Cardinality(near) = IF Depth < Cardinality(s) THEN Depth ELSE Cardinality(s)
             /\ \A p \in near, x \in s \ near : p < x
             /\ s # {} => \E p \in near : \A q \in s : p <= q
<1> DEFINE s == Asks(b)
           near == NearAsks(b)
           R == {r \in s \X s : r[1] < r[2]}
<1>1. s \subseteq Nat /\ s \subseteq Prices
    BY DEF Asks, PricesAssumption
<1>2. IsFiniteSet(s)
    BY <1>1, FS_Subset DEF PricesAssumption
<1>3. \A p, q \in s : <<p, q>> \in R <=> p < q
    OBVIOUS
<1>4. AreFirst(s, R, Depth, near)
  <2>1. \A p \in s : Ahead(s, R, p) = {q \in s : q < p}
      BY <1>3 DEF Ahead
  <2>2. near \in SUBSET s /\ \A p \in s : p \in near <=> Cardinality({q \in s : q < p}) < Depth
      BY DEF NearAsks
  <2> HIDE DEF R, s, near
  <2> QED BY <2>1, <2>2 DEF AreFirst
<1>5. Depth \in Nat \ {0}
    BY DEF BoundsAssumption
<1>6. IsOrder(s, R)
  <2> HIDE DEF R, s
  <2> QED BY <1>1, <1>3 DEF IsOrder
<1> HIDE DEF R, s, near
<1>7. /\ Cardinality(near) = IF Depth < Cardinality(s) THEN Depth ELSE Cardinality(s)
      /\ \A p \in near, x \in s \ near : <<p, x>> \in R
      /\ s # {} => \E p \in near : \A q \in s : q = p \/ <<p, q>> \in R
    BY <1>2, <1>4, <1>5, <1>6, Ranks
<1>8. near \subseteq s
    BY <1>4 DEF AreFirst
<1>9. /\ \A p \in near, x \in s \ near : p < x
      /\ s # {} => \E p \in near : \A q \in s : p <= q
  <2>1. ASSUME NEW p \in near, NEW x \in s \ near PROVE p < x
      BY <1>3, <1>7, <1>8, <2>1
  <2>2. ASSUME NEW p \in near, \A q \in s : q = p \/ <<p, q>> \in R
        PROVE  \A q \in s : p <= q
    <3> TAKE q \in s
    <3>1. p \in Nat /\ q \in Nat /\ (q = p \/ p < q)
        BY <1>1, <1>3, <1>8, <2>2
    <3> QED BY <3>1
  <2> QED BY <1>7, <2>1, <2>2
<1> QED BY <1>7, <1>9 DEF s, near

LEMMA MaxIs ==
  ASSUME NEW S \in SUBSET Int, NEW m \in S, \A y \in S : m >= y
  PROVE  Max(S) = m
<1>1. Max(S) \in S /\ \A y \in S : Max(S) >= y
    BY DEF Max
<1>2. Max(S) \in Int /\ m \in Int /\ Max(S) >= m /\ m >= Max(S)
    BY <1>1
<1> QED BY <1>2

LEMMA MinIs ==
  ASSUME NEW S \in SUBSET Int, NEW m \in S, \A y \in S : m <= y
  PROVE  Min(S) = m
<1>1. Min(S) \in S /\ \A y \in S : Min(S) <= y
    BY DEF Min
<1>2. Min(S) \in Int /\ m \in Int /\ Min(S) <= m /\ m <= Min(S)
    BY <1>1
<1> QED BY <1>2

\* TopOf for one side
Best(b, s) == IF \E p \in s : b[p] < 0 THEN Max(s) ELSE Min(s)
TopIn(b, s, seen) ==
    /\ Cardinality(seen) = Min({Depth, Cardinality(s)})
    /\ Best(b, s) \in seen
    /\ \A p \in seen, x \in s \ seen : Best(b, {p, x}) = p
SideTop(q, b, s) == TopIn(b, s, {p \in s : q[p] # 0})

LEMMA TopOfSides ==
  ASSUME NEW q, NEW b
  PROVE  TopOf(q, b) <=> IF Bids(b) = {} \/ Asks(b) = {} THEN q = Empty
                         ELSE /\ \A p \in Prices : q[p] \in {0, b[p]}
                              /\ SideTop(q, b, Bids(b)) /\ SideTop(q, b, Asks(b))
<1> DEFINE sides == {Bids(b), Asks(b)}
<1>1. TopOf(q, b) <=> IF {} \in sides THEN q = Empty
                      ELSE /\ \A p \in Prices : q[p] \in {0, b[p]}
                           /\ \A s \in sides : SideTop(q, b, s)
    BY Zenon DEF TopOf, SideTop, TopIn, Best, Bids, Asks
<1>2. {} \in sides <=> Bids(b) = {} \/ Asks(b) = {}
    OBVIOUS
<1>3. (\A s \in sides : SideTop(q, b, s)) <=> SideTop(q, b, Bids(b)) /\ SideTop(q, b, Asks(b))
    OBVIOUS
<1> QED BY <1>1, <1>2, <1>3

\* The quotes of a book that is not crossed
LEMMA QuotesShape ==
  ASSUME NEW b \in [Prices -> Int], Apart(b)
  PROVE  Quotes(b) = [p \in Prices |->
                        IF Bids(b) # {} /\ Asks(b) # {} /\ p \in NearBids(b) \cup NearAsks(b)
                        THEN b[p] ELSE 0]
<1>1. {p \in Prices : b[p] > 0 /\ \A q \in {r \in Prices : b[r] < 0} : q < p} = Asks(b)
    BY DEF Asks, Apart
<1> QED BY <1>1, Zenon DEF Quotes, Bids, NearBids, NearAsks

LEMMA TwoSmaller ==
  ASSUME NEW n \in Int, NEW m \in Int
  PROVE  Min({n, m}) = IF n < m THEN n ELSE m
<1>1. CASE n < m
    BY <1>1, MinIs, n \in {n, m}, \A y \in {n, m} : n <= y
<1>2. CASE ~(n < m)
    BY <1>2, MinIs, m \in {n, m}, \A y \in {n, m} : m <= y
<1> QED BY <1>1, <1>2

\* What the reader makes of a book that is not crossed is the top of it: the
\* best levels of each side, or nothing.
LEMMA QuotesTop ==
  ASSUME PricesAssumption, BoundsAssumption, NEW b \in [Prices -> Int], Apart(b)
  PROVE  TopOf(Quotes(b), b)
<1> DEFINE q == Quotes(b)
<1>1. CASE Bids(b) = {} \/ Asks(b) = {}
  <2>1. q = Empty
      BY <1>1, QuotesShape DEF Empty
  <2> QED BY <1>1, <2>1, TopOfSides
<1>2. CASE Bids(b) # {} /\ Asks(b) # {}
  <2>1. \A p \in Prices : q[p] = IF p \in NearBids(b) \cup NearAsks(b) THEN b[p] ELSE 0
      BY <1>2, QuotesShape
  <2>2. \A p \in Prices : b[p] \in Int /\ p \in Int
      BY DEF PricesAssumption
  <2>3. /\ Bids(b) \subseteq Prices /\ Asks(b) \subseteq Prices
        /\ NearBids(b) \subseteq Bids(b) /\ NearAsks(b) \subseteq Asks(b)
        /\ \A p \in Bids(b) : b[p] < 0 /\ b[p] # 0 /\ p \notin Asks(b)
        /\ \A p \in Asks(b) : ~(b[p] < 0) /\ b[p] # 0 /\ p \notin Bids(b)
    <3>1. \A p \in Prices : ~(b[p] < 0 /\ b[p] > 0) /\ (b[p] < 0 \/ b[p] > 0 => b[p] # 0)
        BY <2>2
    <3> QED BY <3>1 DEF Bids, Asks, NearBids, NearAsks
  <2>4. Depth \in Nat /\ Cardinality(Bids(b)) \in Nat /\ Cardinality(Asks(b)) \in Nat
      BY <2>3, FS_Subset, FS_CardinalityType DEF PricesAssumption, BoundsAssumption
  <2> HIDE DEF q
  <2>5. SideTop(q, b, Bids(b))
    <3>1. {p \in Bids(b) : q[p] # 0} = NearBids(b)
      <4>1. \A p \in Bids(b) : q[p] # 0 <=> p \in NearBids(b)
          BY <2>1, <2>3
      <4> QED BY <2>3, <4>1
    <3>2. /\ Cardinality(NearBids(b)) = IF Depth < Cardinality(Bids(b)) THEN Depth
                                        ELSE Cardinality(Bids(b))
          /\ \A p \in NearBids(b), x \in Bids(b) \ NearBids(b) : p > x
        BY HighestBids
    <3>3. PICK m \in NearBids(b) : \A x \in Bids(b) : m >= x
        BY <1>2, HighestBids
    <3>4. Max(Bids(b)) = m
        BY <2>2, <2>3, <3>3, MaxIs
    <3>5. Best(b, Bids(b)) \in NearBids(b)
        BY <2>3, <3>3, <3>4 DEF Best
    <3>6. ASSUME NEW p \in NearBids(b), NEW x \in Bids(b) \ NearBids(b)
          PROVE  Best(b, {p, x}) = p
      <4>1. p \in Int /\ x \in Int /\ p > x /\ b[p] < 0
          BY <2>2, <2>3, <3>2
      <4>2. Max({p, x}) = p
          BY <4>1, MaxIs, \A y \in {p, x} : p >= y
      <4> QED BY <4>1, <4>2 DEF Best
    <3>7. TopIn(b, Bids(b), NearBids(b))
        BY <2>4, <3>2, <3>5, <3>6, TwoSmaller DEF TopIn
    <3> QED BY <3>1, <3>7 DEF SideTop
  <2>6. SideTop(q, b, Asks(b))
    <3>1. {p \in Asks(b) : q[p] # 0} = NearAsks(b)
      <4>1. \A p \in Asks(b) : q[p] # 0 <=> p \in NearAsks(b)
          BY <2>1, <2>3
      <4> QED BY <2>3, <4>1
    <3>2. /\ Cardinality(NearAsks(b)) = IF Depth < Cardinality(Asks(b)) THEN Depth
                                        ELSE Cardinality(Asks(b))
          /\ \A p \in NearAsks(b), x \in Asks(b) \ NearAsks(b) : p < x
        BY LowestAsks
    <3>3. PICK m \in NearAsks(b) : \A x \in Asks(b) : m <= x
        BY <1>2, LowestAsks
    <3>4. Min(Asks(b)) = m
        BY <2>2, <2>3, <3>3, MinIs
    <3>5. Best(b, Asks(b)) \in NearAsks(b)
        BY <2>3, <3>3, <3>4 DEF Best
    <3>6. ASSUME NEW p \in NearAsks(b), NEW x \in Asks(b) \ NearAsks(b)
          PROVE  Best(b, {p, x}) = p
      <4>1. p \in Int /\ x \in Int /\ p < x /\ ~(b[p] < 0) /\ ~(b[x] < 0)
          BY <2>2, <2>3, <3>2
      <4>2. Min({p, x}) = p
          BY <4>1, MinIs, \A y \in {p, x} : p <= y
      <4> QED BY <4>1, <4>2 DEF Best
    <3>7. TopIn(b, Asks(b), NearAsks(b))
        BY <2>4, <3>2, <3>5, <3>6, TwoSmaller DEF TopIn
    <3> QED BY <3>1, <3>7 DEF SideTop
  <2>7. \A p \in Prices : q[p] \in {0, b[p]}
      BY <2>1
  <2> QED BY <1>2, <2>5, <2>6, <2>7, TopOfSides DEF q
<1> QED BY <1>1, <1>2

\* They show both sides, and these are not crossed.
LEMMA QuotesSound ==
  ASSUME PricesAssumption, BoundsAssumption, NEW b \in [Prices -> Int], Apart(b),
         Quotes(b) # Empty
  PROVE  /\ \E p \in Prices : Quotes(b)[p] > 0
         /\ \E p \in Prices : Quotes(b)[p] < 0
         /\ \A p, q \in Prices : Quotes(b)[p] > 0 /\ Quotes(b)[q] < 0 => q < p
<1>1. Bids(b) # {} /\ Asks(b) # {}
    BY QuotesShape DEF Empty
<1>2. \A p \in Prices :
         Quotes(b)[p] = IF p \in NearBids(b) \cup NearAsks(b) THEN b[p] ELSE 0
    BY <1>1, QuotesShape
<1>3. \E p \in NearBids(b) : p \in Bids(b)
    BY <1>1, HighestBids DEF NearBids
<1>4. \E p \in NearAsks(b) : p \in Asks(b)
    BY <1>1, LowestAsks DEF NearAsks
<1>5. /\ \E p \in Prices : Quotes(b)[p] > 0
      /\ \E p \in Prices : Quotes(b)[p] < 0
    BY <1>2, <1>3, <1>4 DEF Bids, Asks
<1>6. \A p, q \in Prices : Quotes(b)[p] > 0 /\ Quotes(b)[q] < 0 => b[p] > 0 /\ b[q] < 0
    BY <1>2
<1> QED BY <1>5, <1>6 DEF Apart

-----------------------------------------------------------------------------
(* Records and their differences *)

\* The values a record leaves, and its difference to those before it
Held(r, time) ==
    [price |-> r.price, amount |-> r.amount, deal |-> r.deal, paid |-> r.paid, time |-> time]

Difference(l, r, gap, end) ==
    [kind |-> r.kind, dir |-> r.dir, system |-> r.system,
     price |-> r.price - l.price,
     amount |-> IF r.amount = l.amount THEN 0 ELSE r.amount,
     deal |-> r.deal - l.deal, paid |-> r.paid - l.paid, gap |-> gap, end |-> end]

Whole == [kind : {"Add", "Fill", "Cancel", "Session"}, dir : Dirs \cup {"None"},
          price : Prices \cup {0}, amount : 0..MaxVolume, system : BOOLEAN,
          deal : 0..MaxDeals, paid : Prices \cup {0}]

LEMMA Bounds ==
  ASSUME PricesAssumption, BoundsAssumption
  PROVE  /\ Prices \subseteq Nat \ {0}
         /\ Depth \in Nat \ {0} /\ Interval \in Nat \ {0} /\ MaxVolume \in Nat \ {0}
         /\ MaxLevel \in Nat \ {0} /\ MaxGap \in Nat \ {0} /\ MaxTime \in Nat \ {0}
         /\ MaxDeals \in Nat \ {0}
BY DEF PricesAssumption, BoundsAssumption

LEMMA RecordTypes ==
  ASSUME PricesAssumption, BoundsAssumption
  PROVE  /\ \A r \in Whole : /\ r.price \in Int /\ r.amount \in Nat
                              /\ r.deal \in Nat /\ r.paid \in Int
         /\ \A l \in Values : /\ l.price \in Int /\ l.amount \in Nat
                               /\ l.deal \in Nat /\ l.paid \in Int /\ l.time \in Nat
<1>1. /\ Prices \cup {0} \subseteq Int /\ 0..MaxVolume \subseteq Nat
      /\ 0..MaxDeals \subseteq Nat /\ 0..MaxTime \subseteq Nat
    BY Bounds
<1> QED BY <1>1 DEF Whole, Values

LEMMA DifferenceType ==
  ASSUME PricesAssumption, BoundsAssumption,
         NEW l, l.price \in Int, l.deal \in Int, l.paid \in Int,
         NEW r \in Whole, NEW gap \in Nat, NEW end \in BOOLEAN
  PROVE  Difference(l, r, gap, end) \in Diff
<1>1. r.price \in Int /\ r.amount \in Nat /\ r.deal \in Int /\ r.paid \in Int
    BY RecordTypes
<1> QED BY <1>1 DEF Difference, Diff, Whole

\* A record read as a difference is the record that was written, provided an
\* amount is left out only where it stays the same.
LEMMA Decoding ==
  ASSUME PricesAssumption, BoundsAssumption,
         NEW l \in Values, NEW r \in Whole, NEW gap \in Nat, NEW end \in BOOLEAN,
         r.amount > 0 \/ r.amount = l.amount
  PROVE  From(l, Difference(l, r, gap, end)) = Held(r, l.time + gap)
<1>1. /\ r.price \in Int /\ r.amount \in Nat /\ r.deal \in Int /\ r.paid \in Int
      /\ l.price \in Int /\ l.amount \in Nat /\ l.deal \in Int /\ l.paid \in Int /\ l.time \in Int
    BY RecordTypes
<1> QED BY <1>1 DEF From, Difference, Held

\* What reading a record of the book does.
LEMMA AfterBook ==
  ASSUME PricesAssumption, BoundsAssumption,
         NEW s \in State, NEW r \in Whole, NEW gap \in Nat, NEW end \in BOOLEAN,
         ~Skipped(r), r.amount > 0
  PROVE  LET id == IF r.deal > s.last.deal \/ r.kind = "Fill" THEN r.deal ELSE 0 IN
         After(s, Difference(s.last, r, gap, end)) =
            [last |-> Held(r, s.last.time + gap),
             raw |-> [s.raw EXCEPT ![r.price] = @ + Signed(r) * r.amount],
             pushed |-> IF s.pushed < id THEN id ELSE s.pushed,
             ticks |-> IF s.pushed < id
                       THEN Append(s.ticks, [id |-> id, price |-> r.paid, volume |-> r.amount])
                       ELSE s.ticks]
<1> DEFINE d == Difference(s.last, r, gap, end)
           id == IF r.deal > s.last.deal \/ r.kind = "Fill" THEN r.deal ELSE 0
<1>1. s.last \in Values
    BY DEF State
<1>2. From(s.last, d) = Held(r, s.last.time + gap)
    BY <1>1, Decoding
<1>3. ~Skipped(d) /\ Signed(d) = Signed(r)
    BY DEF Skipped, Signed, Difference
<1>4. DealIn(s.last, d) = id
  <2>1. r.deal \in Int /\ s.last.deal \in Int
      BY <1>1 DEF Whole, Values
  <2>2. d.deal > 0 <=> r.deal > s.last.deal
      BY <2>1 DEF Difference
  <2>3. d.kind = r.kind
      BY DEF Difference
  <2> HIDE DEF d
  <2> QED BY <1>2, <2>2, <2>3 DEF DealIn, Held
<1>5. LET l == Held(r, s.last.time + gap) IN
      l.price = r.price /\ l.amount = r.amount /\ l.paid = r.paid
    BY DEF Held
<1> HIDE DEF d, id
<1> QED BY <1>2, <1>3, <1>4, <1>5 DEF After, d, id

\* What reading any other record does.
LEMMA AfterOther ==
  ASSUME PricesAssumption, BoundsAssumption,
         NEW s \in State, NEW r \in Whole, NEW gap \in Nat, NEW end \in BOOLEAN,
         Skipped(r), r.amount > 0 \/ r.amount = s.last.amount
  PROVE  After(s, Difference(s.last, r, gap, end)) =
            [s EXCEPT !.last = Held(r, s.last.time + gap),
                      !.raw = IF r.kind = "Session" THEN Empty ELSE @]
<1> DEFINE d == Difference(s.last, r, gap, end)
<1>1. s.last \in Values
    BY DEF State
<1>2. From(s.last, d) = Held(r, s.last.time + gap)
    BY <1>1, Decoding
<1>3. Skipped(d) /\ d.kind = r.kind
    BY DEF Skipped, Difference
<1> HIDE DEF d
<1> QED BY <1>2, <1>3 DEF After, d

-----------------------------------------------------------------------------
(* Writing one record, or two *)

LEMMA WriteOne ==
  ASSUME PricesAssumption, BoundsAssumption, FeedOK,
         NEW r \in Whole, NEW gap \in 0..MaxGap, NEW over \in BOOLEAN,
         Write(<<r>>, gap, over)
  PROVE  /\ log' \in Seq(Diff) /\ Len(log') = 1
         /\ log'[1] = Difference(pen, r, gap, over)
         /\ pen' = Held(r, pen.time + gap)
         /\ UNCHANGED stream
<1>1. Last(<<r>>) = r /\ DOMAIN <<r>> = 1..1 /\ Len(<<r>>) = 1 /\ <<r>>[1] = r
    BY DEF Last
<1>2. log' = [i \in 1..1 |-> Difference(pen, r, gap, over)]
    BY <1>1 DEF Write, Difference
<1>3. Difference(pen, r, gap, over) \in Diff
  <2>1. pen \in Values
      BY DEF FeedOK
  <2>2. pen.price \in Int /\ pen.deal \in Int /\ pen.paid \in Int /\ gap \in Nat
      BY <2>1, RecordTypes, Bounds
  <2> QED BY <2>2, DifferenceType
<1>4. log' \in Seq(Diff) /\ Len(log') = 1 /\ log'[1] = Difference(pen, r, gap, over)
    BY <1>2, <1>3
<1>5. pen' = Held(r, pen.time + gap) /\ UNCHANGED stream
    BY <1>1 DEF Write, Held
<1> QED BY <1>4, <1>5

Both(a, b) == [i \in 1..2 |-> IF i = 1 THEN a ELSE b]

LEMMA BothIsSeq ==
  ASSUME NEW S, NEW a \in S, NEW b \in S
  PROVE  Both(a, b) \in Seq(S) /\ Len(Both(a, b)) = 2 /\ Both(a, b)[1] = a /\ Both(a, b)[2] = b
<1> DEFINE f == Both(a, b)
<1> USE DEF Both
<1>1. 2 \in Nat /\ f \in [1..2 -> S]
    OBVIOUS
<1>2. f \in Seq(S)
    BY <1>1, SeqDef
<1>3. Len(f) \in Nat /\ DOMAIN f = 1..Len(f) /\ DOMAIN f = 1..2
    BY <1>1, <1>2, LenProperties
<1> QED BY <1>2, <1>3

LEMMA WriteTwo ==
  ASSUME PricesAssumption, BoundsAssumption, FeedOK,
         NEW r \in Whole, NEW q \in Whole, NEW gap \in 0..MaxGap, NEW over \in BOOLEAN,
         Write(<<r, q>>, gap, over)
  PROVE  /\ log' \in Seq(Diff) /\ Len(log') = 2
         /\ log'[1] = Difference(pen, r, gap, FALSE)
         /\ log'[2] = Difference(Held(r, pen.time + gap), q, 0, over)
         /\ pen' = Held(q, pen.time + gap)
         /\ UNCHANGED stream
<1>1. /\ Last(<<r, q>>) = q /\ DOMAIN <<r, q>> = 1..2 /\ Len(<<r, q>>) = 2
      /\ <<r, q>>[1] = r /\ <<r, q>>[2] = q
    BY DEF Last
<1>2. log' = Both(Difference(pen, r, gap, FALSE), Difference(r, q, 0, over))
  <2> DEFINE w == <<r, q>>
             Before(i) == IF i = 1 THEN pen ELSE w[i - 1]
             G(i) == [kind |-> w[i].kind, dir |-> w[i].dir, system |-> w[i].system,
                      price |-> w[i].price - Before(i).price,
                      amount |-> IF w[i].amount = Before(i).amount THEN 0 ELSE w[i].amount,
                      deal |-> w[i].deal - Before(i).deal,
                      paid |-> w[i].paid - Before(i).paid,
                      gap |-> IF i = 1 THEN gap ELSE 0,
                      end |-> over /\ i = 2]
  <2>1. log' = [i \in 1..2 |-> G(i)]
      BY <1>1, Zenon DEF Write
  <2>2. /\ Before(1) = pen /\ Before(2) = r
        /\ (over /\ 1 = 2) = FALSE /\ (over /\ 2 = 2) = over
      OBVIOUS
  <2>3. G(1) = Difference(pen, r, gap, FALSE)
      BY <1>1, <2>2 DEF Difference
  <2>4. G(2) = Difference(r, q, 0, over)
      BY <1>1, <2>2 DEF Difference
  <2> HIDE DEF G, w
  <2>5. \A i \in 1..2 : G(i) = IF i = 1 THEN Difference(pen, r, gap, FALSE)
                              ELSE Difference(r, q, 0, over)
    <3> TAKE i \in 1..2
    <3>1. i = 1 \/ i = 2
        OBVIOUS
    <3> QED BY <2>3, <2>4, <3>1
  <2> QED BY <2>1, <2>5 DEF Both
<1>3. Difference(pen, r, gap, FALSE) \in Diff
  <2>1. pen \in Values
      BY DEF FeedOK
  <2>2. pen.price \in Int /\ pen.deal \in Int /\ pen.paid \in Int /\ gap \in Nat
      BY <2>1, RecordTypes, Bounds
  <2> QED BY <2>2, DifferenceType
<1>4. Difference(r, q, 0, over) \in Diff
  <2>1. r.price \in Int /\ r.deal \in Int /\ r.paid \in Int
      BY RecordTypes
  <2> QED BY <2>1, DifferenceType
<1>5. Difference(r, q, 0, over) = Difference(Held(r, pen.time + gap), q, 0, over)
    BY DEF Difference, Held
<1>6. /\ log' \in Seq(Diff) /\ Len(log') = 2
      /\ log'[1] = Difference(pen, r, gap, FALSE) /\ log'[2] = Difference(r, q, 0, over)
  <2> DEFINE a == Difference(pen, r, gap, FALSE)
             b == Difference(r, q, 0, over)
  <2>1. a \in Diff /\ b \in Diff
      BY <1>3, <1>4
  <2> HIDE DEF a, b
  <2>2. /\ Both(a, b) \in Seq(Diff) /\ Len(Both(a, b)) = 2
        /\ Both(a, b)[1] = a /\ Both(a, b)[2] = b
      BY <2>1, BothIsSeq
  <2>3. log' = Both(a, b)
      BY <1>2 DEF a, b
  <2> QED BY <2>2, <2>3 DEF a, b
<1>7. pen' = Held(q, pen.time + gap) /\ UNCHANGED stream
    BY <1>1 DEF Write, Held
<1> QED BY <1>5, <1>6, <1>7

-----------------------------------------------------------------------------
(* What a transaction has to fulfil to keep the invariant *)

Orders == [dir : Dirs, price : Prices, left : 1..MaxVolume] \cup {NoOrder}

LEMMA SignOf == Sign("Sell") = 1 /\ Sign("Buy") = -1
BY DEF Sign

LEMMA WithType ==
  ASSUME PricesAssumption, BoundsAssumption, NEW b \in [Prices -> Level], NEW o,
         o.left \in 0..MaxVolume, o.dir \in Dirs
  PROVE  With(b, o) \in Raw
<1>1. Sign(o.dir) \in {1, -1}
    BY DEF Sign
<1>2. Sign(o.dir) * o.left \in -MaxVolume..MaxVolume
  <2>1. CASE Sign(o.dir) = 1
      BY <2>1, Bounds
  <2>2. CASE Sign(o.dir) = -1
      BY <2>2, Bounds
  <2> QED BY <1>1, <2>1, <2>2
<1> DEFINE x == Sign(o.dir) * o.left
<1> HIDE DEF x
<1>3. \A p \in Prices : b[p] + (IF p = o.price THEN x ELSE 0)
                           \in -MaxLevel - MaxVolume..MaxLevel + MaxVolume
  <2> TAKE p \in Prices
  <2>1. b[p] \in -MaxLevel..MaxLevel
      BY DEF Level
  <2>2. x \in -MaxVolume..MaxVolume
      BY <1>2 DEF x
  <2> QED BY <2>1, <2>2, Bounds
<1>4. With(b, o) = [p \in Prices |-> b[p] + (IF p = o.price THEN x ELSE 0)]
    BY DEF With, x
<1> QED BY <1>3, <1>4 DEF Raw

LEMMA OrderParts ==
  ASSUME PricesAssumption, BoundsAssumption, NEW o \in Orders
  PROVE  o.left \in 0..MaxVolume /\ o.dir \in Dirs
<1>1. 0 \in 0..MaxVolume /\ 1..MaxVolume \subseteq 0..MaxVolume
    BY Bounds
<1> QED BY <1>1 DEF Orders, NoOrder, Dirs

LEMMA Assemble ==
  ASSUME PricesAssumption, BoundsAssumption, ReaderInv, log = <<>>, UNCHANGED stream,
         log' \in Seq(Diff), pen' \in Values, book' \in [Prices -> Level], order' \in Orders,
         traded' \in Seq(Tick), Apart(book'), Reading',
         IF Settling' THEN order' = NoOrder /\ settled' = [time |-> pen'.time, book |-> book']
                  ELSE settled' = settled
  PROVE  ReaderInv'
<1>1. UNCHANGED <<last, raw, quotes, shown, lastPush, pushedDeal, ticks>>
    BY DEF stream
<1>2. ~Settling
    BY DEF Settling
<1>3. FeedOK
    BY DEF ReaderInv
<1>4. settled'.time \in 0..MaxTime /\ settled'.book \in [Prices -> Level]
  <2>1. CASE Settling'
      BY <2>1 DEF Values
  <2>2. CASE ~Settling'
      BY <1>3, <2>2 DEF FeedOK
  <2> QED BY <2>1, <2>2
<1>5. FeedOK'
    BY <1>1, <1>3, <1>4 DEF FeedOK, Orders
<1>6. Quoting'
  <2>1. CASE Settling'
      BY <2>1 DEF Quoting
  <2>2. CASE ~Settling'
    <3>1. Quoting
        BY DEF ReaderInv
    <3>2. settled' = settled
        BY <2>2
    <3> HIDE DEF Settling
    <3>3. TopOf(quotes, settled.book)
          /\ (shown = quotes \/ quotes = Empty \/ settled.time - lastPush <= Interval)
        BY <1>2, <3>1 DEF Quoting
    <3>4. TopOf(quotes', settled'.book)
          /\ (shown' = quotes' \/ quotes' = Empty \/ settled'.time - lastPush' <= Interval)
        BY <1>1, <3>2, <3>3
    <3> QED BY <2>2, <3>4 DEF Quoting
  <2> QED BY <2>1, <2>2
<1>7. ShownSound'
    BY <1>1 DEF ReaderInv, ShownSound, Empty
<1> QED BY <1>5, <1>6, <1>7 DEF ReaderInv

\* The book of the reader after a record of it
Booking(b, r) == [b EXCEPT ![r.price] = @ + Signed(r) * r.amount]

\* A record of the book without a deal
Quiet(r) ==
    r \in Whole /\ ~Skipped(r) /\ r.amount > 0 /\ r.kind # "Fill" /\ r.deal = pen.deal

\* The reader after a record of the book without a deal, and after one with a deal
Booked(s, r, gap) ==
    [last |-> Held(r, s.last.time + gap),
     raw |-> [s.raw EXCEPT ![r.price] = @ + Signed(r) * r.amount],
     pushed |-> s.pushed, ticks |-> s.ticks]

Dealing(s, r, gap) ==
    [last |-> Held(r, s.last.time + gap),
     raw |-> [s.raw EXCEPT ![r.price] = @ + Signed(r) * r.amount],
     pushed |-> IF s.pushed < r.deal THEN r.deal ELSE s.pushed,
     ticks |-> IF s.pushed < r.deal
               THEN Append(s.ticks, [id |-> r.deal, price |-> r.paid, volume |-> r.amount])
               ELSE s.ticks]

\* Reading a record of the book without a deal of its own hands on no deal.
LEMMA QuietRecord ==
  ASSUME PricesAssumption, BoundsAssumption,
         NEW s \in State, NEW r \in Whole, NEW gap \in Nat, NEW end \in BOOLEAN,
         ~Skipped(r), r.amount > 0, r.kind # "Fill", r.deal = s.last.deal
  PROVE  After(s, Difference(s.last, r, gap, end)) = Booked(s, r, gap)
<1>1. ~(r.deal > s.last.deal) /\ ~(s.pushed < 0)
  <2>1. r.deal \in Nat /\ s.pushed \in 0..MaxDeals
      BY RecordTypes DEF State
  <2> QED BY <2>1, Bounds
<1> DEFINE id == IF r.deal > s.last.deal \/ r.kind = "Fill" THEN r.deal ELSE 0
<1>2. After(s, Difference(s.last, r, gap, end)) =
         [last |-> Held(r, s.last.time + gap),
          raw |-> [s.raw EXCEPT ![r.price] = @ + Signed(r) * r.amount],
          pushed |-> IF s.pushed < id THEN id ELSE s.pushed,
          ticks |-> IF s.pushed < id
                    THEN Append(s.ticks, [id |-> id, price |-> r.paid, volume |-> r.amount])
                    ELSE s.ticks]
    BY AfterBook
<1>3. id = 0
    BY <1>1
<1> HIDE DEF id
<1> QED BY <1>1, <1>2, <1>3 DEF Booked

\* One with a deal that is new hands it on, a second one does not.
LEMMA DealRecord ==
  ASSUME PricesAssumption, BoundsAssumption,
         NEW s \in State, NEW r \in Whole, NEW gap \in Nat, NEW end \in BOOLEAN,
         ~Skipped(r), r.amount > 0, r.kind = "Fill"
  PROVE  After(s, Difference(s.last, r, gap, end)) = Dealing(s, r, gap)
<1> DEFINE id == IF r.deal > s.last.deal \/ r.kind = "Fill" THEN r.deal ELSE 0
<1>2. After(s, Difference(s.last, r, gap, end)) =
         [last |-> Held(r, s.last.time + gap),
          raw |-> [s.raw EXCEPT ![r.price] = @ + Signed(r) * r.amount],
          pushed |-> IF s.pushed < id THEN id ELSE s.pushed,
          ticks |-> IF s.pushed < id
                    THEN Append(s.ticks, [id |-> id, price |-> r.paid, volume |-> r.amount])
                    ELSE s.ticks]
    BY AfterBook
<1>3. id = r.deal
    OBVIOUS
<1> HIDE DEF id
<1> QED BY <1>2, <1>3 DEF Dealing

LEMMA NowCaught ==
  ASSUME ReaderInv, log = <<>>
  PROVE  Caught(Reader)
<1>1. Len(log) = 0
    OBVIOUS
<1> QED BY <1>1 DEF ReaderInv, Reading

LEMMA HeldType ==
  ASSUME NEW r \in Whole, NEW time \in 0..MaxTime
  PROVE  Held(r, time) \in Values
BY DEF Held, Whole, Values

\* What both exchange and order must be like after a transaction or a part of it
Settles(over) ==
    /\ book' \in [Prices -> Level] /\ order' \in Orders /\ Apart(book')
    /\ IF over THEN order' = NoOrder /\ settled' = [time |-> pen'.time, book |-> book']
       ELSE settled' = settled

LEMMA ReadingOne ==
  ASSUME Len(log') = 1, Caught(After(Reader, log[1]))'
  PROVE  Reading'
BY DEF Reading

LEMMA EndsOne ==
  ASSUME NEW l, NEW r, NEW gap, NEW over \in BOOLEAN,
         log' \in Seq(Diff), Len(log') = 1, log'[1] = Difference(l, r, gap, over)
  PROVE  Settling' <=> over /\ ~Skipped(r)
<1> DEFINE d == Difference(l, r, gap, over)
<1>1. (d.end <=> over) /\ (Skipped(d) <=> Skipped(r))
    BY DEF Difference, Skipped
<1> HIDE DEF d
<1>2. log'[Len(log')] = d /\ log' # <<>>
    BY DEF d
<1> QED BY <1>1, <1>2 DEF Settling

\* One record of the book, without a deal
LEMMA OneRecord ==
  ASSUME PricesAssumption, BoundsAssumption, ReaderInv, log = <<>>,
         NEW r, Quiet(r), NEW gap \in 0..MaxGap, NEW over \in BOOLEAN,
         Write(<<r>>, gap, over), pen.time + gap <= MaxTime,
         Settles(over), traded' = traded,
         With(book', order') = Booking(With(book, order), r)
  PROVE  ReaderInv'
<1> USE DEF Quiet, Booking
<1>1. FeedOK /\ Caught(Reader)
    BY NowCaught DEF ReaderInv
<1>2. /\ log' \in Seq(Diff) /\ Len(log') = 1
      /\ log'[1] = Difference(pen, r, gap, over)
      /\ pen' = Held(r, pen.time + gap)
      /\ UNCHANGED stream
    BY <1>1, WriteOne
<1>3. pen \in Values /\ pen.time + gap \in 0..MaxTime /\ gap \in Nat
  <2>1. pen \in Values
      BY <1>1 DEF FeedOK
  <2> QED BY <2>1, RecordTypes, Bounds
<1>4. pen' \in Values /\ pen'.deal = pen.deal
    BY <1>2, <1>3, HeldType DEF Held
<1>5. Reader' = Reader
    BY <1>2 DEF stream, Reader
<1>6. Reader \in State /\ Reader.last = pen /\ Reader.raw = With(book, order) /\ Reader.ticks = traded
      /\ Reader.pushed <= pen.deal
    BY <1>1 DEF Caught
<1>7. After(Reader, log'[1]) = [last |-> pen', raw |-> With(book', order'),
                             pushed |-> Reader.pushed, ticks |-> traded]
  <2>1. r.deal = Reader.last.deal
      BY <1>6
  <2> HIDE DEF Reader
  <2>2. After(Reader, Difference(Reader.last, r, gap, over)) = Booked(Reader, r, gap)
      BY <1>3, <1>6, <2>1, QuietRecord
  <2> QED BY <1>2, <1>6, <2>2 DEF Booked
<1>8. With(book', order') \in Raw
    BY WithType, OrderParts DEF Settles
<1>9. Caught(After(Reader, log[1]))'
  <2>1. After(Reader, log'[1]) \in State
      BY <1>4, <1>6, <1>7, <1>8 DEF State
  <2>2. After(Reader', log'[1]) = After(Reader, log'[1])
      BY <1>5
  <2> HIDE DEF Reader
  <2> QED BY <1>4, <1>6, <1>7, <2>1, <2>2 DEF Caught
<1>10. Reading'
    BY <1>2, <1>9, ReadingOne
<1>11. Settling' <=> over
    BY <1>2, EndsOne
<1>12. traded' \in Seq(Tick)
    BY <1>1 DEF FeedOK
<1> QED BY <1>2, <1>4, <1>10, <1>11, <1>12, Assemble DEF Settles

\* A record that is not about the book
LEMMA OtherRecord ==
  ASSUME PricesAssumption, BoundsAssumption, ReaderInv, log = <<>>,
         NEW r \in Whole, NEW gap \in 0..MaxGap,
         Write(<<r>>, gap, TRUE), pen.time + gap <= MaxTime,
         Skipped(r), r.amount > 0 \/ r.amount = pen.amount, r.deal >= pen.deal,
         Settles(FALSE), traded' = traded,
         With(book', order') = IF r.kind = "Session" THEN Empty ELSE With(book, order)
  PROVE  ReaderInv'
<1>1. FeedOK /\ Caught(Reader)
    BY NowCaught DEF ReaderInv
<1>2. /\ log' \in Seq(Diff) /\ Len(log') = 1
      /\ log'[1] = Difference(pen, r, gap, TRUE)
      /\ pen' = Held(r, pen.time + gap)
      /\ UNCHANGED stream
    BY <1>1, WriteOne
<1>3. pen \in Values /\ pen.time + gap \in 0..MaxTime /\ gap \in Nat
  <2>1. pen \in Values
      BY <1>1 DEF FeedOK
  <2> QED BY <2>1, RecordTypes, Bounds
<1>4. pen' \in Values /\ pen'.deal = r.deal
    BY <1>2, <1>3, HeldType DEF Held
<1>5. Reader' = Reader
    BY <1>2 DEF stream, Reader
<1>6. Reader \in State /\ Reader.last = pen /\ Reader.raw = With(book, order) /\ Reader.ticks = traded
      /\ Reader.pushed <= pen.deal
    BY <1>1 DEF Caught
<1>7. After(Reader, log'[1]) = [Reader EXCEPT !.last = pen', !.raw = With(book', order')]
  <2>1. r.amount > 0 \/ r.amount = Reader.last.amount
      BY <1>6
  <2> HIDE DEF Reader
  <2>2. After(Reader, Difference(Reader.last, r, gap, TRUE)) =
            [Reader EXCEPT !.last = Held(r, Reader.last.time + gap),
                        !.raw = IF r.kind = "Session" THEN Empty ELSE @]
      BY <1>3, <1>6, <2>1, AfterOther
  <2> QED BY <1>2, <1>6, <2>2
<1>8. With(book', order') \in Raw
    BY WithType, OrderParts DEF Settles
<1>9. Caught(After(Reader, log[1]))'
  <2>1. After(Reader, log'[1]) \in State
      BY <1>4, <1>6, <1>7, <1>8 DEF State
  <2>2. After(Reader', log'[1]) = After(Reader, log'[1])
      BY <1>5
  <2>3. Reader.pushed \in Int /\ pen.deal \in Int /\ r.deal \in Int
      BY <1>3, <1>6, RecordTypes, Bounds DEF State
  <2> HIDE DEF Reader
  <2>4. Reader.pushed <= pen'.deal
      BY <1>4, <1>6, <2>3
  <2>5. /\ After(Reader, log'[1]).last = pen' /\ After(Reader, log'[1]).raw = With(book', order')
        /\ After(Reader, log'[1]).pushed = Reader.pushed /\ After(Reader, log'[1]).ticks = traded
      BY <1>6, <1>7 DEF State
  <2> QED BY <2>1, <2>2, <2>4, <2>5 DEF Caught
<1>10. Reading'
    BY <1>2, <1>9, ReadingOne
<1>11. ~Settling'
    BY <1>2, EndsOne
<1>12. traded' \in Seq(Tick)
    BY <1>1 DEF FeedOK
<1> QED BY <1>2, <1>4, <1>10, <1>11, <1>12, Assemble DEF Settles

LEMMA ReadingTwo ==
  ASSUME Len(log') = 2, (After(Reader, log[1]) \in State)', ~log'[1].end,
         Caught(After(After(Reader, log[1]), log[2]))'
  PROVE  Reading'
BY DEF Reading

LEMMA EndsTwo ==
  ASSUME NEW l, NEW r, NEW gap, NEW over \in BOOLEAN,
         log' \in Seq(Diff), Len(log') = 2, log'[2] = Difference(l, r, gap, over)
  PROVE  Settling' <=> over /\ ~Skipped(r)
<1> DEFINE d == Difference(l, r, gap, over)
<1>1. (d.end <=> over) /\ (Skipped(d) <=> Skipped(r))
    BY DEF Difference, Skipped
<1> HIDE DEF d
<1>2. log'[Len(log')] = d
    BY DEF d
<1>3. log' # <<>>
  <2>1. Len(<<>>) = 0
      OBVIOUS
  <2> SUFFICES ASSUME log' = <<>> PROVE FALSE
      OBVIOUS
  <2>2. Len(log') = 0
      BY <2>1
  <2> QED BY <2>2
<1> QED BY <1>1, <1>2, <1>3 DEF Settling

\* The reader is as s after the first of two records, and as t after the second.
Reads(s, t, r, q, gap, over) ==
    /\ s \in State /\ s.last = Held(r, pen.time + gap)
    /\ After(Reader, Difference(pen, r, gap, FALSE)) = s
    /\ After(s, Difference(s.last, q, 0, over)) = t
    /\ t.last = Held(q, pen.time + gap) /\ t.raw = With(book', order')
    /\ t.pushed \in 0..MaxDeals /\ t.pushed <= q.deal /\ t.ticks = traded'
    /\ t = [last |-> t.last, raw |-> t.raw, pushed |-> t.pushed, ticks |-> t.ticks]

\* What is common to all pairs of records of the book: only what the reader
\* makes of them is left to show.
LEMMA TwoRecords ==
  ASSUME PricesAssumption, BoundsAssumption, ReaderInv, log = <<>>,
         NEW r \in Whole, NEW q \in Whole, NEW gap \in 0..MaxGap, NEW over \in BOOLEAN,
         Write(<<r, q>>, gap, over), pen.time + gap <= MaxTime,
         ~Skipped(q), Settles(over), traded' \in Seq(Tick),
         NEW s, NEW t, Reads(s, t, r, q, gap, over)
  PROVE  ReaderInv'
<1>1. FeedOK /\ Caught(Reader)
    BY NowCaught DEF ReaderInv
<1>2. /\ log' \in Seq(Diff) /\ Len(log') = 2
      /\ log'[1] = Difference(pen, r, gap, FALSE)
      /\ log'[2] = Difference(s.last, q, 0, over)
      /\ pen' = Held(q, pen.time + gap)
      /\ UNCHANGED stream
  <2>1. /\ log' \in Seq(Diff) /\ Len(log') = 2
        /\ log'[1] = Difference(pen, r, gap, FALSE)
        /\ log'[2] = Difference(Held(r, pen.time + gap), q, 0, over)
        /\ pen' = Held(q, pen.time + gap)
        /\ UNCHANGED stream
      BY <1>1, WriteTwo
  <2> QED BY <2>1 DEF Reads
<1>3. pen.time + gap \in 0..MaxTime
  <2>1. pen \in Values
      BY <1>1 DEF FeedOK
  <2> QED BY <2>1, RecordTypes, Bounds
<1>4. pen' \in Values /\ pen'.deal = q.deal
    BY <1>2, <1>3, HeldType DEF Held
<1>5. Reader' = Reader
    BY <1>2 DEF stream, Reader
<1>6. After(Reader, log'[1]) = s /\ After(s, log'[2]) = t /\ s \in State
    BY <1>2 DEF Reads
<1>7. With(book', order') \in Raw
    BY WithType, OrderParts DEF Settles
<1>8. t \in State
    BY <1>2, <1>4, <1>7 DEF State, Reads
<1>9. Caught(After(After(Reader, log[1]), log[2]))'
  <2>1. After(After(Reader', log'[1]), log'[2]) = t
      BY <1>5, <1>6
  <2> HIDE DEF Reader
  <2> QED BY <1>2, <1>4, <1>8, <2>1 DEF Caught, Reads
<1>10. (After(Reader, log[1]) \in State)'
    BY <1>5, <1>6
<1>11. ~log'[1].end
    BY <1>2 DEF Difference
<1>12. Reading'
    BY <1>2, <1>9, <1>10, <1>11, ReadingTwo
<1>13. Settling' <=> over
    BY <1>2, EndsTwo
<1> QED BY <1>2, <1>4, <1>12, <1>13, Assemble DEF Settles

\* Two records of the book, without deals
LEMMA TwoQuiet ==
  ASSUME PricesAssumption, BoundsAssumption, ReaderInv, log = <<>>,
         NEW r, Quiet(r), NEW q, Quiet(q), NEW gap \in 0..MaxGap, NEW over \in BOOLEAN,
         Write(<<r, q>>, gap, over), pen.time + gap <= MaxTime,
         Settles(over), traded' = traded,
         NEW mid \in Raw, mid = Booking(With(book, order), r),
         With(book', order') = Booking(mid, q)
  PROVE  ReaderInv'
<1> USE DEF Quiet, Booking
<1>1. /\ Reader \in State /\ Reader.last = pen /\ Reader.raw = With(book, order) /\ Reader.ticks = traded
      /\ Reader.pushed <= pen.deal
    BY NowCaught DEF Caught
<1>2. pen \in Values /\ pen.time + gap \in 0..MaxTime /\ gap \in Nat /\ traded \in Seq(Tick)
  <2>1. pen \in Values /\ traded \in Seq(Tick)
      BY DEF FeedOK, ReaderInv
  <2> QED BY <2>1, RecordTypes, Bounds
<1> DEFINE now == Reader
           s == Booked(now, r, gap)
           t == Booked(s, q, 0)
<1> HIDE DEF now
<1>3. now \in State /\ now.last = pen /\ now.raw = With(book, order) /\ now.ticks = traded
      /\ now.pushed <= pen.deal
    BY <1>1 DEF now
<1>4. After(now, Difference(pen, r, gap, FALSE)) = s
  <2>1. After(now, Difference(now.last, r, gap, FALSE)) = Booked(now, r, gap)
      BY <1>2, <1>3, QuietRecord
  <2> QED BY <1>3, <2>1
<1>5. s = [last |-> Held(r, pen.time + gap), raw |-> mid, pushed |-> now.pushed,
           ticks |-> traded]
    BY <1>3 DEF Booked
<1>6. s \in State /\ s.last = Held(r, pen.time + gap) /\ s.last.deal = q.deal
  <2>1. Held(r, pen.time + gap) \in Values /\ Held(r, pen.time + gap).deal = q.deal
      BY <1>2, HeldType DEF Held
  <2> HIDE DEF s
  <2> QED BY <1>2, <1>3, <1>5, <2>1 DEF State
<1> HIDE DEF s
<1>7. After(s, Difference(s.last, q, 0, over)) = t
    BY <1>6, QuietRecord
<1>8. t = [last |-> Held(q, pen.time + gap), raw |-> With(book', order'),
           pushed |-> now.pushed, ticks |-> traded]
  <2>1. s.last.time + 0 = pen.time + gap
      BY <1>2, <1>6 DEF Held
  <2> QED BY <1>5, <2>1 DEF Booked
<1>9. now.pushed \in 0..MaxDeals
    BY <1>3 DEF State
<1> HIDE DEF t
<1>10. /\ t.last = Held(q, pen.time + gap) /\ t.raw = With(book', order')
       /\ t.pushed \in 0..MaxDeals /\ t.pushed <= q.deal /\ t.ticks = traded'
       /\ t = [last |-> t.last, raw |-> t.raw, pushed |-> t.pushed, ticks |-> t.ticks]
    BY <1>3, <1>8, <1>9
<1>11. After(Reader, Difference(pen, r, gap, FALSE)) = s
    BY <1>4 DEF now
<1>12. traded' \in Seq(Tick)
    BY <1>2
<1>13. Reads(s, t, r, q, gap, over)
    BY <1>6, <1>7, <1>10, <1>11 DEF Reads
<1> QED BY <1>12, <1>13, TwoRecords

\* The two records of a deal
LEMMA TwoDealing ==
  ASSUME PricesAssumption, BoundsAssumption, ReaderInv, log = <<>>,
         NEW r \in Whole, NEW q \in Whole, NEW over \in BOOLEAN,
         Write(<<r, q>>, 0, over),
         ~Skipped(r), r.amount > 0, r.kind = "Fill", r.deal = pen.deal + 1,
         ~Skipped(q), q.amount > 0, q.kind = "Fill", q.deal = r.deal,
         [id |-> r.deal, price |-> r.paid, volume |-> r.amount] \in Tick,
         Settles(over),
         traded' = Append(traded, [id |-> r.deal, price |-> r.paid, volume |-> r.amount]),
         NEW mid \in Raw, mid = Booking(With(book, order), r),
         With(book', order') = Booking(mid, q)
  PROVE  ReaderInv'
<1> USE DEF Booking
<1>1. /\ Reader \in State /\ Reader.last = pen /\ Reader.raw = With(book, order) /\ Reader.ticks = traded
      /\ Reader.pushed <= pen.deal
    BY NowCaught DEF Caught
<1>2. /\ pen \in Values /\ pen.time + 0 \in 0..MaxTime /\ 0 \in Nat /\ traded \in Seq(Tick)
      /\ pen.time + 0 <= MaxTime /\ 0 \in 0..MaxGap
  <2>1. pen \in Values /\ traded \in Seq(Tick)
      BY DEF FeedOK, ReaderInv
  <2>2. pen.time \in 0..MaxTime
      BY <2>1 DEF Values
  <2> QED BY <2>1, <2>2, Bounds
<1> DEFINE now == Reader
           s == Dealing(now, r, 0)
           t == Dealing(s, q, 0)
           tick == [id |-> r.deal, price |-> r.paid, volume |-> r.amount]
<1> HIDE DEF now
<1>3. now \in State /\ now.last = pen /\ now.raw = With(book, order) /\ now.ticks = traded
      /\ now.pushed <= pen.deal
    BY <1>1 DEF now
<1>4. After(now, Difference(pen, r, 0, FALSE)) = s
  <2>1. After(now, Difference(now.last, r, 0, FALSE)) = Dealing(now, r, 0)
      BY <1>2, <1>3, DealRecord
  <2> QED BY <1>3, <2>1
<1>5. now.pushed < r.deal /\ r.deal \in 0..MaxDeals /\ ~(r.deal < r.deal)
  <2>1. now.pushed \in 0..MaxDeals /\ r.deal \in 0..MaxDeals
      BY <1>3 DEF State, Whole
  <2>2. pen.deal \in Nat
      BY <1>2, RecordTypes
  <2> QED BY <1>3, <2>1, <2>2, Bounds
<1> HIDE DEF tick
<1>6. s = [last |-> Held(r, pen.time + 0), raw |-> mid, pushed |-> r.deal,
           ticks |-> Append(traded, tick)]
    BY <1>3, <1>5 DEF Dealing, tick
<1>7. tick \in Tick /\ traded' = Append(traded, tick)
    BY DEF tick
<1>8. traded' \in Seq(Tick)
    BY <1>2, <1>7, AppendProperties
<1>9. s \in State /\ s.last = Held(r, pen.time + 0)
  <2>1. Held(r, pen.time + 0) \in Values
      BY <1>2, HeldType
  <2> HIDE DEF s
  <2> QED BY <1>5, <1>6, <1>7, <1>8, <2>1 DEF State
<1> HIDE DEF s
<1>10. After(s, Difference(s.last, q, 0, over)) = t
    BY <1>9, <1>2, DealRecord
<1>11. t = [last |-> Held(q, pen.time + 0), raw |-> With(book', order'),
            pushed |-> r.deal, ticks |-> traded']
  <2>1. s.last.time + 0 = pen.time + 0
      BY <1>2, <1>9 DEF Held
  <2> QED BY <1>5, <1>6, <1>7, <2>1 DEF Dealing
<1> HIDE DEF t
<1>12. Reads(s, t, r, q, 0, over)
  <2>1. After(Reader, Difference(pen, r, 0, FALSE)) = s
      BY <1>4 DEF now
  <2>2. /\ t.last = Held(q, pen.time + 0) /\ t.raw = With(book', order')
        /\ t.pushed \in 0..MaxDeals /\ t.pushed <= q.deal /\ t.ticks = traded'
        /\ t = [last |-> t.last, raw |-> t.raw, pushed |-> t.pushed, ticks |-> t.ticks]
      BY <1>5, <1>11
  <2> QED BY <1>9, <1>10, <2>1, <2>2 DEF Reads
<1> HIDE DEF Booking
<1> QED BY <1>2, <1>8, <1>12, TwoRecords

-----------------------------------------------------------------------------
(* The transactions of the exchange *)

Incoming == [dir : Dirs, price : Prices, left : 0..MaxVolume]

LEMMA LevelInt ==
  ASSUME PricesAssumption, BoundsAssumption, NEW b \in [Prices -> Level]
  PROVE  \A p \in Prices : p \in Int /\ b[p] \in Int
<1>1. Level \subseteq Int
    BY Bounds DEF Level
<1>2. Prices \subseteq Int
    BY Bounds
<1> QED BY <1>1, <1>2

LEMMA IncomingParts ==
  ASSUME PricesAssumption, BoundsAssumption, NEW o \in Incoming
  PROVE  /\ o.dir \in Dirs /\ o.price \in Prices /\ o.price \in Int
         /\ o.left \in 0..MaxVolume /\ o.left \in Nat /\ o.left \in Int
<1>1. o.dir \in Dirs /\ o.price \in Prices /\ o.left \in 0..MaxVolume
    BY DEF Incoming
<1>2. Prices \subseteq Int
    BY Bounds
<1>3. o.left \in Nat
    BY <1>1, Bounds
<1>4. o.price \in Int
    BY <1>1, <1>2
<1>5. o.left \in Int
    BY <1>3
<1> QED BY <1>1, <1>3, <1>4, <1>5

LEMMA WithNone ==
  ASSUME PricesAssumption, BoundsAssumption, NEW b \in [Prices -> Level]
  PROVE  With(b, NoOrder) = b
<1>1. \A p \in Prices : p # NoOrder.price
    BY Bounds DEF NoOrder
<1>2. With(b, NoOrder) = [p \in Prices |-> b[p] + 0]
    BY <1>1 DEF With
<1>3. With(b, NoOrder) = [p \in Prices |-> b[p]]
    BY <1>2, LevelInt
<1> QED BY <1>3

LEMMA SignTimes ==
  ASSUME NEW dir \in Dirs, NEW n \in Int
  PROVE  /\ Sign(dir) * n \in Int
         /\ Sign(dir) * n = IF dir = "Sell" THEN n ELSE -n
         /\ n * Sign(dir) = IF dir = "Sell" THEN n ELSE -n
         /\ (-Sign(dir)) * n = IF dir = "Sell" THEN -n ELSE n
<1>1. CASE dir = "Sell"
    BY <1>1, SignOf
<1>2. CASE dir = "Buy"
    BY <1>2, SignOf
<1> QED BY <1>1, <1>2 DEF Dirs

\* What an order may trade with: bids at or above the price of one that sells,
\* asks at or below the price of one that buys
LEMMA MatchingIs ==
  ASSUME PricesAssumption, BoundsAssumption, NEW b \in [Prices -> Level], NEW o \in Incoming
  PROVE  \A q \in Prices :
            q \in Matching(b, o) <=> IF o.dir = "Sell" THEN b[q] < 0 /\ q >= o.price
                                     ELSE b[q] > 0 /\ q <= o.price
<1> TAKE q \in Prices
<1>1. b[q] \in Int /\ q \in Int /\ o.price \in Int /\ o.dir \in Dirs /\ q - o.price \in Int
  <2>1. b[q] \in Int /\ q \in Int /\ o.price \in Int /\ o.dir \in Dirs
      BY LevelInt, IncomingParts
  <2> QED BY <2>1
<1>2. /\ b[q] * Sign(o.dir) = IF o.dir = "Sell" THEN b[q] ELSE -b[q]
      /\ (q - o.price) * Sign(o.dir) = IF o.dir = "Sell" THEN q - o.price ELSE -(q - o.price)
    BY <1>1, SignTimes
<1>3. q \in Matching(b, o) <=> b[q] * Sign(o.dir) < 0 /\ (q - o.price) * Sign(o.dir) >= 0
    BY DEF Matching
<1> DEFINE x == b[q]
<1> HIDE DEF x
<1> QED BY <1>1, <1>2, <1>3 DEF x

\* Joining the book where it meets no other order, an order does not cross it.
LEMMA JoinApart ==
  ASSUME PricesAssumption, BoundsAssumption, NEW b \in [Prices -> Level], NEW o \in Incoming,
         Apart(b), o.left = 0 \/ Matching(b, o) = {}
  PROVE  Apart(With(b, o))
<1> DEFINE w == With(b, o)
           x == Sign(o.dir) * o.left
<1>1. /\ o.dir \in Dirs /\ o.price \in Prices /\ o.price \in Int
      /\ o.left \in Nat /\ o.left \in Int
    BY IncomingParts
<1>2. x = IF o.dir = "Sell" THEN o.left ELSE -o.left
    BY <1>1, SignTimes
<1>3. \A p \in Prices : w[p] = IF p = o.price THEN b[p] + x ELSE b[p]
  <2>1. \A p \in Prices : b[p] \in Int
      BY LevelInt
  <2>3. x \in Int
      BY <1>1, SignTimes
  <2> HIDE DEF x
  <2>2. \A p \in Prices : w[p] = b[p] + (IF p = o.price THEN x ELSE 0)
      BY DEF With, x
  <2> HIDE DEF w
  <2> TAKE p \in Prices
  <2>4. b[p] \in Int /\ w[p] = b[p] + (IF p = o.price THEN x ELSE 0)
      BY <2>1, <2>2
  <2>5. CASE p = o.price
      BY <2>4, <2>5
  <2>6. CASE p # o.price
      BY <2>4, <2>6
  <2> QED BY <2>5, <2>6
<1> HIDE DEF x, w
<1> SUFFICES ASSUME NEW p \in Prices, NEW q \in Prices, w[p] > 0, w[q] < 0 PROVE q < p
    BY DEF Apart, w
<1>4. p \in Int /\ q \in Int /\ b[p] \in Int /\ b[q] \in Int
    BY LevelInt
<1>5. b[p] > 0 /\ b[q] < 0 => q < p
    BY DEF Apart
<1>6. CASE o.left = 0
    BY <1>1, <1>2, <1>3, <1>4, <1>5, <1>6
<1>7. CASE Matching(b, o) = {}
  <2>1. IF o.dir = "Sell" THEN ~(b[p] < 0 /\ p >= o.price) /\ ~(b[q] < 0 /\ q >= o.price)
        ELSE ~(b[p] > 0 /\ p <= o.price) /\ ~(b[q] > 0 /\ q <= o.price)
      BY <1>7, MatchingIs
  <2>2. CASE o.dir = "Sell"
      BY <1>1, <1>2, <1>3, <1>4, <1>5, <2>1, <2>2
  <2>3. CASE o.dir # "Sell"
      BY <1>1, <1>2, <1>3, <1>4, <1>5, <2>1, <2>3
  <2> QED BY <2>2, <2>3
<1> QED BY <1>6, <1>7

LEMMA ProceedSettles ==
  ASSUME PricesAssumption, BoundsAssumption, NEW b \in [Prices -> Level], NEW o \in Incoming,
         NEW over \in BOOLEAN, Apart(b), Proceed(b, o, over, pen'.time)
  PROVE  Settles(over) /\ With(book', order') = With(b, o)
<1>1. CASE over
  <2>1. /\ o.left = 0 \/ Matching(b, o) = {}
        /\ With(b, o)[o.price] \in Level
        /\ book' = With(b, o) /\ order' = NoOrder
        /\ settled' = [time |-> pen'.time, book |-> With(b, o)]
      BY <1>1 DEF Proceed, Settled
  <2>2. With(b, o) \in [Prices -> Level]
    <3>1. \A p \in Prices : p # o.price => With(b, o)[p] = b[p]
      <4>1. \A p \in Prices : b[p] \in Int
          BY LevelInt
      <4> QED BY <4>1 DEF With
    <3>2. With(b, o) = [p \in Prices |-> With(b, o)[p]]
        BY DEF With
    <3>3. \A p \in Prices : With(b, o)[p] \in Level
        BY <2>1, <3>1
    <3> QED BY <3>2, <3>3
  <2>3. Apart(With(b, o))
      BY <2>1, JoinApart
  <2> QED BY <1>1, <2>1, <2>2, <2>3, WithNone DEF Settles, Orders
<1>2. CASE ~over
  <2>1. o.left > 0 /\ book' = b /\ order' = o /\ settled' = settled
      BY <1>2 DEF Proceed
  <2>2. o \in Orders
    <3>1. o.left \in 1..MaxVolume
        BY <2>1, Bounds DEF Incoming
    <3> QED BY <3>1 DEF Orders, Incoming
  <2> QED BY <1>2, <2>1, <2>2 DEF Settles
<1> QED BY <1>1, <1>2

\* An order that joins, and one that is cancelled, is written without a deal.
Plain(kind, dir, p, v) == Record(kind, dir, p, v, NoDeal, TRUE)

LEMMA RecordIsWhole ==
  ASSUME PricesAssumption, BoundsAssumption, ReaderInv,
         NEW kind \in {"Add", "Cancel"}, NEW dir \in Dirs, NEW p \in Prices,
         NEW v \in 1..MaxVolume, NEW r, r = Plain(kind, dir, p, v)
  PROVE  /\ Quiet(r) /\ r \in Whole /\ r.price = p /\ r.amount = v
         /\ Signed(r) = IF kind = "Add" THEN Sign(dir) ELSE -Sign(dir)
<1>1. pen \in Values
    BY DEF ReaderInv, FeedOK
<1>2. pen.deal \in 0..MaxDeals /\ pen.paid \in Prices \cup {0}
    BY <1>1 DEF Values
<1>3. v \in 0..MaxVolume /\ v > 0
    BY Bounds
<1>4. dir # "None" /\ dir \in Dirs \cup {"None"} /\ kind # "Fill"
    BY DEF Dirs
<1>5. r = [kind |-> kind, dir |-> dir, price |-> p, amount |-> v, system |-> TRUE,
           deal |-> pen.deal, paid |-> pen.paid]
    BY DEF Plain, Record, NoDeal
<1>6. r \in Whole
    BY <1>2, <1>3, <1>4, <1>5 DEF Whole
<1>7. ~Skipped(r) /\ Signed(r) = IF kind = "Add" THEN Sign(dir) ELSE -Sign(dir)
    BY <1>4, <1>5 DEF Skipped, Signed
<1>8. r.kind = kind /\ r.amount = v /\ r.price = p /\ r.deal = pen.deal
    BY <1>5
<1> QED BY <1>3, <1>4, <1>6, <1>7, <1>8 DEF Quiet

LEMMA AddIsWhole ==
  ASSUME PricesAssumption, BoundsAssumption, ReaderInv, NEW dir \in Dirs, NEW p \in Prices,
         NEW v \in 1..MaxVolume, NEW r, r = Plain("Add", dir, p, v)
  PROVE  Quiet(r) /\ r \in Whole /\ r.price = p /\ r.amount = v /\ Signed(r) = Sign(dir)
<1> DEFINE kind == "Add"
<1>1. kind \in {"Add", "Cancel"} /\ r = Plain(kind, dir, p, v) /\ kind = "Add"
    OBVIOUS
<1> HIDE DEF kind
<1>2. /\ Quiet(r) /\ r \in Whole /\ r.price = p /\ r.amount = v
      /\ Signed(r) = IF kind = "Add" THEN Sign(dir) ELSE -Sign(dir)
    BY <1>1, RecordIsWhole
<1> QED BY <1>1, <1>2

LEMMA CancelIsWhole ==
  ASSUME PricesAssumption, BoundsAssumption, ReaderInv, NEW dir \in Dirs, NEW p \in Prices,
         NEW v \in 1..MaxVolume, NEW r, r = Plain("Cancel", dir, p, v)
  PROVE  Quiet(r) /\ r \in Whole /\ r.price = p /\ r.amount = v /\ Signed(r) = -Sign(dir)
<1> DEFINE kind == "Cancel"
<1>1. kind \in {"Add", "Cancel"} /\ r = Plain(kind, dir, p, v) /\ kind # "Add"
    OBVIOUS
<1> HIDE DEF kind
<1>2. /\ Quiet(r) /\ r \in Whole /\ r.price = p /\ r.amount = v
      /\ Signed(r) = IF kind = "Add" THEN Sign(dir) ELSE -Sign(dir)
    BY <1>1, RecordIsWhole
<1> QED BY <1>1, <1>2

LEMMA OneTime ==
  ASSUME PricesAssumption, BoundsAssumption, ReaderInv,
         NEW r \in Whole, NEW gap \in 0..MaxGap, NEW over \in BOOLEAN,
         Write(<<r>>, gap, over)
  PROVE  pen'.time = pen.time + gap
<1>1. FeedOK
    BY DEF ReaderInv
<1>2. pen' = Held(r, pen.time + gap)
    BY <1>1, WriteOne
<1> QED BY <1>2 DEF Held

LEMMA TwoTime ==
  ASSUME PricesAssumption, BoundsAssumption, ReaderInv,
         NEW r \in Whole, NEW q \in Whole, NEW gap \in 0..MaxGap, NEW over \in BOOLEAN,
         Write(<<r, q>>, gap, over)
  PROVE  pen'.time = pen.time + gap
<1>1. FeedOK
    BY DEF ReaderInv
<1>2. pen' = Held(q, pen.time + gap)
    BY <1>1, WriteTwo
<1> QED BY <1>2 DEF Held

LEMMA WithJoin ==
  ASSUME PricesAssumption, BoundsAssumption, NEW b \in [Prices -> Level], NEW o \in Incoming
  PROVE  With(b, o) = [b EXCEPT ![o.price] = @ + Sign(o.dir) * o.left]
<1> DEFINE x == Sign(o.dir) * o.left
<1>1. o.price \in Prices /\ x \in Int
    BY IncomingParts, SignTimes
<1>2. \A p \in Prices : b[p] \in Int
    BY LevelInt
<1> HIDE DEF x
<1>3. With(b, o) = [p \in Prices |-> b[p] + (IF p = o.price THEN x ELSE 0)]
    BY DEF With, x
<1>4. \A p \in Prices : b[p] + (IF p = o.price THEN x ELSE 0) = IF p = o.price THEN b[p] + x
                                                              ELSE b[p]
    BY <1>1, <1>2
<1> DEFINE c == [b EXCEPT ![o.price] = @ + x]
<1>5. \A p \in Prices : c[p] = IF p = o.price THEN b[p] + x ELSE b[p]
    BY <1>1
<1>6. c = [p \in Prices |-> c[p]]
    OBVIOUS
<1>7. c = With(b, o)
  <2> HIDE DEF c
  <2> QED BY <1>3, <1>4, <1>5, <1>6
<1> QED BY <1>7 DEF x

\* A level that shrinks leaves the book uncrossed.
LEMMA ShrinkApart ==
  ASSUME PricesAssumption, BoundsAssumption, NEW b \in [Prices -> Level], Apart(b),
         NEW q \in Prices, NEW x \in Int,
         IF b[q] > 0 THEN 0 <= x /\ x <= b[q] ELSE b[q] <= x /\ x <= 0
  PROVE  [b EXCEPT ![q] = x] \in [Prices -> Level] /\ Apart([b EXCEPT ![q] = x])
<1> DEFINE c == [b EXCEPT ![q] = x]
<1>1. b[q] \in -MaxLevel..MaxLevel /\ b[q] \in Int
    BY DEF Level
<1>2. x \in Level
    BY <1>1, Bounds DEF Level
<1>3. c \in [Prices -> Level]
    BY <1>2
<1>4. \A p \in Prices : c[p] = IF p = q THEN x ELSE b[p]
    OBVIOUS
<1> HIDE DEF c
<1>5. \A p \in Prices : /\ c[p] > 0 => b[p] > 0
                        /\ c[p] < 0 => b[p] < 0
    BY <1>1, <1>4
<1>6. Apart(c)
    BY <1>5 DEF Apart
<1> QED BY <1>3, <1>6 DEF c

LEMMA BookOf ==
  ASSUME ReaderInv
  PROVE  /\ book \in [Prices -> Level] /\ order \in Orders /\ Apart(book)
         /\ pen \in Values /\ traded \in Seq(Tick) /\ FeedOK
BY DEF ReaderInv, FeedOK, Orders

LEMMA WriteOrderKeeps ==
  ASSUME PricesAssumption, BoundsAssumption, ReaderInv,
         NEW gap \in 0..MaxGap, NEW p \in Prices, NEW v \in 1..MaxVolume,
         NEW dir \in Dirs, NEW over \in BOOLEAN, WriteOrder(dir, p, v, over, gap)
  PROVE  ReaderInv'
<1> DEFINE o == [dir |-> dir, price |-> p, left |-> v]
           r == Record("Add", dir, p, v, NoDeal, TRUE)
<1>1. /\ log = <<>> /\ order = NoOrder /\ pen.time + gap <= MaxTime
      /\ Write(<<r>>, gap, over) /\ Proceed(book, o, over, pen.time + gap)
      /\ traded' = traded
    BY DEF WriteOrder, Ready
<1>0. r = Plain("Add", dir, p, v)
    BY DEF Plain
<1>2. v \in 0..MaxVolume
    BY Bounds
<1>3. o \in Incoming /\ o.price = p /\ o.dir = dir /\ o.left = v
    BY <1>2 DEF Incoming
<1> HIDE DEF r, o
<1>4. Quiet(r) /\ r \in Whole /\ r.price = p /\ r.amount = v /\ Signed(r) = Sign(dir)
    BY <1>0, AddIsWhole
<1>5. pen'.time = pen.time + gap
    BY <1>1, <1>4, OneTime
<1>6. Settles(over) /\ With(book', order') = With(book, o)
    BY <1>1, <1>3, <1>5, BookOf, ProceedSettles
<1>7. With(book', order') = Booking(With(book, order), r)
  <2>1. With(book, order) = book
      BY <1>1, BookOf, WithNone
  <2>2. With(book, o) = [book EXCEPT ![o.price] = @ + Sign(o.dir) * o.left]
      BY <1>3, BookOf, WithJoin
  <2> QED BY <1>3, <1>4, <1>6, <2>1, <2>2 DEF Booking
<1> QED BY <1>1, <1>4, <1>6, <1>7, OneRecord

\* An order under way is one that can join the book.
LEMMA UnderWay ==
  ASSUME PricesAssumption, BoundsAssumption, NEW o \in Orders, o.left > 0
  PROVE  o \in Incoming /\ o.left \in 1..MaxVolume
<1>1. o # NoOrder
    BY DEF NoOrder
<1>2. o \in [dir : Dirs, price : Prices, left : 1..MaxVolume]
    BY <1>1 DEF Orders
<1>3. 1..MaxVolume \subseteq 0..MaxVolume
    BY Bounds
<1> QED BY <1>2, <1>3 DEF Incoming

LEMMA WriteRestKeeps ==
  ASSUME PricesAssumption, BoundsAssumption, ReaderInv, WriteRest
  PROVE  ReaderInv'
<1> DEFINE r == Record("Cancel", order.dir, order.price, order.left, NoDeal, TRUE)
           x == Sign(order.dir) * order.left
<1>1. /\ log = <<>> /\ Write(<<r>>, 0, TRUE) /\ traded' = traded
      /\ book' = book /\ order' = NoOrder /\ settled' = [time |-> pen.time, book |-> book]
    BY DEF WriteRest, Settled
<1>2. order \in Incoming /\ order.left \in 1..MaxVolume
    BY UnderWay, BookOf DEF WriteRest
<1>3. /\ order.dir \in Dirs /\ order.price \in Prices /\ x \in Int
      /\ (-Sign(order.dir)) * order.left = -x
    BY <1>2, IncomingParts, SignTimes
<1>0. r = Plain("Cancel", order.dir, order.price, order.left)
    BY DEF Plain
<1> HIDE DEF r, x
<1>4. /\ Quiet(r) /\ r \in Whole
      /\ r.price = order.price /\ r.amount = order.left /\ Signed(r) = -Sign(order.dir)
  <2> DEFINE dir == order.dir
             p == order.price
             v == order.left
  <2>1. dir \in Dirs /\ p \in Prices /\ v \in 1..MaxVolume /\ r = Plain("Cancel", dir, p, v)
      BY <1>0, <1>2, <1>3
  <2> HIDE DEF dir, p, v
  <2>2. Quiet(r) /\ r \in Whole /\ r.price = p /\ r.amount = v /\ Signed(r) = -Sign(dir)
      BY <2>1, CancelIsWhole
  <2> QED BY <2>2 DEF dir, p, v
<1>5. 0 \in 0..MaxGap /\ pen.time + 0 <= MaxTime /\ pen.time + 0 = pen.time
  <2>1. pen.time \in 0..MaxTime
      BY BookOf DEF Values
  <2> QED BY <2>1, Bounds
<1>6. pen'.time = pen.time
  <2>1. pen'.time = pen.time + 0
      BY <1>1, <1>4, <1>5, OneTime
  <2> QED BY <1>5, <2>1
<1>7. Settles(TRUE)
    BY <1>1, <1>6, BookOf DEF Settles, Orders
<1>8. With(book', order') = Booking(With(book, order), r)
  <2>1. With(book', order') = book
      BY <1>1, BookOf, WithNone
  <2>2. With(book, order) = [book EXCEPT ![order.price] = @ + x]
      BY <1>2, BookOf, WithJoin DEF x
  <2>3. Signed(r) * r.amount = -x
      BY <1>3, <1>4
  <2>4. book[order.price] \in Int
      BY <1>3, BookOf, LevelInt
  <2> DEFINE k == order.price
             c == With(book, order)
             d == [c EXCEPT ![k] = @ + (-x)]
  <2>5. book \in [Prices -> Level] /\ k \in Prices
      BY <1>3, BookOf
  <2> HIDE DEF k, c
  <2>6. c = [book EXCEPT ![k] = @ + x] /\ book[k] \in Int
      BY <2>2, <2>4 DEF k, c
  <2>7. c[k] = book[k] + x /\ c \in [Prices -> Int \cup Level]
      BY <1>3, <2>5, <2>6
  <2>8. c[k] + (-x) = book[k]
      BY <1>3, <2>6, <2>7
  <2>9. d = book
      BY <2>5, <2>6, <2>7, <2>8
  <2>10. d = Booking(c, r)
      BY <1>4, <2>3 DEF Booking, k
  <2> QED BY <2>1, <2>9, <2>10 DEF c
<1> QED BY <1>1, <1>4, <1>5, <1>7, <1>8, OneRecord

\* What a cancellation leaves at its level
LEMMA LessKeeps ==
  ASSUME PricesAssumption, BoundsAssumption, ReaderInv,
         NEW p \in Prices, NEW v \in 1..MaxVolume, v <= Volume(book, p)
  PROVE  /\ Less(p, v) \in [Prices -> Level] /\ Apart(Less(p, v)) /\ Side(p) \in Dirs
         /\ Less(p, v) = [book EXCEPT ![p] = @ + (-Sign(Side(p))) * v]
<1>1. /\ book \in [Prices -> Level] /\ Apart(book) /\ book[p] \in Int /\ v \in Int /\ v > 0
    BY BookOf, LevelInt, Bounds
<1>2. Side(p) \in Dirs /\ (Side(p) = "Sell" <=> book[p] > 0)
    BY DEF Side, Dirs
<1> DEFINE y == Sign(Side(p)) * v
           z == (-Sign(Side(p))) * v
           u == book[p] - y
<1>3. y = (IF book[p] > 0 THEN v ELSE -v) /\ z = -y
    BY <1>1, <1>2, SignTimes
<1> HIDE DEF y, z
<1>4. u \in Int /\ u = book[p] + z
    BY <1>1, <1>3
<1>5. IF book[p] > 0 THEN 0 <= u /\ u <= book[p] ELSE book[p] <= u /\ u <= 0
    BY <1>1, <1>3 DEF Volume
<1>6. Less(p, v) = [book EXCEPT ![p] = u]
    BY <1>1 DEF Less, y
<1> HIDE DEF u
<1>7. Less(p, v) \in [Prices -> Level] /\ Apart(Less(p, v))
  <2>1. u \in Int
      BY <1>4
  <2>2. [book EXCEPT ![p] = u] \in [Prices -> Level] /\ Apart([book EXCEPT ![p] = u])
      BY <1>1, <1>5, <2>1, ShrinkApart
  <2> QED BY <1>6, <2>2
<1>8. Less(p, v) = [book EXCEPT ![p] = @ + (-Sign(Side(p))) * v]
    BY <1>1, <1>4, <1>6 DEF z
<1> QED BY <1>2, <1>7, <1>8

LEMMA WriteCancelKeeps ==
  ASSUME PricesAssumption, BoundsAssumption, ReaderInv,
         NEW gap \in 0..MaxGap, NEW p \in Prices, NEW v \in 1..MaxVolume,
         WriteCancel(p, v, gap)
  PROVE  ReaderInv'
<1> DEFINE r == Record("Cancel", Side(p), p, v, NoDeal, TRUE)
<1>1. /\ log = <<>> /\ order = NoOrder /\ pen.time + gap <= MaxTime /\ v <= Volume(book, p)
      /\ Write(<<r>>, gap, TRUE) /\ traded' = traded
      /\ book' = Less(p, v) /\ order' = NoOrder
      /\ settled' = [time |-> pen.time + gap, book |-> Less(p, v)]
    BY DEF WriteCancel, Ready, Settled
<1>2. /\ Less(p, v) \in [Prices -> Level] /\ Apart(Less(p, v)) /\ Side(p) \in Dirs
      /\ Less(p, v) = [book EXCEPT ![p] = @ + (-Sign(Side(p))) * v]
    BY <1>1, LessKeeps
<1>0. r = Plain("Cancel", Side(p), p, v)
    BY DEF Plain
<1> HIDE DEF r
<1>3. Quiet(r) /\ r \in Whole /\ r.price = p /\ r.amount = v /\ Signed(r) = -Sign(Side(p))
  <2> DEFINE dir == Side(p)
  <2>1. dir \in Dirs /\ r = Plain("Cancel", dir, p, v)
      BY <1>0, <1>2
  <2> HIDE DEF dir
  <2>2. Quiet(r) /\ r \in Whole /\ r.price = p /\ r.amount = v /\ Signed(r) = -Sign(dir)
      BY <2>1, CancelIsWhole
  <2> QED BY <2>2 DEF dir
<1>4. pen'.time = pen.time + gap
    BY <1>1, <1>3, OneTime
<1>5. Settles(TRUE)
    BY <1>1, <1>2, <1>4 DEF Settles, Orders
<1>6. With(book', order') = Booking(With(book, order), r)
  <2>1. With(book', order') = Less(p, v) /\ With(book, order) = book
      BY <1>1, <1>2, BookOf, WithNone
  <2> QED BY <1>2, <1>3, <2>1 DEF Booking
<1> QED BY <1>1, <1>3, <1>5, <1>6, OneRecord

LEMMA LevelIsRaw ==
  ASSUME PricesAssumption, BoundsAssumption, NEW b \in [Prices -> Level]
  PROVE  b \in Raw
<1>1. Level \subseteq -MaxLevel - MaxVolume..MaxLevel + MaxVolume
    BY Bounds DEF Level
<1> QED BY <1>1 DEF Raw

LEMMA WriteMoveKeeps ==
  ASSUME PricesAssumption, BoundsAssumption, ReaderInv,
         NEW gap \in 0..MaxGap, NEW p \in Prices, NEW v \in 1..MaxVolume,
         NEW q \in Prices, NEW over \in BOOLEAN, WriteMove(p, q, v, over, gap)
  PROVE  ReaderInv'
<1> DEFINE r == Record("Cancel", Side(p), p, v, NoDeal, TRUE)
           t == Record("Add", Side(p), q, v, NoDeal, TRUE)
           o == [dir |-> Side(p), price |-> q, left |-> v]
           mid == Less(p, v)
<1>1. /\ log = <<>> /\ order = NoOrder /\ pen.time + gap <= MaxTime /\ v <= Volume(book, p)
      /\ Write(<<r, t>>, gap, over) /\ traded' = traded
      /\ Proceed(mid, o, over, pen.time + gap)
    BY DEF WriteMove, Ready
<1>2. /\ mid \in [Prices -> Level] /\ Apart(mid) /\ Side(p) \in Dirs
      /\ mid = [book EXCEPT ![p] = @ + (-Sign(Side(p))) * v]
    BY <1>1, LessKeeps
<1>5. v \in 0..MaxVolume
    BY Bounds
<1>6. o \in Incoming /\ o.price = q /\ o.dir = Side(p) /\ o.left = v
    BY <1>2, <1>5 DEF Incoming
<1>0. /\ r = Plain("Cancel", Side(p), p, v)
      /\ t = Plain("Add", Side(p), q, v)
    BY DEF Plain
<1> HIDE DEF r, t, o, mid
<1>3. /\ Quiet(r) /\ r \in Whole /\ r.price = p /\ r.amount = v /\ Signed(r) = -Sign(Side(p))
      /\ Quiet(t) /\ t \in Whole /\ t.price = q /\ t.amount = v /\ Signed(t) = Sign(Side(p))
  <2> DEFINE dir == Side(p)
  <2>1. dir \in Dirs /\ r = Plain("Cancel", dir, p, v) /\ t = Plain("Add", dir, q, v)
      BY <1>0, <1>2
  <2> HIDE DEF dir
  <2>2. Quiet(r) /\ r \in Whole /\ r.price = p /\ r.amount = v /\ Signed(r) = -Sign(dir)
      BY <2>1, CancelIsWhole
  <2>3. Quiet(t) /\ t \in Whole /\ t.price = q /\ t.amount = v /\ Signed(t) = Sign(dir)
      BY <2>1, AddIsWhole
  <2> QED BY <2>2, <2>3 DEF dir
<1>7. pen'.time = pen.time + gap
    BY <1>1, <1>3, TwoTime
<1>8. Settles(over) /\ With(book', order') = With(mid, o)
    BY <1>1, <1>2, <1>6, <1>7, ProceedSettles
<1>9. mid = Booking(With(book, order), r) /\ mid \in Raw
  <2>1. With(book, order) = book
      BY <1>1, BookOf, WithNone
  <2> QED BY <1>2, <1>3, <2>1, LevelIsRaw DEF Booking
<1>10. With(book', order') = Booking(mid, t)
  <2>1. With(mid, o) = [mid EXCEPT ![o.price] = @ + Sign(o.dir) * o.left]
      BY <1>2, <1>6, WithJoin
  <2> QED BY <1>3, <1>6, <1>8, <2>1 DEF Booking
<1> QED BY <1>1, <1>3, <1>8, <1>9, <1>10, TwoQuiet

\* One record of a deal
Fills(dir, p, n, d) == Record("Fill", dir, p, n, d, TRUE)

LEMMA FillIsWhole ==
  ASSUME PricesAssumption, BoundsAssumption,
         NEW dir \in Dirs, NEW p \in Prices, NEW n \in 1..MaxVolume, NEW d \in Tick,
         NEW r, r = Fills(dir, p, n, d)
  PROVE  /\ r \in Whole /\ ~Skipped(r) /\ r.amount > 0 /\ r.kind = "Fill"
         /\ r.deal = d.id /\ r.paid = d.price
         /\ r.price = p /\ r.amount = n /\ Signed(r) = -Sign(dir)
<1>1. d.id \in 1..MaxDeals /\ d.price \in Prices
    BY DEF Tick
<1>2. d.id \in 0..MaxDeals /\ n \in 0..MaxVolume /\ n > 0
    BY <1>1, Bounds
<1>3. dir # "None" /\ dir \in Dirs \cup {"None"}
    BY DEF Dirs
<1>4. r = [kind |-> "Fill", dir |-> dir, price |-> p, amount |-> n, system |-> TRUE,
           deal |-> d.id, paid |-> d.price]
    BY DEF Fills, Record
<1>5. r \in Whole
    BY <1>1, <1>2, <1>3, <1>4 DEF Whole
<1>6. ~Skipped(r) /\ Signed(r) = -Sign(dir)
    BY <1>3, <1>4 DEF Skipped, Signed
<1> QED BY <1>2, <1>4, <1>5, <1>6

LEMMA OtherSign ==
  ASSUME NEW dir \in Dirs
  PROVE  Other(dir) \in Dirs /\ -Sign(Other(dir)) = Sign(dir)
<1>1. \E d \in Dirs : d # dir
    BY DEF Dirs
<1>2. Other(dir) \in Dirs /\ Other(dir) # dir
    BY <1>1 DEF Other
<1>3. CASE dir = "Sell"
  <2>1. Other(dir) = "Buy"
      BY <1>2, <1>3 DEF Dirs
  <2>2. Sign(Other(dir)) = -1 /\ Sign(dir) = 1
      BY <1>3, <2>1, SignOf
  <2> DEFINE x == Sign(Other(dir))
  <2>3. x \in Int /\ x + 1 = 0
      BY <2>2
  <2> HIDE DEF x
  <2>4. -x = 1
      BY <2>3
  <2> QED BY <1>2, <2>2, <2>4 DEF x
<1>4. CASE dir = "Buy"
  <2>1. Other(dir) = "Sell"
      BY <1>2, <1>4 DEF Dirs
  <2>2. Sign(Other(dir)) = 1 /\ Sign(dir) = -1
      BY <1>4, <2>1, SignOf
  <2> QED BY <1>2, <2>2
<1>5. -Sign(Other(dir)) = Sign(dir)
    BY <1>3, <1>4 DEF Dirs
<1> QED BY <1>2, <1>5

\* What a deal takes of an order the level has, and leaves the book uncrossed
LEMMA DealParts ==
  ASSUME PricesAssumption, BoundsAssumption, NEW b \in [Prices -> Level], Apart(b),
         NEW o \in Incoming, o.left \in 1..MaxVolume, NEW q \in Prices, q \in Matching(b, o),
         NEW n, n = IF Volume(b, q) < o.left THEN Volume(b, q) ELSE o.left
  PROVE  /\ n \in 1..MaxVolume /\ n <= o.left
         /\ [b EXCEPT ![q] = @ + Sign(o.dir) * n] \in [Prices -> Level]
         /\ Apart([b EXCEPT ![q] = @ + Sign(o.dir) * n])
         /\ [o EXCEPT !.left = @ - n] \in Incoming
<1>1. /\ o.dir \in Dirs /\ o.price \in Prices /\ o.left \in 0..MaxVolume /\ o.left \in Int
      /\ o.left > 0 /\ b[q] \in Int
    BY IncomingParts, LevelInt, Bounds
<1>2. IF o.dir = "Sell" THEN b[q] < 0 ELSE b[q] > 0
    BY MatchingIs
<1>3. n \in 1..MaxVolume /\ n <= o.left /\ n \in Int /\ n <= Volume(b, q)
  <2>1. Volume(b, q) \in Int /\ Volume(b, q) > 0
      BY <1>1, <1>2 DEF Volume
  <2> QED BY <1>1, <2>1, Bounds
<1> DEFINE y == Sign(o.dir) * n
           u == b[q] + y
<1>4. y = IF o.dir = "Sell" THEN n ELSE -n
    BY <1>1, <1>3, SignTimes
<1> HIDE DEF y
<1>5. u \in Int /\ IF b[q] > 0 THEN 0 <= u /\ u <= b[q] ELSE b[q] <= u /\ u <= 0
  <2>1. CASE o.dir = "Sell"
      BY <1>1, <1>2, <1>3, <1>4, <2>1 DEF Volume
  <2>2. CASE o.dir # "Sell"
      BY <1>1, <1>2, <1>3, <1>4, <2>2 DEF Volume
  <2> QED BY <2>1, <2>2
<1> HIDE DEF u
<1>6. [b EXCEPT ![q] = u] \in [Prices -> Level] /\ Apart([b EXCEPT ![q] = u])
  <2>1. u \in Int
      BY <1>5
  <2> QED BY <1>5, <2>1, ShrinkApart
<1>7. [o EXCEPT !.left = @ - n] \in Incoming
  <2>1. o.left - n \in 0..MaxVolume
      BY <1>1, <1>3, Bounds
  <2> QED BY <2>1 DEF Incoming
<1> QED BY <1>3, <1>6, <1>7 DEF u, y

\* What a deal of n units makes of the level it meets, of the level the order was
\* to join, and of the order
Meets(b, q, o, n) == [b EXCEPT ![q] = @ + Sign(o.dir) * n]
Spends(b, p, o, n) == [b EXCEPT ![p] = @ + (-Sign(o.dir)) * n]
Spent(o, n) == [o EXCEPT !.left = @ - n]

\* The book with what is left of the order: the deal takes as much of it as of the level.
LEMMA DealBooks ==
  ASSUME PricesAssumption, BoundsAssumption, NEW b \in [Prices -> Level],
         NEW o \in Incoming, NEW q \in Prices, NEW n \in Int,
         NEW c \in [Prices -> Level], c = Meets(b, q, o, n),
         NEW e \in Incoming, e = Spent(o, n)
  PROVE  /\ With(c, o) = Meets(With(b, o), q, o, n)
         /\ With(c, e) = Spends(With(c, o), o.price, o, n)
<1> USE DEF Meets, Spends, Spent
<1> DEFINE y == Sign(o.dir) * n
           z == (-Sign(o.dir)) * n
           x == Sign(o.dir) * o.left
           w == Sign(e.dir) * e.left
           k == o.price
<1>1. /\ o.dir \in Dirs /\ k \in Prices /\ o.left \in Int /\ e.left \in Int
      /\ e.dir = o.dir /\ e.price = k /\ e.left = o.left - n
  <2>1. o.dir \in Dirs /\ o.price \in Prices /\ o.left \in Int /\ e.left \in Int
      BY IncomingParts
  <2>2. e.dir = o.dir /\ e.price = o.price /\ e.left = o.left - n
      BY DEF Incoming
  <2> QED BY <2>1, <2>2
<1>2. y \in Int /\ x \in Int /\ z = -y /\ w = x - y
  <2>1. /\ y = (IF o.dir = "Sell" THEN n ELSE -n)
        /\ z = (IF o.dir = "Sell" THEN -n ELSE n)
        /\ x = (IF o.dir = "Sell" THEN o.left ELSE -o.left)
      BY <1>1, SignTimes
  <2>2. w = IF o.dir = "Sell" THEN e.left ELSE -e.left
      BY <1>1, SignTimes
  <2> HIDE DEF y, z, x, w
  <2> QED BY <1>1, <2>1, <2>2
<1>3. With(b, o) = [b EXCEPT ![k] = @ + x]
    BY WithJoin
<1>4. With(c, o) = [c EXCEPT ![k] = @ + x]
    BY WithJoin
<1>5. With(c, e) = [c EXCEPT ![k] = @ + w]
    BY <1>1, WithJoin
<1>6. c = [b EXCEPT ![q] = @ + y]
    OBVIOUS
<1>7. \A p \in Prices : b[p] \in Int
    BY LevelInt
<1> HIDE DEF y, z, x, w, k
<1>8. With(c, o) = [With(b, o) EXCEPT ![q] = @ + y]
  <2> DEFINE f == With(c, o)
             g == With(b, o)
             h == [g EXCEPT ![q] = @ + y]
  <2>1. g \in [Prices -> Int] /\ \A p \in Prices : g[p] = IF p = k THEN b[p] + x ELSE b[p]
      BY <1>1, <1>2, <1>3, <1>7
  <2>2. \A p \in Prices : c[p] = IF p = q THEN b[p] + y ELSE b[p]
      BY <1>6
  <2>3. \A p \in Prices : f[p] = IF p = k THEN c[p] + x ELSE c[p]
      BY <1>1, <1>4
  <2>4. f = [p \in Prices |-> f[p]]
      BY <1>4
  <2> HIDE DEF f, g
  <2>5. h = [p \in Prices |-> h[p]] /\ \A p \in Prices : h[p] = IF p = q THEN g[p] + y ELSE g[p]
      BY <2>1
  <2> HIDE DEF h
  <2>6. \A p \in Prices : f[p] = h[p]
      BY <1>2, <1>7, <2>1, <2>2, <2>3, <2>5
  <2>7. f = h
      BY <2>4, <2>5, <2>6
  <2> QED BY <2>7 DEF f, g, h
<1>9. With(c, e) = [With(c, o) EXCEPT ![k] = @ + z]
  <2>1. c[k] \in Int
      BY <1>1, LevelInt
  <2> DEFINE m == c[k]
             f == With(c, o)
  <2> HIDE DEF m
  <2>2. f[k] = m + x /\ f = [c EXCEPT ![k] = m + x]
      BY <1>1, <1>4 DEF m
  <2>3. m + x + z = m + w
      BY <1>2, <2>1 DEF m
  <2>4. With(c, e) = [c EXCEPT ![k] = m + w]
      BY <1>5 DEF m
  <2> HIDE DEF f
  <2>5. [f EXCEPT ![k] = f[k] + z] = [c EXCEPT ![k] = m + x + z]
      BY <1>1, <2>2
  <2> QED BY <2>3, <2>4, <2>5 DEF f
<1> QED BY <1>8, <1>9 DEF y, z, k

LEMMA WriteDealKeeps ==
  ASSUME PricesAssumption, BoundsAssumption, ReaderInv,
         NEW q \in Prices, NEW over \in BOOLEAN, WriteDeal(q, over)
  PROVE  ReaderInv'
<1> DEFINE n == IF Volume(book, q) < order.left THEN Volume(book, q) ELSE order.left
           d == [id |-> pen.deal + 1, price |-> q, volume |-> n]
           r == Record("Fill", Other(order.dir), q, n, d, TRUE)
           t == Record("Fill", order.dir, order.price, n, d, TRUE)
           c == [book EXCEPT ![q] = @ + Sign(order.dir) * n]
           e == [order EXCEPT !.left = @ - n]
<1>1. /\ log = <<>> /\ order.left > 0 /\ q \in Matching(book, order)
      /\ Write(<<r, t>>, 0, over) /\ Proceed(c, e, over, pen.time)
      /\ traded' = Append(traded, d)
    BY DEF WriteDeal, IsBest
<1>2. /\ order \in Incoming /\ order.left \in 1..MaxVolume
      /\ book \in [Prices -> Level] /\ Apart(book) /\ pen \in Values
    BY <1>1, UnderWay, BookOf
<1>3. /\ n \in 1..MaxVolume /\ n \in Int /\ c \in [Prices -> Level] /\ Apart(c)
      /\ e \in Incoming /\ order.dir \in Dirs /\ order.price \in Prices
  <2>1. n = IF Volume(book, q) < order.left THEN Volume(book, q) ELSE order.left
      OBVIOUS
  <2> HIDE DEF n
  <2>2. n \in 1..MaxVolume /\ c \in [Prices -> Level] /\ Apart(c) /\ e \in Incoming
      BY <1>1, <1>2, <2>1, DealParts
  <2>3. order.dir \in Dirs /\ order.price \in Prices
      BY <1>2, IncomingParts
  <2>4. n \in Int
      BY <2>2, Bounds
  <2> QED BY <2>2, <2>3, <2>4
<1>4. pen.deal + 1 \in 1..MaxDeals
  <2>1. pen.deal + 1 <= MaxDeals
    <3>1. Last(<<r, t>>) = t
        BY DEF Last
    <3>2. Last(<<r, t>>).deal <= MaxDeals
      <4> HIDE DEF r, t
      <4> QED BY <1>1 DEF Write
    <3>3. t.deal = pen.deal + 1
        BY DEF Record
    <3> HIDE DEF r, t
    <3> QED BY <3>1, <3>2, <3>3
  <2>2. pen.deal \in Nat
      BY <1>2, RecordTypes
  <2> QED BY <2>1, <2>2, Bounds
<1>5. d \in Tick /\ d.id = pen.deal + 1 /\ d.price = q /\ d.volume = n
  <2> HIDE DEF n
  <2> QED BY <1>3, <1>4 DEF Tick
<1>6. d = [id |-> d.id, price |-> d.price, volume |-> d.volume]
    OBVIOUS
<1>7. r = Fills(Other(order.dir), q, n, d) /\ t = Fills(order.dir, order.price, n, d)
    BY DEF Fills
<1>8. /\ c = [book EXCEPT ![q] = @ + Sign(order.dir) * n]
      /\ e = [order EXCEPT !.left = @ - n]
    OBVIOUS
<1> HIDE DEF n, d, r, t, c, e
<1>9. /\ r \in Whole /\ ~Skipped(r) /\ r.amount > 0 /\ r.kind = "Fill"
      /\ r.deal = d.id /\ r.paid = d.price /\ r.price = q /\ r.amount = n
      /\ Signed(r) = Sign(order.dir)
  <2> DEFINE dir == Other(order.dir)
  <2>1. dir \in Dirs /\ -Sign(dir) = Sign(order.dir)
      BY <1>3, OtherSign
  <2>2. r = Fills(dir, q, n, d) /\ n \in 1..MaxVolume /\ d \in Tick /\ dir \in Dirs
      BY <1>3, <1>5, <1>7, <2>1
  <2> HIDE DEF dir
  <2>3. /\ r \in Whole /\ ~Skipped(r) /\ r.amount > 0 /\ r.kind = "Fill"
        /\ r.deal = d.id /\ r.paid = d.price /\ r.price = q /\ r.amount = n
        /\ Signed(r) = -Sign(dir)
      BY <2>2, FillIsWhole
  <2> QED BY <2>1, <2>3
<1>10. /\ t \in Whole /\ ~Skipped(t) /\ t.amount > 0 /\ t.kind = "Fill"
       /\ t.deal = d.id /\ t.price = order.price /\ t.amount = n
       /\ Signed(t) = -Sign(order.dir)
  <2> DEFINE dir == order.dir
             p == order.price
  <2>1. /\ dir \in Dirs /\ p \in Prices /\ t = Fills(dir, p, n, d)
        /\ n \in 1..MaxVolume /\ d \in Tick
      BY <1>3, <1>5, <1>7
  <2> HIDE DEF dir, p
  <2>2. /\ t \in Whole /\ ~Skipped(t) /\ t.amount > 0 /\ t.kind = "Fill"
        /\ t.deal = d.id /\ t.price = p /\ t.amount = n /\ Signed(t) = -Sign(dir)
      BY <2>1, FillIsWhole
  <2> QED BY <2>2 DEF dir, p
<1>11. 0 \in 0..MaxGap
    BY Bounds
<1>12. pen'.time = pen.time
  <2>1. pen'.time = pen.time + 0
      BY <1>1, <1>9, <1>10, <1>11, TwoTime
  <2>2. pen.time \in Nat
      BY <1>2, RecordTypes
  <2> QED BY <2>1, <2>2
<1>13. Settles(over) /\ With(book', order') = With(c, e)
  <2>1. Proceed(c, e, over, pen'.time)
      BY <1>1, <1>12
  <2> QED BY <1>3, <2>1, ProceedSettles
<1> DEFINE mid == With(c, order)
<1>14. /\ mid = Meets(With(book, order), q, order, n)
       /\ With(c, e) = Spends(mid, order.price, order, n)
  <2> DEFINE o == order
  <2>1. /\ o \in Incoming /\ book \in [Prices -> Level] /\ n \in Int
        /\ c \in [Prices -> Level] /\ e \in Incoming
        /\ c = Meets(book, q, o, n) /\ e = Spent(o, n)
      BY <1>2, <1>3, <1>8 DEF Meets, Spent
  <2> HIDE DEF o
  <2>2. /\ With(c, o) = Meets(With(book, o), q, o, n)
        /\ With(c, e) = Spends(With(c, o), o.price, o, n)
      BY <2>1, DealBooks
  <2> QED BY <2>2 DEF o
<1>15. mid \in Raw
    BY <1>2, <1>3, IncomingParts, WithType
<1> HIDE DEF mid
<1>16. mid = Booking(With(book, order), r)
    BY <1>9, <1>14 DEF Booking, Meets
<1>17. With(book', order') = Booking(mid, t)
    BY <1>10, <1>13, <1>14 DEF Booking, Spends
<1>18. /\ [id |-> r.deal, price |-> r.paid, volume |-> r.amount] \in Tick
       /\ traded' = Append(traded, [id |-> r.deal, price |-> r.paid, volume |-> r.amount])
       /\ r.deal = pen.deal + 1 /\ t.deal = r.deal
  <2>1. [id |-> r.deal, price |-> r.paid, volume |-> r.amount] = d
      BY <1>5, <1>6, <1>9
  <2> QED BY <1>1, <1>5, <1>9, <1>10, <2>1
<1> QED BY <1>1, <1>9, <1>10, <1>13, <1>15, <1>16, <1>17, <1>18, TwoDealing

LEMMA WriteNonSystemKeeps ==
  ASSUME PricesAssumption, BoundsAssumption, ReaderInv,
         NEW gap \in 0..MaxGap, NEW p \in Prices, NEW dir \in Dirs,
         NEW kind \in {"Add", "Fill"}, WriteNonSystem(kind, dir, p, gap)
  PROVE  ReaderInv'
<1> DEFINE d == IF kind = "Fill" THEN [id |-> pen.deal + 1, price |-> p] ELSE NoDeal
           r == Record(kind, dir, p, MaxVolume, d, FALSE)
<1>1. /\ log = <<>> /\ pen.time + gap <= MaxTime /\ Write(<<r>>, gap, TRUE)
      /\ book' = book /\ order' = order /\ traded' = traded /\ settled' = settled
    BY DEF WriteNonSystem, Ready
<1>2. /\ book \in [Prices -> Level] /\ Apart(book) /\ order \in Orders /\ pen \in Values
    BY BookOf
<1>3. /\ pen.deal \in 0..MaxDeals /\ pen.deal \in Nat /\ pen.paid \in Prices \cup {0}
  <2>1. pen.deal \in Nat
      BY <1>2, RecordTypes
  <2> QED BY <1>2, <2>1 DEF Values
<1>4. d.id >= pen.deal /\ d.id \in Nat /\ d.price \in Prices \cup {0}
    BY <1>3 DEF NoDeal
<1> HIDE DEF d
<1>5. r = [kind |-> kind, dir |-> dir, price |-> p, amount |-> MaxVolume, system |-> FALSE,
           deal |-> d.id, paid |-> d.price]
    BY DEF Record
<1> HIDE DEF r
<1>6. d.id <= MaxDeals
  <2>1. Last(<<r>>) = r
      BY DEF Last
  <2>2. Last(<<r>>).deal <= MaxDeals
      BY <1>1 DEF Write
  <2>3. r.deal = d.id
      BY <1>5
  <2> QED BY <2>1, <2>2, <2>3
<1>7. d.id \in 0..MaxDeals /\ MaxVolume \in 0..MaxVolume /\ MaxVolume > 0
    BY <1>4, <1>6, Bounds
<1>8. dir \in Dirs \cup {"None"} /\ kind # "Session"
    OBVIOUS
<1>9. r \in Whole
    BY <1>4, <1>5, <1>7, <1>8 DEF Whole
<1>10. Skipped(r) /\ r.amount > 0 /\ r.deal >= pen.deal /\ r.kind # "Session"
    BY <1>4, <1>5, <1>7, <1>8 DEF Skipped
<1>11. Settles(FALSE) /\ With(book', order') = With(book, order)
    BY <1>1, <1>2 DEF Settles
<1> QED BY <1>1, <1>9, <1>10, <1>11, OtherRecord

LEMMA EmptyBook ==
  ASSUME PricesAssumption, BoundsAssumption
  PROVE  Empty \in [Prices -> Level] /\ Apart(Empty) /\ With(Empty, NoOrder) = Empty
<1>1. 0 \in Level
    BY Bounds DEF Level
<1>2. Empty \in [Prices -> Level]
    BY <1>1 DEF Empty
<1>3. Apart(Empty)
    BY DEF Apart, Empty
<1> QED BY <1>2, <1>3, WithNone

LEMMA WriteSessionKeeps ==
  ASSUME PricesAssumption, BoundsAssumption, ReaderInv,
         NEW gap \in 0..MaxGap, WriteSession(gap)
  PROVE  ReaderInv'
<1> DEFINE r == Record("Session", "None", pen.price, pen.amount, NoDeal, TRUE)
<1>1. /\ log = <<>> /\ order = NoOrder /\ pen.time + gap <= MaxTime
      /\ Write(<<r>>, gap, TRUE)
      /\ book' = Empty /\ order' = order /\ traded' = traded /\ settled' = settled
    BY DEF WriteSession, Ready
<1>2. pen \in Values
    BY BookOf
<1>3. /\ pen.deal \in 0..MaxDeals /\ pen.deal \in Nat /\ pen.paid \in Prices \cup {0}
      /\ pen.price \in Prices \cup {0} /\ pen.amount \in 0..MaxVolume
  <2>1. pen.deal \in Nat
      BY <1>2, RecordTypes
  <2> QED BY <1>2, <2>1 DEF Values
<1>4. r = [kind |-> "Session", dir |-> "None", price |-> pen.price, amount |-> pen.amount,
           system |-> TRUE, deal |-> pen.deal, paid |-> pen.paid]
    BY DEF Record, NoDeal
<1> HIDE DEF r
<1>5. r \in Whole
    BY <1>3, <1>4 DEF Whole
<1>6. /\ Skipped(r) /\ r.amount = pen.amount /\ r.deal = pen.deal /\ r.kind = "Session"
    BY <1>4 DEF Skipped
<1>7. r.deal >= pen.deal
    BY <1>3, <1>6
<1>8. Settles(FALSE) /\ With(book', order') = Empty
    BY <1>1, EmptyBook DEF Settles, Orders
<1> QED BY <1>1, <1>5, <1>6, <1>7, <1>8, OtherRecord

-----------------------------------------------------------------------------
(* Reading *)

\* Reading a record, whatever it is about
Step ==
    /\ log # <<>> /\ log' = Tail(log)
    /\ Reader' = After(Reader, log[1])
    /\ UNCHANGED exchange

LEMMA FirstOf ==
  ASSUME ReaderInv, log # <<>>
  PROVE  /\ log \in Seq(Diff) /\ Head(log) = log[1] /\ log[1] \in Diff
         /\ Tail(log) \in Seq(Diff) /\ Len(Tail(log)) = Len(log) - 1
         /\ Len(log) = 1 \/ Len(log) = 2
         /\ Len(log) = 1 => Tail(log) = <<>>
         /\ Len(log) = 2 => Tail(log) # <<>> /\ Tail(log)[1] = log[2]
<1>1. log \in Seq(Diff) /\ Len(log) \in 0..2
    BY DEF ReaderInv, Reading
<1>2. Len(log) \in Nat \ {0}
    BY <1>1, EmptySeq
<1>3. /\ Head(log) = log[1] /\ Head(log) \in Diff
      /\ Tail(log) \in Seq(Diff) /\ Len(Tail(log)) = Len(log) - 1
      /\ \A i \in 1..Len(Tail(log)) : Tail(log)[i] = log[i + 1]
    BY <1>1, HeadTailProperties
<1>4. Len(log) = 1 => Tail(log) = <<>>
  <2> DEFINE t == Tail(log)
  <2> SUFFICES ASSUME Len(log) = 1 PROVE t = <<>>
      OBVIOUS
  <2>1. t \in Seq(Diff) /\ Len(t) = 0
      BY <1>3
  <2> HIDE DEF t
  <2> QED BY <2>1, EmptySeq
<1>5. Len(log) = 2 => Tail(log) # <<>> /\ Tail(log)[1] = log[2]
  <2> SUFFICES ASSUME Len(log) = 2 PROVE Tail(log) # <<>> /\ Tail(log)[1] = log[2]
      OBVIOUS
  <2>1. Len(Tail(log)) = 1
      BY <1>3
  <2>2. Tail(log)[1] = log[1 + 1]
      BY <1>3, <2>1
  <2>3. Tail(log) # <<>>
    <3> SUFFICES ASSUME Tail(log) = <<>> PROVE FALSE
        OBVIOUS
    <3>1. Len(Tail(log)) = 0
        BY EmptySeq
    <3> QED BY <2>1, <3>1
  <2> QED BY <2>2, <2>3
<1> QED BY <1>1, <1>2, <1>3, <1>4, <1>5

LEMMA SkippedSteps ==
  ASSUME ReaderInv, ReadSkipped
  PROVE  Step /\ Skipped(log[1]) /\ UNCHANGED <<quotes, shown, lastPush>>
<1>1. log # <<>> /\ Head(log) = log[1]
    BY FirstOf DEF ReadSkipped
<1>2. /\ Skipped(log[1]) /\ last' = From(last, log[1])
      /\ raw' = (IF log[1].kind = "Session" THEN Empty ELSE raw)
      /\ log' = Tail(log)
      /\ UNCHANGED <<exchange, quotes, shown, lastPush, pushedDeal, ticks>>
    BY <1>1 DEF ReadSkipped, Skipped, Decoded, From
<1>3. Reader' = After(Reader, log[1])
    BY <1>2 DEF Reader, After
<1> QED BY <1>1, <1>2, <1>3 DEF Step

LEMMA RecordSteps ==
  ASSUME ReaderInv, ReadRecord
  PROVE  LET r == log[1]
             now == From(last, r)
             due == r.end /\ now.time - lastPush > Interval
         IN  /\ Step /\ ~Skipped(r) /\ last' = now
             /\ quotes' = IF r.end THEN Quotes(raw') ELSE quotes
             /\ lastPush' = IF due THEN now.time ELSE lastPush
             /\ shown' = IF due /\ quotes' # Empty THEN quotes' ELSE shown
<1> DEFINE r == log[1]
           now == From(last, r)
           due == r.end /\ now.time - lastPush > Interval
<1>1. log # <<>> /\ Head(log) = r
    BY FirstOf DEF ReadRecord
<1>2. Decoded(r) = now /\ DealOf(r) = DealIn(last, r)
    BY DEF Decoded, From, DealOf, DealIn
<1>3. /\ ~Skipped(r) /\ last' = now
      /\ raw' = [raw EXCEPT ![now.price] = @ + Signed(r) * now.amount]
      /\ quotes' = (IF r.end THEN Quotes(raw') ELSE quotes)
      /\ lastPush' = (IF Pushes(r) THEN now.time ELSE lastPush)
      /\ shown' = (IF Pushes(r) /\ quotes' # Empty THEN quotes' ELSE shown)
      /\ pushedDeal' = (IF NewDeal(r) THEN DealOf(r) ELSE pushedDeal)
      /\ ticks' = (IF NewDeal(r)
                   THEN Append(ticks, [id |-> DealOf(r), price |-> now.paid,
                                       volume |-> now.amount])
                   ELSE ticks)
      /\ log' = Tail(log) /\ UNCHANGED exchange
    BY <1>1, <1>2 DEF ReadRecord, Skipped
<1>4. (Pushes(r) <=> due) /\ (NewDeal(r) <=> pushedDeal < DealIn(last, r))
    BY <1>2 DEF Pushes, NewDeal
<1>5. Reader' = After(Reader, r)
  <2>1. Reader' = [last |-> last', raw |-> raw', pushed |-> pushedDeal', ticks |-> ticks']
      BY DEF Reader
  <2>2. /\ Reader.last = last /\ Reader.raw = raw /\ Reader.pushed = pushedDeal /\ Reader.ticks = ticks
      BY DEF Reader
  <2> DEFINE id == DealIn(last, r)
  <2>3. After(Reader, r) = [last |-> now,
                         raw |-> [raw EXCEPT ![now.price] = @ + Signed(r) * now.amount],
                         pushed |-> IF pushedDeal < id THEN id ELSE pushedDeal,
                         ticks |-> IF pushedDeal < id
                                   THEN Append(ticks, [id |-> id, price |-> now.paid,
                                                       volume |-> now.amount])
                                   ELSE ticks]
      BY <1>3, <2>2 DEF After
  <2> HIDE DEF now, r, id
  <2> QED BY <1>2, <1>3, <1>4, <2>1, <2>3 DEF id
<1> HIDE DEF now, due, r
<1>6. Step
    BY <1>1, <1>3, <1>5 DEF Step, r
<1> QED BY <1>3, <1>4, <1>6 DEF now, due, r

\* What remains of the invariant whatever the record was about.
LEMMA StepReads ==
  ASSUME ReaderInv, Step
  PROVE  /\ Reading' /\ (Reader \in State)' /\ log' \in Seq(Diff)
         /\ Len(log) = 1 => Caught(Reader)' /\ ~Settling'
         /\ Len(log) = 2 => ~log[1].end /\ (Settling' <=> Settling)
<1>1. /\ log \in Seq(Diff) /\ Tail(log) \in Seq(Diff) /\ Len(Tail(log)) = Len(log) - 1
      /\ Len(log) = 1 \/ Len(log) = 2
      /\ Len(log) = 1 => Tail(log) = <<>>
      /\ Len(log) = 2 => Tail(log) # <<>> /\ Tail(log)[1] = log[2]
    BY FirstOf DEF Step
<1>2. /\ log # <<>> /\ log' = Tail(log) /\ Reader' = After(Reader, log[1])
      /\ UNCHANGED <<pen, book, order, traded>>
    BY DEF Step, exchange
<1>3. Reading
    BY DEF ReaderInv
<1>4. CASE Len(log) = 1
  <2>1. Len(log') = 0 /\ log' = <<>>
      BY <1>1, <1>2, <1>4
  <2>2. Caught(After(Reader, log[1]))
      BY <1>3, <1>4 DEF Reading
  <2>3. Caught(Reader)'
    <3> DEFINE s == After(Reader, log[1])
    <3>1. s \in State /\ s.last = pen /\ s.pushed <= pen.deal /\ s.raw = With(book, order)
          /\ s.ticks = traded /\ Reader' = s
        BY <1>2, <2>2 DEF Caught
    <3> HIDE DEF s
    <3>2. /\ Reader' \in State /\ Reader'.last = pen' /\ Reader'.pushed <= pen'.deal
          /\ Reader'.raw = With(book', order') /\ Reader'.ticks = traded'
        BY <1>2, <3>1
    <3> HIDE DEF Reader
    <3> QED BY <3>2 DEF Caught
  <2>4. (Reader \in State)'
      BY <2>3 DEF Caught
  <2>5. Reading'
      BY <2>1, <2>3 DEF Reading
  <2>6. ~Settling'
      BY <2>1 DEF Settling
  <2> QED BY <1>1, <1>2, <1>4, <2>3, <2>4, <2>5, <2>6
<1>5. CASE Len(log) = 2
  <2>1. Len(log') = 1 /\ log' # <<>> /\ log'[1] = log[2]
      BY <1>1, <1>2, <1>5
  <2>2. /\ After(Reader, log[1]) \in State /\ ~log[1].end
        /\ Caught(After(After(Reader, log[1]), log[2]))
      BY <1>3, <1>5 DEF Reading
  <2>3. (Reader \in State)'
      BY <1>2, <2>2
  <2>4. Caught(After(Reader, log[1]))'
    <3> DEFINE s == After(After(Reader, log[1]), log[2])
    <3>1. s \in State /\ s.last = pen /\ s.pushed <= pen.deal /\ s.raw = With(book, order)
          /\ s.ticks = traded
        BY <2>2 DEF Caught
    <3>2. s = After(Reader', log'[1])
        BY <1>2, <2>1
    <3> HIDE DEF s
    <3>3. /\ s \in State /\ s.last = pen' /\ s.pushed <= pen'.deal
          /\ s.raw = With(book', order') /\ s.ticks = traded'
        BY <1>2, <3>1
    <3> HIDE DEF Reader
    <3> QED BY <3>2, <3>3 DEF Caught
  <2>5. Reading'
      BY <2>1, <2>4 DEF Reading
  <2>6. Settling' <=> Settling
      BY <1>2, <1>5, <2>1 DEF Settling
  <2> QED BY <1>1, <1>2, <1>5, <2>2, <2>3, <2>5, <2>6
<1> QED BY <1>1, <1>4, <1>5

LEMMA StepKeeps ==
  ASSUME ReaderInv, Step, {quotes', shown'} \subseteq [Prices -> Level],
         lastPush' \in -Interval - 1..MaxTime, Quoting', ShownSound'
  PROVE  ReaderInv'
<1>1. Reading' /\ (Reader \in State)' /\ log' \in Seq(Diff)
    BY StepReads
<1>2. UNCHANGED <<pen, book, order, traded, settled>>
    BY DEF Step, exchange
<1>3. last' \in Values /\ raw' \in Raw /\ pushedDeal' \in 0..MaxDeals /\ ticks' \in Seq(Tick)
    BY <1>1 DEF State, Reader
<1>4. FeedOK'
    BY <1>2, <1>3 DEF ReaderInv, FeedOK, Raw
<1>5. Apart(book)'
    BY <1>2 DEF ReaderInv, Apart
<1> QED BY <1>1, <1>4, <1>5 DEF ReaderInv

\* A record that ends no transaction of the book leaves the quotes alone.
LEMMA QuietStep ==
  ASSUME ReaderInv, Step, UNCHANGED <<quotes, shown, lastPush>>, ~log[1].end \/ Skipped(log[1])
  PROVE  ReaderInv'
<1>1. UNCHANGED <<pen, book, order, settled>>
    BY DEF Step, exchange
<1>2. Settling' <=> Settling
  <2>1. CASE Len(log) = 1
    <3>1. ~Settling
        BY <2>1 DEF Settling
    <3> QED BY <2>1, <3>1, StepReads
  <2>2. CASE Len(log) = 2
      BY <2>2, StepReads
  <2> QED BY <2>1, <2>2, FirstOf DEF Step
<1>3. Quoting
    BY DEF ReaderInv
<1>4. Quoting'
  <2>1. CASE Settling
      BY <1>1, <1>2, <1>3, <2>1 DEF Quoting
  <2>2. CASE ~Settling
    <3> HIDE DEF Settling
    <3>1. /\ TopOf(quotes, settled.book)
          /\ shown = quotes \/ quotes = Empty \/ settled.time - lastPush <= Interval
        BY <1>3, <2>2 DEF Quoting
    <3>2. /\ TopOf(quotes', settled'.book)
          /\ shown' = quotes' \/ quotes' = Empty \/ settled'.time - lastPush' <= Interval
        BY <1>1, <3>1
    <3> QED BY <1>2, <2>2, <3>2 DEF Quoting
  <2> QED BY <2>1, <2>2
<1>5. ShownSound'
    BY DEF ReaderInv, ShownSound, Empty
<1>6. {quotes', shown'} \subseteq [Prices -> Level] /\ lastPush' \in -Interval - 1..MaxTime
    BY DEF ReaderInv, FeedOK
<1> QED BY <1>4, <1>5, <1>6, StepKeeps

LEMMA QuotesType ==
  ASSUME PricesAssumption, BoundsAssumption, NEW b \in [Prices -> Level], Apart(b)
  PROVE  b \in [Prices -> Int] /\ Quotes(b) \in [Prices -> Level]
<1>1. b \in [Prices -> Int]
    BY LevelInt
<1>2. 0 \in Level
    BY Bounds DEF Level
<1> QED BY <1>1, <1>2, QuotesShape

LEMMA ReadSkippedKeeps ==
  ASSUME ReaderInv, ReadSkipped
  PROVE  ReaderInv'
BY SkippedSteps, QuietStep

LEMMA ReadRecordKeeps ==
  ASSUME PricesAssumption, BoundsAssumption, ReaderInv, ReadRecord
  PROVE  ReaderInv'
<1> DEFINE r == log[1]
           now == From(last, r)
           due == r.end /\ now.time - lastPush > Interval
<1>1. /\ Step /\ ~Skipped(r) /\ last' = now
      /\ quotes' = (IF r.end THEN Quotes(raw') ELSE quotes)
      /\ lastPush' = (IF due THEN now.time ELSE lastPush)
      /\ shown' = (IF due /\ quotes' # Empty THEN quotes' ELSE shown)
    BY RecordSteps
<1>2. CASE ~r.end
  <2>1. UNCHANGED <<quotes, shown, lastPush>>
      BY <1>1, <1>2
  <2> QED BY <1>1, <1>2, <2>1, QuietStep
<1>3. CASE r.end
  <2>1. Len(log) = 1
      BY <1>1, <1>3, FirstOf, StepReads DEF Step
  <2>2. Caught(Reader)' /\ ~Settling'
      BY <1>1, <2>1, StepReads
  <2>3. order = NoOrder /\ settled = [time |-> pen.time, book |-> book]
    <3>1. Settling
        BY <1>1, <1>3, <2>1 DEF Settling, Step
    <3> QED BY <3>1 DEF ReaderInv, Quoting
  <2>4. UNCHANGED <<pen, book, order, settled>>
      BY <1>1 DEF Step, exchange
  <2>5. book \in [Prices -> Level] /\ Apart(book) /\ pen \in Values
      BY BookOf
  <2>6. raw' = book /\ now = pen
    <3>1. last' = pen' /\ raw' = With(book', order')
        BY <2>2 DEF Caught, Reader
    <3>2. With(book', order') = book
        BY <2>3, <2>4, <2>5, WithNone
    <3> HIDE DEF now
    <3> QED BY <1>1, <2>4, <3>1, <3>2
  <2>7. quotes' = Quotes(book)
      BY <1>1, <1>3, <2>6
  <2>8. quotes' \in [Prices -> Level] /\ TopOf(quotes', book)
    <3>1. book \in [Prices -> Int]
        BY <2>5, QuotesType
    <3>2. Quotes(book) \in [Prices -> Level] /\ TopOf(Quotes(book), book)
        BY <2>5, <3>1, QuotesType, QuotesTop
    <3> QED BY <2>7, <3>2
  <2>9. now.time \in 0..MaxTime /\ settled' = [time |-> now.time, book |-> book]
      BY <2>3, <2>4, <2>5, <2>6 DEF Values
  <2> DEFINE time == now.time
  <2>10. /\ lastPush' = (IF time - lastPush > Interval THEN time ELSE lastPush)
         /\ shown' = (IF time - lastPush > Interval /\ quotes' # Empty THEN quotes' ELSE shown)
      BY <1>1, <1>3
  <2>11. time \in 0..MaxTime /\ settled'.time = time /\ settled'.book = book
      BY <2>9
  <2>12. lastPush \in -Interval - 1..MaxTime /\ shown \in [Prices -> Level]
      BY DEF ReaderInv, FeedOK
  <2> HIDE DEF time, now
  <2>13. lastPush' \in -Interval - 1..MaxTime
      BY <2>10, <2>11, <2>12, Bounds
  <2>14. {quotes', shown'} \subseteq [Prices -> Level]
      BY <2>8, <2>10, <2>12
  <2>15. shown' = quotes' \/ quotes' = Empty \/ settled'.time - lastPush' <= Interval
    <3>1. CASE time - lastPush > Interval
        BY <2>10, <3>1
    <3>2. CASE ~(time - lastPush > Interval)
      <4>1. lastPush' = lastPush /\ settled'.time = time
          BY <2>10, <2>11, <3>2
      <4>2. time - lastPush \in Int /\ Interval \in Int
          BY <2>11, <2>12, Bounds
      <4> QED BY <3>2, <4>1, <4>2
    <3> QED BY <3>1, <3>2
  <2>16. Quoting'
    <3>1. TopOf(quotes', settled'.book)
        BY <2>8, <2>11
    <3> HIDE DEF Settling
    <3> QED BY <2>2, <2>15, <3>1 DEF Quoting
  <2>17. ShownSound'
    <3>1. ShownSound
        BY DEF ReaderInv
    <3>2. CASE shown' = shown
        BY <3>1, <3>2 DEF ShownSound, Empty
    <3>3. CASE shown' = quotes' /\ quotes' # Empty
      <4>1. book \in [Prices -> Int] /\ Quotes(book) # Empty /\ shown' = Quotes(book)
          BY <2>5, <2>7, <3>3, QuotesType
      <4>2. /\ \E p \in Prices : Quotes(book)[p] > 0
            /\ \E p \in Prices : Quotes(book)[p] < 0
            /\ \A p, q \in Prices : Quotes(book)[p] > 0 /\ Quotes(book)[q] < 0 => q < p
          BY <2>5, <4>1, QuotesSound
      <4> QED BY <4>1, <4>2 DEF ShownSound
    <3> QED BY <2>10, <3>2, <3>3
  <2> QED BY <1>1, <2>13, <2>14, <2>16, <2>17, StepKeeps
<1> QED BY <1>2, <1>3

-----------------------------------------------------------------------------
(* The invariant, and what follows from it *)

LEMMA InitInv ==
  ASSUME PricesAssumption, BoundsAssumption, FeedInit
  PROVE  ReaderInv
<1>1. Empty \in [Prices -> Level] /\ Apart(Empty) /\ With(Empty, NoOrder) = Empty
    BY EmptyBook
<1>2. pen \in Values
  <2>1. 0 \in Prices \cup {0} /\ 0 \in 0..MaxVolume /\ 0 \in 0..MaxDeals /\ 0 \in 0..MaxTime
      BY Bounds
  <2> QED BY <2>1 DEF FeedInit, Values
<1>3. /\ 0 \in 0..MaxTime /\ 0 \in 0..MaxDeals /\ -Interval - 1 \in -Interval - 1..MaxTime
      /\ <<>> \in Seq(Tick) /\ log \in Seq(Diff)
  <2>1. <<>> \in Seq(Tick) /\ log \in Seq(Diff)
      BY EmptySeq DEF FeedInit
  <2> QED BY <2>1, Bounds
<1>4. /\ book = Empty /\ raw = Empty /\ quotes = Empty /\ shown = Empty /\ last = pen
      /\ order = NoOrder /\ log = <<>> /\ traded = <<>> /\ ticks = <<>>
      /\ settled = [time |-> 0, book |-> Empty] /\ lastPush = -Interval - 1 /\ pushedDeal = 0
      /\ pen.deal = 0
    BY DEF FeedInit
<1>5. Empty \in Raw
    BY <1>1, LevelIsRaw
<1>6. FeedOK
    BY <1>1, <1>2, <1>3, <1>4, <1>5 DEF FeedOK, Raw
<1>7. Reading
  <2>1. Reader = [last |-> pen, raw |-> Empty, pushed |-> 0, ticks |-> <<>>]
      BY <1>4 DEF Reader
  <2>2. Reader \in State
      BY <1>2, <1>3, <1>5, <2>1 DEF State
  <2> HIDE DEF Reader
  <2>3. Caught(Reader)
      BY <1>1, <1>4, <2>1, <2>2 DEF Caught
  <2>4. Len(log) = 0
      BY <1>4
  <2> QED BY <2>3, <2>4 DEF Reading
<1>8. Quoting
  <2>1. ~Settling
      BY <1>4 DEF Settling
  <2>2. TopOf(quotes, settled.book)
    <3>1. Bids(Empty) = {}
        BY DEF Bids, Empty
    <3>2. quotes = Empty /\ settled.book = Empty
        BY <1>4
    <3> QED BY <3>1, <3>2, TopOfSides
  <2> HIDE DEF Settling
  <2>3. shown = quotes
      BY <1>4
  <2> QED BY <2>1, <2>2, <2>3 DEF Quoting
<1>9. ShownSound
    BY <1>4 DEF ShownSound
<1>10. Apart(book)
    BY <1>1, <1>4
<1> QED BY <1>3, <1>6, <1>7, <1>8, <1>9, <1>10 DEF ReaderInv

LEMMA StutterKeeps ==
  ASSUME ReaderInv, UNCHANGED feed
  PROVE  ReaderInv'
<1>1. UNCHANGED <<book, pen, order, log, traded, settled, last, raw, quotes, shown, lastPush,
                  pushedDeal, ticks>>
    BY DEF feed, exchange, stream
<1> QED BY <1>1 DEF ReaderInv, FeedOK, Reading, Caught, Reader, Quoting, Settling, Apart, ShownSound, Empty

LEMMA NextKeeps ==
  ASSUME PricesAssumption, BoundsAssumption, ReaderInv, [FeedNext]_feed
  PROVE  ReaderInv'
<1>1. CASE \E gap \in 0..MaxGap, p \in Prices, v \in 1..MaxVolume, dir \in Dirs,
              over \in BOOLEAN : WriteOrder(dir, p, v, over, gap)
    BY <1>1, WriteOrderKeeps
<1>2. CASE \E gap \in 0..MaxGap, p \in Prices, v \in 1..MaxVolume : WriteCancel(p, v, gap)
    BY <1>2, WriteCancelKeeps
<1>3. CASE \E gap \in 0..MaxGap, p \in Prices, v \in 1..MaxVolume, q \in Prices,
              over \in BOOLEAN : WriteMove(p, q, v, over, gap)
    BY <1>3, WriteMoveKeeps
<1>4. CASE \E q \in Prices, over \in BOOLEAN : WriteDeal(q, over)
    BY <1>4, WriteDealKeeps
<1>5. CASE WriteRest
    BY <1>5, WriteRestKeeps
<1>6. CASE \E gap \in 0..MaxGap, p \in Prices, dir \in Dirs, kind \in {"Add", "Fill"} :
              WriteNonSystem(kind, dir, p, gap)
    BY <1>6, WriteNonSystemKeeps
<1>7. CASE \E gap \in 0..MaxGap : WriteSession(gap)
    BY <1>7, WriteSessionKeeps
<1>8. CASE ReadSkipped
    BY <1>8, ReadSkippedKeeps
<1>9. CASE ReadRecord
    BY <1>9, ReadRecordKeeps
<1>10. CASE UNCHANGED feed
    BY <1>10, StutterKeeps
<1> QED BY <1>1, <1>2, <1>3, <1>4, <1>5, <1>6, <1>7, <1>8, <1>9, <1>10 DEF FeedNext

\* Whatever part of the log the reader has read, it knows what that part says: once
\* it has read the rest it knows the exchange's book, its deals and the values of the
\* last record, and its quotes are those of the last transaction that has settled.
THEOREM ReaderCorrect == FeedSpec => []ReaderInv
<1>1. FeedInit => ReaderInv
    BY InitInv, PricesAssumption, BoundsAssumption
<1>2. ReaderInv /\ [FeedNext]_feed => ReaderInv'
    BY NextKeeps, PricesAssumption, BoundsAssumption
<1> QED BY <1>1, <1>2, PTL DEF FeedSpec

\* The reader's book, rebuilt from the differences of a log that also holds records of
\* other kinds, is the exchange's with the order under way, and m_quotes shows the best
\* levels of the book as the last transaction left it, never crossed and never one-sided
\* where they are shown (OrdLogStream::read, RawQuotes::quotes).
THEOREM BookCorrect == FeedSpec => []BookInv
<1>1. ReaderInv => BookInv
  <2> SUFFICES ASSUME ReaderInv PROVE BookInv
      OBVIOUS
  <2>1. BookRebuilt
    <3> SUFFICES ASSUME log = <<>>
                 PROVE  raw = With(book, order) /\ last = pen /\ TopOf(quotes, settled.book)
        BY DEF BookRebuilt
    <3>1. raw = With(book, order) /\ last = pen
        BY NowCaught DEF Caught, Reader
    <3>2. ~Settling
        BY DEF Settling
    <3>3. Quoting
        BY DEF ReaderInv
    <3> HIDE DEF Settling
    <3> QED BY <3>1, <3>2, <3>3 DEF Quoting
  <2> QED BY <2>1 DEF BookInv, ReaderInv
<1> QED BY <1>1, ReaderCorrect, PTL

\* t begins with s.
Begins(s, t) == Len(s) <= Len(t) /\ \A i \in 1..Len(s) : s[i] = t[i]

LEMMA BeginsIsPrefix ==
  ASSUME NEW S, NEW s \in Seq(S), NEW t \in Seq(S), Begins(s, t)
  PROVE  IsPrefix(s, t)
<1>1. /\ Len(s) \in Nat /\ Len(t) \in Nat /\ DOMAIN s = 1..Len(s) /\ DOMAIN t = 1..Len(t)
    BY LenProperties
<1>2. Len(s) \in 0..Len(s) /\ Len(s) \in 0..Len(t)
    BY <1>1 DEF Begins
<1>3. SubSeq(s, 1, Len(s)) = Restrict(s, 1..Len(s))
    BY <1>2, SubSeqRestrict
<1>4. SubSeq(t, 1, Len(s)) = Restrict(t, 1..Len(s))
    BY <1>2, SubSeqRestrict
<1>5. Restrict(s, 1..Len(s)) = Restrict(t, 1..Len(s))
    BY DEF Begins, Restrict
<1> QED BY <1>3, <1>4, <1>5 DEF IsPrefix, Begins

\* Reading a record, the reader hands on one more deal or none.
LEMMA TicksGrow ==
  ASSUME NEW s, NEW r, s.ticks \in Seq(Tick)
  PROVE  Begins(s.ticks, After(s, r).ticks)
<1> DEFINE l == From(s.last, r)
           id == DealIn(s.last, r)
           x == [id |-> id, price |-> l.paid, volume |-> l.amount]
           q == s.ticks
<1>1. q \in Seq(Tick \cup {x})
  <2>1. Seq(Tick) \subseteq Seq(Tick \cup {x})
      OBVIOUS
  <2> QED BY <2>1
<1>2. CASE After(s, r).ticks = q
  <2>1. Len(q) \in Nat
      BY <1>1, LenProperties
  <2> QED BY <1>2, <2>1 DEF Begins
<1>3. CASE After(s, r).ticks = Append(q, x)
  <2> HIDE DEF x
  <2>1. /\ Len(Append(q, x)) = Len(q) + 1 /\ \A i \in 1..Len(q) : Append(q, x)[i] = q[i]
        /\ Len(q) \in Nat
      BY <1>1, AppendProperties, LenProperties
  <2> QED BY <1>3, <2>1 DEF Begins
<1>4. After(s, r).ticks = q \/ After(s, r).ticks = Append(q, x)
  <2>1. CASE Skipped(r)
      BY <2>1 DEF After
  <2>2. CASE ~Skipped(r)
      BY <2>2 DEF After
  <2> QED BY <2>1, <2>2
<1> QED BY <1>2, <1>3, <1>4

\* The reader hands on the deals of the exchange in their order, each of them once
\* though it is in two records (OrdLogStream::read, m_last_pushed_deal_id).
THEOREM DealsOnceCorrect == FeedSpec => []DealsOnce
<1>1. ReaderInv => DealsOnce
  <2> SUFFICES ASSUME ReaderInv PROVE DealsOnce
      OBVIOUS
  <2>1. /\ Reading /\ ticks \in Seq(Tick) /\ traded \in Seq(Tick) /\ Reader.ticks = ticks
      BY DEF ReaderInv, FeedOK, Reader
  <2>2. CASE Len(log) = 0
    <3>1. ticks = traded
        BY <2>1, <2>2 DEF Reading, Caught
    <3>2. Begins(ticks, traded)
      <4>1. Len(ticks) \in Nat
          BY <2>1, LenProperties
      <4> QED BY <3>1, <4>1 DEF Begins
    <3> QED BY <2>1, <3>1, <3>2, BeginsIsPrefix DEF DealsOnce
  <2>3. CASE Len(log) # 0 /\ Begins(ticks, traded)
    <3>1. log # <<>>
        BY <2>3
    <3> QED BY <2>1, <2>3, <3>1, BeginsIsPrefix DEF DealsOnce
  <2>4. CASE Len(log) = 1
    <3>1. After(Reader, log[1]).ticks = traded
        BY <2>1, <2>4 DEF Reading, Caught
    <3> HIDE DEF Reader
    <3>2. Begins(ticks, traded)
        BY <2>1, <3>1, TicksGrow
    <3> QED BY <2>3, <2>4, <3>2
  <2>5. CASE Len(log) = 2
    <3> DEFINE m == After(Reader, log[1])
    <3>1. m \in State /\ After(m, log[2]).ticks = traded
        BY <2>1, <2>5 DEF Reading, Caught
    <3> HIDE DEF Reader
    <3>2. Begins(ticks, m.ticks)
        BY <2>1, TicksGrow
    <3> HIDE DEF m
    <3>3. m.ticks \in Seq(Tick)
        BY <3>1 DEF State
    <3>4. Begins(m.ticks, traded)
        BY <3>1, <3>3, TicksGrow
    <3>5. Begins(ticks, traded)
      <4>1. Len(ticks) \in Nat /\ Len(m.ticks) \in Nat /\ Len(traded) \in Nat
          BY <2>1, <3>3, LenProperties
      <4> QED BY <3>2, <3>4, <4>1 DEF Begins
    <3> QED BY <2>3, <2>5, <3>5
  <2> QED BY <2>1, <2>2, <2>4, <2>5 DEF Reading
<1> QED BY <1>1, ReaderCorrect, PTL

\* Where the quotes that were shown last are not those of the reader, a side of the book
\* is missing or they are not older than the interval (OrdLogStream::read).
THEOREM ShownLagCorrect == FeedSpec => []ShownLag
<1>1. ReaderInv => ShownLag
  <2> SUFFICES ASSUME ReaderInv, log = <<>>
               PROVE  shown = quotes \/ quotes = Empty \/ settled.time - lastPush <= Interval
      BY DEF ShownLag
  <2>1. ~Settling
      BY DEF Settling
  <2>2. Quoting
      BY DEF ReaderInv
  <2> HIDE DEF Settling
  <2> QED BY <2>1, <2>2 DEF Quoting
<1> QED BY <1>1, ReaderCorrect, PTL
=============================================================================

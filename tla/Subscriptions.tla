---------------------------- MODULE Subscriptions ----------------------------
(****************************************************************************)
(* A SubscriptionService and the Subscription objects that hold a place in  *)
(* it.  Subscriptions are made, moved from one object to another, and ended *)
(* at any time, also by the handlers of a publication while it goes on; the *)
(* publication runs over a copy of the handlers it began with.              *)
(****************************************************************************)
EXTENDS Integers, FiniteSets, SequencesExt

CONSTANTS
    Objects,    \* Subscription objects
    MaxId,      \* bound: subscriptions made
    MaxPublications \* bound: publications

ASSUME MaxIdAssumption == MaxId \in Nat /\ MaxPublications \in Nat

VARIABLES
    obj,        \* m_service, m_id, m_removed and m_handler of each object; a
                \* handler is named by the id it was subscribed with (0: none)
    set,        \* SubscriptionService::m_subscriptions
    lastId,     \* SubscriptionService::m_subscription_id
    left,       \* handlers the publication has still to call
    publishing,
    publications,
    called,     \* history: handlers it called, in order ...
    began,      \* ... those subscribed when it began ...
    ended       \* ... and those whose subscription ended since

vars == <<obj, set, lastId, left, publishing, publications, called, began, ended>>

TypeOK ==
    /\ obj \in [Objects -> [service : BOOLEAN, id : 0..MaxId, removed : BOOLEAN,
                            handler : 0..MaxId]]
    /\ set \subseteq Objects
    /\ lastId \in 0..MaxId
    /\ left \in Seq(1..MaxId) /\ called \in Seq(1..MaxId)
    /\ publishing \in BOOLEAN /\ publications \in 0..MaxPublications
    /\ began \subseteq 1..MaxId /\ ended \subseteq 1..MaxId

-----------------------------------------------------------------------------
(* The objects *)

\* multiset::erase of a key: every element with the id of o goes.
Erased(o) == {p \in set : obj[p].id # obj[o].id}

\* Handlers whose objects are in a set S
Handlers(S) == {obj[o].handler : o \in S} \ {0}

\* SubscriptionService::remove, for an object that may not be subscribed
Removed(o) == IF obj[o].service THEN [obj[o] EXCEPT !.service = FALSE, !.removed = TRUE]
              ELSE obj[o]
Without(o) == IF obj[o].service THEN Erased(o) ELSE set

Kept == UNCHANGED <<left, publishing, publications, called, began>>

\* The subscriptions of an object that is overwritten or ends are over.
Ends(o) == ended' = IF publishing /\ obj[o].service THEN ended \cup {obj[o].handler} ELSE ended

\* o = service.subscribe(h): a temporary takes the next id and is moved into o.
Subscribe(o) ==
    /\ lastId < MaxId
    /\ lastId' = lastId + 1
    /\ obj' = [obj EXCEPT ![o] = [service |-> TRUE, id |-> lastId + 1, removed |-> FALSE,
                                  handler |-> lastId + 1]]
    /\ set' = Without(o) \cup {o}
    /\ Ends(o) /\ Kept

\* Mutant of Move: the source keeps its place in the service.
MoveCopied(o, p) ==
    /\ o # p
    /\ obj' = [obj EXCEPT ![o] = obj[p]]
    /\ set' = Without(o) \cup (IF obj[p].service THEN {o} ELSE {})
    /\ Ends(o) /\ Kept
    /\ UNCHANGED lastId

\* o = std::move(p): o ends, takes the id and the handler of p, and p is
\* removed before o is pushed under the same id.  The service erases by key;
\* that the keys agree (LinksInv) is why p itself goes.
Move(o, p) ==
    /\ o # p
    /\ obj' = [obj EXCEPT ![o] = [service |-> obj[p].service, id |-> obj[p].id,
                                  removed |-> obj[p].removed, handler |-> obj[p].handler],
                          ![p] = [Removed(p) EXCEPT !.handler = 0]]
    /\ set' = IF obj[p].service THEN (Without(o) \ {p}) \cup {o} ELSE Without(o)
    /\ Ends(o) /\ Kept
    /\ UNCHANGED lastId

\* Mutant of Unsubscribe: the object is forgotten by the service alone.
UnsubscribeHalf(o) ==
    /\ obj' = [obj EXCEPT ![o].handler = 0]
    /\ set' = Without(o)
    /\ Ends(o) /\ Kept
    /\ UNCHANGED lastId

\* o = nullptr, and the destructor
Unsubscribe(o) ==
    /\ obj' = [obj EXCEPT ![o] = [Removed(o) EXCEPT !.handler = 0]]
    /\ set' = Without(o)
    /\ Ends(o) /\ Kept
    /\ UNCHANGED lastId

\* SubscriptionService::clear, by the destructor of a market
Clear ==
    /\ set # {}
    /\ obj' = [o \in Objects |-> IF o \in set THEN [obj[o] EXCEPT !.service = FALSE, !.removed = TRUE]
                                 ELSE obj[o]]
    /\ set' = {}
    /\ ended' = IF publishing THEN ended \cup Handlers(set) ELSE ended
    /\ Kept /\ UNCHANGED lastId

-----------------------------------------------------------------------------
(* Publication *)

\* The multiset is ordered by id: its handlers, each once.
ById(S) == {q \in [1..Cardinality(S) -> S] : \A j, k \in DOMAIN q : j < k => q[j] < q[k]}

Publish ==
    /\ ~publishing /\ publications < MaxPublications
    /\ publications' = publications + 1
    /\ publishing' = TRUE
    /\ left' \in ById(Handlers(set)) /\ began' = Handlers(set)
    /\ called' = <<>> /\ ended' = {}
    /\ UNCHANGED <<obj, set, lastId>>

\* Mutant of Remaining: the publication runs over the live set.
RemainingLive == CHOOSE q \in ById({h \in Handlers(set) : h > Head(left)}) : TRUE

Remaining == Tail(left)

\* The next handler is called; what it does are the actions above.
Call ==
    /\ publishing /\ left # <<>>
    /\ called' = Append(called, Head(left))
    /\ left' = Remaining
    /\ UNCHANGED <<obj, set, lastId, publishing, publications, began, ended>>

Return ==
    /\ publishing /\ left = <<>>
    /\ publishing' = FALSE /\ called' = <<>> /\ began' = {} /\ ended' = {}
    /\ UNCHANGED <<obj, set, lastId, left, publications>>

Init ==
    /\ obj = [o \in Objects |-> [service |-> FALSE, id |-> 0, removed |-> FALSE, handler |-> 0]]
    /\ set = {} /\ lastId = 0
    /\ left = <<>> /\ publishing = FALSE /\ publications = 0
    /\ called = <<>> /\ began = {} /\ ended = {}

Next ==
    \/ \E o \in Objects : Subscribe(o) \/ Unsubscribe(o) \/ \E p \in Objects : Move(o, p)
    \/ Clear \/ Publish \/ Call \/ Return

\* A publication is one call: it runs to its end.
Spec == Init /\ [][Next]_vars /\ WF_vars(Call \/ Return)

-----------------------------------------------------------------------------
(* Properties *)

\* Objects and service agree about who is subscribed, under ids of their own,
\* whatever was moved over what, and no handler is in two objects; otherwise
\* removal by key would end the subscriptions of others.
LinksAgree ==
    /\ \A o \in Objects : /\ obj[o].service <=> o \in set
                         /\ obj[o].id <= lastId /\ obj[o].handler <= lastId
    /\ \A o, p \in Objects : obj[o].handler = obj[p].handler /\ obj[o].handler # 0 => o = p
    /\ \A o \in set : obj[o].id > 0 /\ obj[o].handler = obj[o].id /\ ~obj[o].removed
    /\ \A o, p \in set : obj[o].id = obj[p].id => o = p

\* Types, and who is linked with whom
LinksInv == TypeOK /\ LinksAgree

\* A publication calls each handler that stays subscribed once and in order,
\* none that was added meanwhile, and one whose subscription has ended only if
\* it ended during this very publication.
CalledOnceInOrder ==
    publishing =>
        /\ called \o left \in ById(began)
        /\ \A h \in began : h \in Handlers(set) \/ h \in ended

\* A handler stays subscribed until its service is cleared or whoever holds it
\* gives it up; ending and moving other objects leaves it alone.
StaysSubscribed ==
    [][\A h \in Handlers(set) :
          \/ h \in Handlers(set)'
          \/ Clear
          \/ \A o \in set : obj[o].handler = h => obj'[o].handler # h]_vars

=============================================================================

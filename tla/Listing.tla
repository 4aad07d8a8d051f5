------------------------------- MODULE Listing -------------------------------
(***************************************************************************)
(* A client walks through a list, page after page, while rows come and go: *)
(* FindManyPaginated (repositories/repository.go) with the answer of       *)
(* NewPaginatedResponse.  The list is sorted by created_at, newest first,  *)
(* as customers, subscriptions and invoices are; counting the rows and     *)
(* reading a page are two queries.                                         *)
(***************************************************************************)
EXTENDS Integers, Sequences, FiniteSets

CONSTANTS
    Limit,     \* rows of a page
    MaxRows,   \* bound: rows ever created
    MaxGone,   \* bound: how often a row leaves the filter during the walk
    MaxArrived \* bound: how often one enters it or is created

ASSUME ListingAssumption ==
    /\ Limit \in Nat \ {0}
    /\ MaxRows \in Nat /\ MaxGone \in Nat /\ MaxArrived \in Nat

VARIABLES
    created,  \* rows ever created: 1 .. created, a newer row has a larger number
    list,     \* the rows that match the filter, newest first
    aside,    \* the rows that do not
    walk      \* the walk: its next query, the page, the count read, the rows
              \* shown (in order); ghosts: rows at the start, rows that left,
              \* how often one left, how often one arrived, and how often one
              \* arrived between a count and its page

listingVars == <<created, list, aside, walk>>

Rows(s) == {s[i] : i \in DOMAIN s}

NoWalk == [pc |-> "start", page |-> 0, count |-> 0, shown |-> <<>>, initial |-> {},
           gone |-> {}, left |-> 0, arrived |-> 0, between |-> 0]

Underway == walk.pc \in {"count", "fetch"}

ListingInit ==
    /\ created \in 0 .. MaxRows
    /\ list = [i \in 1 .. created |-> created + 1 - i]
    /\ aside = {}
    /\ walk = NoWalk

\* The list s with row x after its first i rows.
Placed(s, i, x) == SubSeq(s, 1, i) \o <<x>> \o SubSeq(s, i + 1, Len(s))

\* Row x matches the filter from now on: it stands after the newer rows.
Arrive(x) ==
    /\ Underway /\ walk.arrived < MaxArrived
    /\ list' = Placed(list, Cardinality({j \in DOMAIN list : list[j] > x}), x)
    /\ walk' = [walk EXCEPT !.arrived = @ + 1,
                            !.between = IF walk.pc = "fetch" THEN @ + 1 ELSE @]

\* A row that matches is created.
Insert ==
    /\ created < MaxRows
    /\ created' = created + 1
    /\ Arrive(created + 1)
    /\ UNCHANGED aside

\* A row that exists enters the filter: an open invoice is paid.
Enter(x) ==
    /\ Arrive(x)
    /\ aside' = aside \ {x}
    /\ UNCHANGED created

\* A row no longer matches the filter, or is deleted; before the walk starts,
\* some do not.
Leave(i) ==
    /\ \/ walk.pc = "start" /\ UNCHANGED walk
       \/ /\ Underway /\ walk.left < MaxGone
          /\ walk' = [walk EXCEPT !.gone = @ \cup {list[i]}, !.left = @ + 1]
    /\ list' = SubSeq(list, 1, i - 1) \o SubSeq(list, i + 1, Len(list))
    /\ aside' = aside \cup {list[i]}
    /\ UNCHANGED created

StartWalk ==
    /\ walk.pc = "start"
    /\ walk' = [walk EXCEPT !.pc = "count", !.page = 1, !.initial = Rows(list)]
    /\ UNCHANGED <<created, list, aside>>

CountRows ==
    /\ walk.pc = "count"
    /\ walk' = [walk EXCEPT !.pc = "fetch", !.count = Len(list)]
    /\ UNCHANGED <<created, list, aside>>

\* Mutant of Skip: the first page is page 0.
SkipFromZero(page) == page * Limit

Skip(page) == (page - 1) * Limit

\* Mutant of TotalPages: the last page must be full.
TotalPagesDown(count) == count \div Limit

TotalPages(count) == (count + Limit - 1) \div Limit

HasNextPage(page, count) == page < TotalPages(count)

PageOf(page) ==
    SubSeq(list, Skip(page) + 1,
           IF Skip(page) + Limit < Len(list) THEN Skip(page) + Limit ELSE Len(list))

\* The page is read; the client asks for the next one if there is one.
FetchPage ==
    /\ walk.pc = "fetch"
    /\ walk' = [walk EXCEPT !.shown = @ \o PageOf(walk.page),
                            !.pc = IF HasNextPage(walk.page, walk.count) THEN "count" ELSE "end",
                            !.page = @ + 1]
    /\ UNCHANGED <<created, list, aside>>

ListingStep ==
    \/ StartWalk \/ CountRows \/ FetchPage \/ Insert
    \/ \E x \in aside : Enter(x)
    \/ \E i \in DOMAIN list : Leave(i)

\* A walk misses a row that matched all the time only because another left the
\* filter, or arrived between a count and its page; and it shows a row twice
\* only because one arrived meanwhile, wherever in the list it did.
PagesComplete ==
    LET missed == (walk.initial \ walk.gone) \ Rows(walk.shown)
        repeated == Len(walk.shown) - Cardinality(Rows(walk.shown))
    IN  walk.pc = "end" =>
          /\ Cardinality(missed) <= walk.left + walk.between
          /\ repeated <= walk.arrived

ListingTypeOK ==
    /\ walk.pc \in {"start", "count", "fetch", "end"}
    /\ created \in 0 .. MaxRows
    /\ Rows(list) \cup aside \cup Rows(walk.shown) \subseteq 1 .. created
=============================================================================

---------------------------- MODULE OrderListing ----------------------------
(***************************************************************************)
(* The two ways in which orders are listed page by page while new ones      *)
(* arrive: a consumer's orders by a cursor in a token (GetOrdersByUser),    *)
(* and the orders of an event or session by number (GetOrdersByEvent,       *)
(* GetOrdersBySession).                                                     *)
(*                                                                         *)
(* An order gets its created_at, in milliseconds, when AddOrder starts and  *)
(* shows when its transaction commits, so orders may appear below others    *)
(* that are listed already.  The token keeps whole seconds only.            *)
(***************************************************************************)
EXTENDS Integers, Sequences, FiniteSets

CONSTANTS
  Orders,       \* object ids, which are compared like numbers
  PageSize,
  Second,       \* milliseconds of a second
  MaxAge,       \* milliseconds after which a token is refused
  LastTick      \* bounds the clock

ASSUME ListingAssumption ==
  /\ Orders \subseteq Nat
  /\ {PageSize, Second} \subseteq Nat \ {0}
  /\ {MaxAge, LastTick} \subseteq Nat

VARIABLES
  clock,
  created,     \* created_at of the orders that AddOrder has begun
  stored,      \* the orders that show
  listing,     \* how the client lists: "cursor" or "numbered"
  phase,       \* idle, listing, counted (a page is half done), done, refused
  token,       \* what the client sends for the next page
  issued,      \* when it got it
  pages,       \* the pages it was shown
  total,       \* the count of the page under way
  initial,     \* the orders that showed when it began
  raced        \* an order appeared between the count and the page under way

listingVars == <<clock, created, stored, listing, phase, token, issued, pages,
                 total, initial, raced>>

NotYet == -1
NoToken == [id |-> NotYet, ts |-> NotYet]

Began == {o \in Orders : created[o] # NotYet}

ListingTypeOK ==
  /\ clock \in 0..LastTick
  /\ created \in [Orders -> 0..LastTick \union {NotYet}]
  /\ stored \subseteq Began
  /\ listing \in {"cursor", "numbered"}
  /\ phase \in {"idle", "listing", "counted", "done", "refused"}
  /\ token = NoToken \/ token \in [id : stored, ts : 0 .. LastTick \div Second]
  /\ issued \in 0..clock
  /\ \A i \in DOMAIN pages : pages[i] \subseteq stored /\ Cardinality(pages[i]) <= PageSize
  /\ total \in 0 .. Cardinality(stored)
  /\ initial \subseteq stored
  /\ raced \in BOOLEAN

ListingInit ==
  /\ clock = 0
  /\ created = [o \in Orders |-> NotYet]
  /\ stored = {}
  /\ listing \in {"cursor", "numbered"}
  /\ phase = "idle"
  /\ token = NoToken
  /\ issued = 0
  /\ pages = <<>>
  /\ total = 0
  /\ initial = {}
  /\ raced = FALSE

-----------------------------------------------------------------------------
client == <<phase, token, issued, pages, total, initial>>

ClockTicks ==
  /\ clock < LastTick
  /\ clock' = clock + 1
  /\ UNCHANGED <<created, stored, listing, client, raced>>

BeginOrder(o) ==
  /\ created[o] = NotYet
  /\ created' = [created EXCEPT ![o] = clock]
  /\ UNCHANGED <<clock, stored, listing, client, raced>>

CommitOrder(o) ==
  /\ o \in Began \ stored
  /\ stored' = stored \union {o}
  /\ raced' = (raced \/ phase = "counted")
  /\ UNCHANGED <<clock, created, listing, client>>

-----------------------------------------------------------------------------
(* The sort of the consumer's listing: newest first, then by id.            *)
Precedes(a, b) ==
  created[a] > created[b] \/ (created[a] = created[b] /\ a > b)

FirstPage(S) ==
  {o \in S : Cardinality({p \in S : Precedes(p, o)}) < PageSize}

LastOf(page) == CHOOSE o \in page : \A p \in page \ {o} : Precedes(p, o)

(* GenerateToken keeps the second, Decode refuses by the age of what it     *)
(* keeps, and the query compares with the start of that second.             *)
TokenOf(o) == [id |-> o, ts |-> created[o] \div Second]

TokenExpired(t) == t # NoToken /\ t.ts * Second < clock - MaxAge

(* Mutant: the order at the cursor is part of the next page again. *)
Mutant_After(t) ==
  {o \in stored : t = NoToken \/ created[o] <= created[t.id]}

After(t) ==
  {o \in stored :
     \/ t = NoToken
     \/ created[o] < t.ts * Second
     \/ (created[o] = t.ts * Second /\ o < t.id)}

ShowPage(page) == pages' = Append(pages, page)

Begin ==
  IF phase = "idle" THEN initial' = stored ELSE UNCHANGED initial

(* Mutant: a token needs more than a full page. *)
Mutant_GetOrdersByUser ==
  /\ listing = "cursor" /\ phase \in {"idle", "listing"}
  /\ ~TokenExpired(token)
  /\ Begin
  /\ LET page == FirstPage(After(token))
     IN  /\ ShowPage(page)
         /\ IF Cardinality(page) > PageSize
            THEN phase' = "listing" /\ token' = TokenOf(LastOf(page))
            ELSE phase' = "done" /\ token' = NoToken
  /\ issued' = clock
  /\ UNCHANGED <<clock, created, stored, listing, total, raced>>

(* One page of a consumer's orders; a full one comes with a token for more. *)
GetOrdersByUser ==
  /\ listing = "cursor" /\ phase \in {"idle", "listing"}
  /\ ~TokenExpired(token)
  /\ Begin
  /\ LET page == FirstPage(After(token))
     IN  /\ ShowPage(page)
         /\ IF Cardinality(page) = PageSize
            THEN phase' = "listing" /\ token' = TokenOf(LastOf(page))
            ELSE phase' = "done" /\ token' = NoToken
  /\ issued' = clock
  /\ UNCHANGED <<clock, created, stored, listing, total, raced>>

TokenRefused ==
  /\ listing = "cursor" /\ phase = "listing"
  /\ TokenExpired(token)
  /\ phase' = "refused"
  /\ UNCHANGED <<clock, created, stored, listing, token, issued, pages, total,
                 initial, raced>>

-----------------------------------------------------------------------------
(* The n newest of a set.  The sort of the numbered listing is by           *)
(* created_at alone and may break a tie differently in every query.         *)
Newest(S, n) ==
  {T \in SUBSET S :
     /\ Cardinality(T) = IF n < Cardinality(S) THEN n ELSE Cardinality(S)
     /\ \A a \in T, b \in S \ T : created[a] >= created[b]}

(* Mutant: pages are counted from one, and so is the offset. *)
Mutant_GetOffset == (Len(pages) + 1) * PageSize

GetOffset == Len(pages) * PageSize

(* NewPageResult: as many pages as the count fills, the last one partly.    *)
TotalPages == (total + PageSize - 1) \div PageSize

(* Each page is counted first, in a query of its own.                       *)
CountDocuments ==
  /\ listing = "numbered" /\ phase \in {"idle", "listing"}
  /\ Begin
  /\ total' = Cardinality(stored)
  /\ IF stored = {}
     THEN phase' = "done" /\ ShowPage({})
     ELSE phase' = "counted" /\ UNCHANGED pages
  /\ raced' = FALSE
  /\ UNCHANGED <<clock, created, stored, listing, token, issued>>

(* Then it is fetched.  The client goes on up to the last page.             *)
GetPaginatedOrders ==
  /\ phase = "counted"
  /\ \E skipped \in Newest(stored, GetOffset) :
       \E page \in Newest(stored \ skipped, PageSize) : ShowPage(page)
  /\ phase' = IF Len(pages) + 1 < TotalPages THEN "listing" ELSE "done"
  /\ UNCHANGED <<clock, created, stored, listing, token, issued, total, initial,
                 raced>>

ListingNext ==
  \/ ClockTicks
  \/ \E o \in Orders : BeginOrder(o) \/ CommitOrder(o)
  \/ GetOrdersByUser
  \/ TokenRefused
  \/ CountDocuments
  \/ GetPaginatedOrders

ListingSpec == ListingInit /\ [][ListingNext]_listingVars

-----------------------------------------------------------------------------
Shown == UNION {pages[i] : i \in DOMAIN pages}

(* A consumer's listing goes strictly down: no order is shown twice, and    *)
(* none on a later page belongs before one of an earlier page, whatever     *)
(* appears in between.                                                      *)
CursorGoesDown ==
  listing = "cursor" =>
    \A i, j \in DOMAIN pages :
      i < j => \A a \in pages[i], b \in pages[j] : Precedes(a, b)

(* A consumer's listing that ends has shown every order there was when it   *)
(* began, but for those of the very second a page ended in.                 *)
CursorSkipsWithinSecond ==
  listing = "cursor" /\ phase = "done" =>
    \A o \in initial \ Shown :
      \E i \in DOMAIN pages :
        /\ pages[i] # {}
        /\ created[LastOf(pages[i])] \div Second = created[o] \div Second

(* Numbered pages read up to the last miss no order there was when the      *)
(* client began, unless it ties with another one or an order appeared       *)
(* between the count and the query of the last page.                        *)
NumberedMissesNothing ==
  listing = "numbered" /\ phase = "done" =>
    \A o \in initial \ Shown :
      raced \/ \E p \in stored \ {o} : created[p] = created[o]

(* What cursor.go says of a token: it is refused when it is more than 24    *)
(* hours old.  The time in it is that of the order it points at.            *)
TokenAgesFromIssue == phase = "refused" => issued < clock - MaxAge
=============================================================================

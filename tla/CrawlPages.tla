----------------------------- MODULE CrawlPages -----------------------------
(* EmpClient::crawl_evse_data walks the pages of a pull (client/emp.rs).     *)
(* Each page says twice whether there is another, in last and in totalPages, *)
(* and a broker under load, or one whose data changes, can get either wrong, *)
(* answer with an empty page, or repeat one.                                 *)
EXTENDS Integers, Sequences

CONSTANTS
    MaxPages,       \* bound: how many pages the pull really has
    MaxTotal        \* bound: the largest totalPages the broker states

ASSUME PagesAssumption == MaxPages \in Nat /\ MaxTotal \in Nat /\ MaxPages <= MaxTotal

VARIABLES
    pages,      \* how many pages the pull really has
    malformed,  \* which records cannot be decoded
    broker,     \* what the broker gets right in this crawl
    query,      \* unfold's state: the page to ask for, or None
    items,      \* flat_map's: what the last page gave and the caller has not had yet
    page,       \* the page that came last
    yielded     \* what the caller has been given, in order

crawlVars == <<pages, malformed, broker, query, items, page, yielded>>

None == -1

(* Two records to a page: one can be malformed and the next one not. *)
OnPage(n) == << [page |-> n, index |-> 0], [page |-> n, index |-> 1] >>
Listing(n) == [page : 0..(n - 1), index : {0, 1}]      \* the records of the first n pages
Records == Listing(MaxPages)

(* An error tells the page that was asked for and the place on it.           *)
Ok(r) == [kind |-> "Ok", page |-> r.page, index |-> r.index]
RecordError(n, k) == [kind |-> "Record", page |-> n, index |-> k]
PageError(n) == [kind |-> "Page", page |-> n, index |-> 0]
Inconsistent(n) == [kind |-> "PageInconsistent", page |-> n, index |-> 0]

Queries == 0..(MaxTotal + 1)
Items == [kind : {"Ok", "Record", "Page", "PageInconsistent"}, page : Queries, index : {0, 1}]
PageAnswers == [asked : Queries \cup {None}, last : BOOLEAN, total : 0..MaxTotal,
                content : {<< >>} \cup {OnPage(n) : n \in 0..(MaxPages - 1)}]

CrawlTypeOK ==
    /\ pages \in 0..MaxPages
    /\ malformed \in SUBSET Records
    /\ broker \in [last : BOOLEAN, total : {"right", "absent", "wrong"}, content : BOOLEAN]
    /\ query \in Queries \cup {None}
    /\ items \in Seq(Items) /\ yielded \in Seq(Items)
    /\ page \in PageAnswers

NoPage == [asked |-> None, last |-> TRUE, total |-> 0, content |-> << >>]

CrawlInit ==
    /\ pages \in 0..MaxPages
    /\ malformed \in SUBSET Listing(pages)
    /\ broker \in [last : BOOLEAN, total : {"right", "absent", "wrong"}, content : BOOLEAN]
    /\ query = 0
    /\ items = << >> /\ yielded = << >>
    /\ page = NoPage

-----------------------------------------------------------------------------
(* What the broker may answer when asked for page n. *)
Lasts(n) == IF broker.last THEN {n + 1 >= pages} ELSE BOOLEAN

Totals == CASE broker.total = "right" -> {pages}
            [] broker.total = "absent" -> {0}
            [] OTHER -> 0..MaxTotal

Contents(n) ==
    LET right == IF n < pages THEN OnPage(n) ELSE << >>
        again == IF n >= pages /\ pages > 0 THEN {OnPage(pages - 1)} ELSE {}
    IN  IF broker.content THEN {right} ELSE {right, << >>} \cup again

-----------------------------------------------------------------------------
(* decode_page: is there another page, and does the page contradict itself?  *)
MoreByFlag(p) == ~p.last

MoreByCount(p) == p.asked + 1 < p.total

FollowsFlag(p) == MoreByFlag(p) /\ p.content # << >>    \* Mutant: trusts last alone
FollowsEmpty(p) ==                                  \* Mutant: an empty page is followed
    IF p.total > 0 THEN MoreByCount(p) ELSE MoreByFlag(p)

(* An empty page ends the crawl; else the count decides, if there is one.    *)
Follows(p) ==
    /\ p.content # << >>
    /\ IF p.total > 0 THEN MoreByCount(p) ELSE MoreByFlag(p)

Complains(p) ==
    IF p.content = << >> THEN MoreByFlag(p)
    ELSE p.total > 0 /\ MoreByFlag(p) # MoreByCount(p)

(* A record that cannot be decoded costs itself alone. *)
Decode(p) ==
    [i \in DOMAIN p.content |->
        IF p.content[i] \in malformed THEN RecordError(p.asked, i - 1) ELSE Ok(p.content[i])]

SkipTwo(n) == n + 2                                 \* Mutant: every other page
NextQuery(n) == n + 1

(* The stream asks for a page when all of the last has been taken. *)
FetchPage ==
    /\ query # None /\ items = << >>
    /\ query <= MaxTotal                            \* bound
    /\ \E last \in Lasts(query), total \in Totals, content \in Contents(query) :
          page' = [asked |-> query, last |-> last, total |-> total, content |-> content]
    /\ items' = (IF Complains(page') THEN << Inconsistent(query) >> ELSE << >>) \o Decode(page')
    /\ query' = IF Follows(page') THEN NextQuery(query) ELSE None
    /\ UNCHANGED <<pages, malformed, broker, yielded>>

(* A page that cannot be fetched is the last item. *)
FetchFails ==
    /\ query # None /\ items = << >>
    /\ items' = << PageError(query) >>
    /\ query' = None
    /\ UNCHANGED <<pages, malformed, broker, page, yielded>>

(* The caller polls the stream for its next item. *)
Poll ==
    /\ items # << >>
    /\ yielded' = Append(yielded, Head(items))
    /\ items' = Tail(items)
    /\ UNCHANGED <<pages, malformed, broker, query, page>>

CrawlNext == FetchPage \/ FetchFails \/ Poll

CrawlSpec == CrawlInit /\ [][CrawlNext]_crawlVars

(* The caller drains the stream, and a request that does not fail is answered. *)
FairCrawlSpec == CrawlSpec /\ WF_crawlVars(FetchPage \/ Poll)

-----------------------------------------------------------------------------
Ended == query = None /\ items = << >>

Yields(kind) == \E i \in DOMAIN yielded : yielded[i].kind = kind

RecordsYielded == {i \in DOMAIN yielded : yielded[i].kind \in {"Ok", "Record"}}

Place(r) == 2 * r.page + r.index                    \* in the listing

(* A record is yielded if it can be decoded, and else reported.              *)
ItemOf(r) == IF r \in malformed THEN RecordError(r.page, r.index) ELSE Ok(r)

YieldsAll(n) == \A r \in Listing(n) : \E i \in RecordsYielded : yielded[i] = ItemOf(r)

(* None of the first n pages' records comes twice, or after a later one.     *)
YieldsInOrder(n) ==
    \A i, j \in RecordsYielded :
        i < j /\ yielded[j].page < n => Place(yielded[i]) < Place(yielded[j])

(* The page that came last is empty and says it is the last, though its own  *)
(* totalPages promises more: the one disagreement decode_page keeps to       *)
(* itself, its complaint being more_by_flag's alone (client/emp.rs:90-92).   *)
EndsSilently == page.content = << >> /\ page.last /\ MoreByCount(page)

(* A crawl that ends without failing on a page has yielded every record, or  *)
(* reported it, if the contents and totalPages are right, whatever last      *)
(* says; and a crawl that reports nothing of its pages has, if the contents  *)
(* and last are.  Where a page may come empty that is not, or come again,    *)
(* last is enough for all pages but the last one, and so is totalPages, but  *)
(* for a crawl that ends silently: that one does what client/emp.rs:74 warns *)
(* of, it stops "after a third of Europe, silently".                         *)
NothingMissed ==
    Ended /\ ~Yields("Page") =>
        /\ broker.content /\ broker.total = "right" => YieldsAll(pages)
        /\ ~Yields("PageInconsistent") =>
              /\ broker.last /\ broker.content => YieldsAll(pages)
              /\ broker.last \/ (broker.total = "right" /\ ~EndsSilently) =>
                    YieldsAll(pages - 1) /\ YieldsInOrder(pages - 1)

(* Whatever last and totalPages say, and wherever the crawl stops: as long   *)
(* as the contents are right nothing comes that is not in the listing, and   *)
(* no record twice, out of order, or after one that was left out.            *)
NothingTwice ==
    broker.content =>
        /\ \A i \in RecordsYielded : \E r \in Listing(pages) : yielded[i] = ItemOf(r)
        /\ YieldsInOrder(pages)
        /\ \A i \in RecordsYielded : \A r \in Listing(pages) :
              Place(r) < Place(yielded[i]) => \E k \in 1..i : yielded[k] = ItemOf(r)

(* A broker that gets its pages right is not complained of: a disagreement   *)
(* that is yielded is one.  (Not every disagreement is: see EndsSilently.)   *)
Sound == broker.last /\ broker.total # "wrong" /\ broker.content

NoFalseAlarm == Sound => ~Yields("PageInconsistent")

(* decode_page and the unfold around it, client/emp.rs: with the flag or the *)
(* count right, a crawl is short of the listing only by what the stream says *)
(* of a page or a record, or when it ends silently; it never yields anything *)
(* twice or out of order while the contents are right, and raises no alarm   *)
(* about pages that are.                                                     *)
CrawlIsFaithful == NothingMissed /\ NothingTwice /\ NoFalseAlarm

(* "An endless crawl" (client/emp.rs:75) takes a broker that gets everything *)
(* wrong: the flag, the count, and that nothing comes after the last page.   *)
(* (A count that is only wrong is bounded too: MaxTotal stands for u32::MAX.) *)
CrawlEnds ==
    broker.last \/ broker.total = "right" \/ broker.content => <>Ended

-----------------------------------------------------------------------------
(* What the caller has had and what it will have without another request.    *)
Stream == yielded \o items

InStream(kind) == \E i \in DOMAIN Stream : Stream[i].kind = kind
RecordsInStream == {i \in DOMAIN Stream : Stream[i].kind \in {"Ok", "Record"}}

(* The page that came last is one the broker may answer with, it was asked   *)
(* for after all the others, and the crawl goes on after it, or not, by what *)
(* it says.                                                                  *)
Walks ==
    /\ query # None => query = page.asked + 1 /\ (page.asked # None => Follows(page))
    /\ page.asked # None =>
          /\ page.last \in Lasts(page.asked) /\ page.total \in Totals
          /\ page.content \in Contents(page.asked)
          /\ Complains(page) => InStream("PageInconsistent")
    /\ query = None /\ ~InStream("Page") => page.asked # None /\ ~Follows(page)

(* All records are of pages that were asked for.                             *)
Asked ==
    \A i \in RecordsInStream :
        /\ Stream[i].page <= page.asked
        /\ broker.content => \E r \in Listing(pages) : Stream[i] = ItemOf(r)

(* They come in the order of the listing, but that the last page may repeat. *)
Sorted ==
    \A i, j \in RecordsInStream :
        /\ i < j /\ Stream[j].page < pages
        /\ broker.content \/ Stream[j].page < pages - 1
        => Place(Stream[i]) < Place(Stream[j])

(* Of the pages asked for nothing is missing, unless it was complained of or *)
(* the crawl ended silently.                                                 *)
Whole ==
    \A r \in Listing(pages) :
        /\ r.page <= page.asked
        /\ \/ broker.content
           \/ /\ broker.last \/ (broker.total = "right" /\ ~EndsSilently)
              /\ r.page < pages - 1 /\ ~InStream("PageInconsistent")
        => \E i \in DOMAIN Stream : Stream[i] = ItemOf(r)

(* Nothing is asked of a sound broker that it does not have.                 *)
Unalarmed ==
    Sound => /\ query \notin {None, 0} => query < pages
             /\ ~InStream("PageInconsistent")

CrawlInv == CrawlTypeOK /\ Walks /\ Asked /\ Sorted /\ Whole /\ Unalarmed
=============================================================================

-------------------------- MODULE EmpReads_proofs ---------------------------
(* What an EMP reads, the crawl of the charging point data page by page and  *)
(* the statuses of the points, is what the operators and the broker told.    *)
EXTENDS CrawlPages, StatusBoard, SequenceTheorems, TLAPS

(* The crawl. *)
LEMMA StreamIsTyped ==
    ASSUME CrawlTypeOK
    PROVE  /\ Stream \in Seq(Items) /\ DOMAIN Stream = 1..Len(Stream) /\ Len(Stream) \in Nat
           /\ Len(Stream) = Len(yielded) + Len(items) /\ Len(yielded) \in Nat
           /\ \A i \in 1..Len(yielded) : Stream[i] = yielded[i]
           /\ \A i \in DOMAIN Stream : Stream[i] \in Items
<1>1. yielded \in Seq(Items) /\ items \in Seq(Items) BY DEF CrawlTypeOK
<1>2. /\ Stream \in Seq(Items) /\ Len(Stream) = Len(yielded) + Len(items)
      /\ \A i \in 1..(Len(yielded) + Len(items)) :
            Stream[i] = IF i <= Len(yielded) THEN yielded[i] ELSE items[i - Len(yielded)]
  BY <1>1, ConcatProperties DEF Stream
<1>3. Len(yielded) \in Nat /\ Len(items) \in Nat BY <1>1, LenProperties
<1>4. DOMAIN Stream = 1..Len(Stream) /\ \A i \in 1..Len(Stream) : Stream[i] \in Items
  BY <1>2, LenProperties, ElementOfSeq
<1> QED BY <1>2, <1>3, <1>4

(* Handing out an item leaves the stream as it is. *)
LEMMA PollLeavesStream ==
    ASSUME CrawlTypeOK, Poll
    PROVE  CrawlTypeOK' /\ Stream' = Stream
<1>1. yielded \in Seq(Items) /\ items \in Seq(Items) /\ items # << >> BY DEF CrawlTypeOK, Poll
<1>2. /\ Head(items) \in Items /\ Tail(items) \in Seq(Items) /\ Len(Tail(items)) = Len(items) - 1
      /\ \A i \in 1..Len(Tail(items)) : Tail(items)[i] = items[i + 1]
  BY <1>1, HeadTailProperties
<1>3. /\ Append(yielded, Head(items)) \in Seq(Items)
      /\ Len(Append(yielded, Head(items))) = Len(yielded) + 1
      /\ \A i \in 1..Len(yielded) : Append(yielded, Head(items))[i] = yielded[i]
      /\ Append(yielded, Head(items))[Len(yielded) + 1] = Head(items)
  BY <1>1, <1>2, AppendProperties
<1>4. Head(items) = items[1] BY <1>1
<1>5. CrawlTypeOK' BY <1>2, <1>3 DEF CrawlTypeOK, Poll
<1>6. Len(yielded) \in Nat /\ Len(items) \in Nat \ {0} BY <1>1, EmptySeq, LenProperties
<1>7. /\ Stream \in Seq(Items) /\ Len(Stream) = Len(yielded) + Len(items)
      /\ \A i \in 1..(Len(yielded) + Len(items)) :
            Stream[i] = IF i <= Len(yielded) THEN yielded[i] ELSE items[i - Len(yielded)]
  BY <1>1, ConcatProperties DEF Stream
<1> DEFINE y == Append(yielded, Head(items))
           t == Tail(items)
<1>8. /\ y \o t \in Seq(Items) /\ Len(y \o t) = Len(y) + Len(t)
      /\ \A i \in 1..(Len(y) + Len(t)) : (y \o t)[i] = IF i <= Len(y) THEN y[i] ELSE t[i - Len(y)]
  <2> HIDE DEF y, t
  <2>1. y \in Seq(Items) /\ t \in Seq(Items) BY <1>2, <1>3 DEF y, t
  <2> QED BY <2>1, ConcatProperties
<1>9. Len(y \o t) = Len(Stream) BY <1>2, <1>3, <1>6, <1>7, <1>8
<1>10. ASSUME NEW i \in 1..Len(Stream) PROVE (y \o t)[i] = Stream[i]
  <2>1. CASE i <= Len(yielded) BY <2>1, <1>2, <1>3, <1>6, <1>7, <1>8
  <2>2. CASE i = Len(yielded) + 1 BY <2>2, <1>2, <1>3, <1>4, <1>6, <1>7, <1>8
  <2>3. CASE i > Len(yielded) + 1
    <3>1. (y \o t)[i] = t[i - (Len(yielded) + 1)] BY <2>3, <1>2, <1>3, <1>6, <1>7, <1>8
    <3>2. i - (Len(yielded) + 1) \in 1..Len(t) BY <2>3, <1>2, <1>6, <1>7
    <3>3. t[i - (Len(yielded) + 1)] = items[i - (Len(yielded) + 1) + 1] BY <3>2, <1>2
    <3>4. i - (Len(yielded) + 1) + 1 = i - Len(yielded) BY <1>6
    <3>5. Stream[i] = items[i - Len(yielded)] BY <2>3, <1>6, <1>7
    <3> QED BY <3>1, <3>3, <3>4, <3>5
  <2> QED BY <2>1, <2>2, <2>3, <1>6, <1>7
<1>11. y \o t = Stream
  <2> HIDE DEF y, t
  <2> QED BY <1>7, <1>8, <1>9, <1>10, SeqEqual
<1>12. Stream' = y \o t BY DEF Stream, Poll
<1> QED BY <1>5, <1>11, <1>12

(* What is fetched comes at the end of the stream. *)
LEMMA StreamGrows ==
    ASSUME CrawlTypeOK, items = << >>, yielded' = yielded, NEW new \in Seq(Items), items' = new
    PROVE  /\ Stream' \in Seq(Items) /\ DOMAIN Stream' = 1..(Len(Stream) + Len(new))
           /\ \A i \in 1..Len(Stream) : Stream'[i] = Stream[i]
           /\ \A i \in 1..Len(new) : Stream'[Len(Stream) + i] = new[i]
<1>1. yielded \in Seq(Items) BY DEF CrawlTypeOK
<1>2. Stream = yielded /\ Stream' = yielded \o new BY <1>1, ConcatEmptySeq DEF Stream
<1>3. /\ yielded \o new \in Seq(Items) /\ Len(yielded \o new) = Len(yielded) + Len(new)
      /\ \A i \in 1..(Len(yielded) + Len(new)) :
            (yielded \o new)[i] = IF i <= Len(yielded) THEN yielded[i] ELSE new[i - Len(yielded)]
  BY <1>1, ConcatProperties
<1>4. Len(yielded) \in Nat /\ Len(new) \in Nat BY <1>1, LenProperties
<1>5. DOMAIN (yielded \o new) = 1..(Len(yielded) + Len(new)) BY <1>3, LenProperties
<1>6. \A i \in 1..Len(yielded) : (yielded \o new)[i] = yielded[i] BY <1>3, <1>4
<1>7. \A i \in 1..Len(new) : (yielded \o new)[Len(yielded) + i] = new[i]
  <2> TAKE i \in 1..Len(new)
  <2>1. Len(yielded) + i \in 1..(Len(yielded) + Len(new)) /\ ~(Len(yielded) + i <= Len(yielded))
        /\ (Len(yielded) + i) - Len(yielded) = i BY <1>4
  <2> QED BY <1>3, <2>1
<1> QED BY <1>2, <1>3, <1>5, <1>6, <1>7

LEMMA NumbersAreNat ==
    /\ MaxPages \in Nat /\ MaxTotal \in Nat /\ MaxPages <= MaxTotal
    /\ Queries \subseteq Nat /\ None \notin Queries /\ None = -1
BY PagesAssumption DEF Queries, None

LEMMA AskedIsANumber ==
    ASSUME CrawlTypeOK
    PROVE  /\ page.asked \in Int /\ (page.asked = None \/ page.asked \in Nat)
           /\ page.last \in BOOLEAN /\ page.total \in Nat
<1>1. page \in PageAnswers BY DEF CrawlTypeOK
<1>2. page.asked \in Queries \cup {None} /\ page.last \in BOOLEAN /\ page.total \in 0..MaxTotal
  BY <1>1 DEF PageAnswers
<1>3. MaxTotal \in Nat BY PagesAssumption
<1>4. page.total \in Nat BY <1>2, <1>3
<1>5. page.asked \in 0..(MaxTotal + 1) \/ page.asked = -1 BY <1>2 DEF Queries, None
<1>6. page.asked \in Nat \/ page.asked = -1 BY <1>3, <1>5
<1> QED BY <1>2, <1>4, <1>6 DEF None

(* A page that is fetched is one of the pull's, or empty; and it is the one  *)
(* that was asked for if the contents are right.                             *)
LEMMA ContentsArePages ==
    ASSUME CrawlTypeOK, query \in Nat, NEW content \in Contents(query)
    PROVE  \/ /\ content = << >>
              /\ broker.content => query >= pages
           \/ \E m \in 0..(MaxPages - 1) :
                 /\ content = OnPage(m) /\ m < pages
                 /\ \/ m = query
                    \/ ~broker.content /\ m = pages - 1 /\ query >= pages
<1>1. pages \in 0..MaxPages /\ MaxPages \in Nat BY NumbersAreNat DEF CrawlTypeOK
<1>2. CASE query < pages
  <2>1. content = OnPage(query) \/ (~broker.content /\ content = << >>)
    BY <1>1, <1>2 DEF Contents
  <2>2. query \in 0..(MaxPages - 1) BY <1>1, <1>2
  <2> QED BY <1>2, <2>1, <2>2
<1>3. CASE ~(query < pages)
  <2>1. content = << >> \/ (~broker.content /\ pages > 0 /\ content = OnPage(pages - 1))
    BY <1>1, <1>3 DEF Contents
  <2>2. pages > 0 => pages - 1 \in 0..(MaxPages - 1) BY <1>1
  <2> QED BY <1>1, <1>3, <2>1, <2>2
<1> QED BY <1>2, <1>3

(* FetchPage, with names for what it fetches and puts out.                   *)
LEMMA FetchPageIs ==
    ASSUME CrawlTypeOK, FetchPage
    PROVE  /\ CrawlTypeOK' /\ query \in 0..MaxTotal
           /\ page'.asked = query /\ page'.last \in Lasts(query) /\ page'.total \in Totals
           /\ page'.content \in Contents(query)
           /\ page'.last \in BOOLEAN /\ page'.total \in 0..MaxTotal
           /\ \E d \in {0, 1} :
                 /\ d = IF Complains(page') THEN 1 ELSE 0
                 /\ DOMAIN Stream' = 1..(Len(Stream) + d + Len(page'.content))
                 /\ \A i \in 1..Len(Stream) : Stream'[i] = Stream[i]
                 /\ d = 1 => Stream'[Len(Stream) + 1] = Inconsistent(query)
                 /\ \A k \in 1..Len(page'.content) :
                       Stream'[Len(Stream) + d + k] =
                           IF page'.content[k] \in malformed THEN RecordError(query, k - 1)
                                                             ELSE Ok(page'.content[k])
<1>1. query \in 0..MaxTotal
  BY NumbersAreNat DEF CrawlTypeOK, FetchPage, Queries
<1>2. PICK last \in Lasts(query), total \in Totals, content \in Contents(query) :
        page' = [asked |-> query, last |-> last, total |-> total, content |-> content]
  BY DEF FetchPage
<1>3. /\ page'.asked = query /\ page'.last = last /\ page'.total = total
      /\ page'.content = content
  BY <1>2
<1>4. last \in BOOLEAN
  <2>1. CASE broker.last
    <3>1. last = (query + 1 >= pages) BY <2>1 DEF Lasts
    <3> QED BY <3>1
  <2>2. CASE ~broker.last BY <2>2 DEF Lasts
  <2> QED BY <2>1, <2>2
<1>5. total \in 0..MaxTotal
  <2>1. pages \in 0..MaxTotal BY NumbersAreNat DEF CrawlTypeOK
  <2> QED BY <2>1, NumbersAreNat DEF Totals
<1>6. content \in {<< >>} \cup {OnPage(n) : n \in 0..(MaxPages - 1)}
  BY <1>1, ContentsArePages
<1>7. page' \in PageAnswers BY <1>1, <1>2, <1>4, <1>5, <1>6, NumbersAreNat DEF PageAnswers, Queries
<1> DEFINE d == IF Complains(page') THEN 1 ELSE 0
           head == IF Complains(page') THEN << Inconsistent(query) >> ELSE << >>
           body == Decode(page')
           new == head \o body
<1>8. head \in Seq(Items) /\ Len(head) = d /\ (d = 1 => head[1] = Inconsistent(query))
  <2>1. Inconsistent(query) \in Items BY <1>1, NumbersAreNat DEF Items, Inconsistent, Queries
  <2>2. CASE Complains(page') BY <2>1, <2>2
  <2>3. CASE ~Complains(page') BY <2>3
  <2> QED BY <2>2, <2>3
<1>9. /\ Len(content) \in {0, 2} /\ DOMAIN content = 1..Len(content)
      /\ \A k \in 1..Len(content) : content[k] \in Records /\ k - 1 \in {0, 1}
  <2>1. CASE content = << >> BY <2>1
  <2>2. ASSUME NEW n \in 0..(MaxPages - 1), content = OnPage(n)
        PROVE  /\ Len(content) \in {0, 2} /\ DOMAIN content = 1..Len(content)
               /\ \A k \in 1..Len(content) : content[k] \in Records /\ k - 1 \in {0, 1}
    <3>1. Len(content) = 2 /\ DOMAIN content = 1..2 BY <2>2 DEF OnPage
    <3>2. content[1] = [page |-> n, index |-> 0] /\ content[2] = [page |-> n, index |-> 1]
      BY <2>2 DEF OnPage
    <3>3. content[1] \in Records /\ content[2] \in Records BY <3>2 DEF Records, Listing
    <3> QED BY <3>1, <3>3
  <2> QED BY <1>6, <2>1, <2>2
<1>10. /\ body \in Seq(Items) /\ Len(body) = Len(content)
       /\ \A k \in 1..Len(content) : body[k] = IF content[k] \in malformed THEN RecordError(query, k - 1)
                                                                         ELSE Ok(content[k])
  <2>1. body = [k \in 1..Len(content) |-> IF content[k] \in malformed THEN RecordError(query, k - 1)
                                                                    ELSE Ok(content[k])]
    BY <1>3, <1>9 DEF Decode
  <2>2. ASSUME NEW k \in 1..Len(content)
        PROVE  RecordError(query, k - 1) \in Items /\ Ok(content[k]) \in Items
    <3>1. content[k] \in Records /\ k - 1 \in {0, 1} BY <1>9
    <3>2. content[k].page \in Queries /\ content[k].index \in {0, 1}
      BY <3>1, NumbersAreNat DEF Records, Listing, Queries
    <3>3. query \in Queries BY <1>1, NumbersAreNat DEF Queries
    <3> QED BY <3>1, <3>2, <3>3 DEF RecordError, Ok, Items
  <2>3. body \in [1..Len(content) -> Items] BY <2>1, <2>2
  <2>4. Len(content) \in Nat BY <1>9
  <2> HIDE DEF body
  <2>5. body \in Seq(Items) BY <2>3, <2>4, SeqDef
  <2>6. Len(body) = Len(content) BY <2>3, <2>4, <2>5, LenProperties
  <2> QED BY <2>1, <2>5, <2>6
<1>11. /\ new \in Seq(Items) /\ Len(new) = d + Len(content)
       /\ d = 1 => new[1] = Inconsistent(query)
       /\ \A k \in 1..Len(content) : new[d + k] = body[k]
  <2> HIDE DEF head, body
  <2>1. /\ new \in Seq(Items) /\ Len(new) = Len(head) + Len(body)
        /\ \A i \in 1..(Len(head) + Len(body)) : new[i] = IF i <= Len(head) THEN head[i] ELSE body[i - Len(head)]
    BY <1>8, <1>10, ConcatProperties
  <2>2. d \in {0, 1} OBVIOUS
  <2> HIDE DEF d, new
  <2>3. d = 1 => new[1] = head[1]
    <3> SUFFICES ASSUME d = 1 PROVE new[1] = head[1] OBVIOUS
    <3>1. Len(head) = 1 /\ 1 \in 1..(Len(head) + Len(body)) BY <1>8, <1>9, <1>10
    <3> QED BY <2>1, <3>1
  <2>4. ASSUME NEW k \in 1..Len(content) PROVE new[d + k] = body[k]
    <3>1. d + k \in 1..(Len(head) + Len(body)) /\ ~(d + k <= Len(head)) /\ (d + k) - Len(head) = k
      BY <1>8, <1>9, <1>10, <2>2
    <3> QED BY <2>1, <3>1
  <2> QED BY <1>8, <1>10, <2>1, <2>3, <2>4
<1>12. items = << >> /\ yielded' = yielded /\ items' = new BY <1>3 DEF FetchPage
<1>13. CrawlTypeOK'
  <2>1. query' \in Queries \cup {None} BY <1>1, NumbersAreNat DEF FetchPage, NextQuery, Queries
  <2>2. items' \in Seq(Items) BY <1>11, <1>12
  <2>3. UNCHANGED <<pages, malformed, broker, yielded>> BY DEF FetchPage
  <2> QED BY <1>7, <2>1, <2>2, <2>3 DEF CrawlTypeOK
<1>14. d \in {0, 1} OBVIOUS
<1> HIDE DEF new, head, body, d
<1>15. /\ DOMAIN Stream' = 1..(Len(Stream) + Len(new))
       /\ \A i \in 1..Len(Stream) : Stream'[i] = Stream[i]
       /\ \A i \in 1..Len(new) : Stream'[Len(Stream) + i] = new[i]
  BY <1>11, <1>12, StreamGrows
<1>16. Len(Stream) \in Nat BY StreamIsTyped
<1>17. DOMAIN Stream' = 1..(Len(Stream) + d + Len(content)) BY <1>9, <1>11, <1>14, <1>15, <1>16
<1>18. d = 1 => Stream'[Len(Stream) + 1] = Inconsistent(query) BY <1>9, <1>11, <1>15
<1>19. ASSUME NEW k \in 1..Len(content)
       PROVE  Stream'[Len(Stream) + d + k] = IF content[k] \in malformed THEN RecordError(query, k - 1)
                                                                         ELSE Ok(content[k])
  <2>1. d + k \in 1..Len(new) /\ Len(Stream) + d + k = Len(Stream) + (d + k)
    BY <1>9, <1>11, <1>14, <1>16
  <2> QED BY <1>10, <1>11, <1>15, <2>1
<1> QED BY <1>1, <1>3, <1>4, <1>5, <1>13, <1>14, <1>15, <1>17, <1>18, <1>19 DEF d

LEMMA ItemsTell ==
    ASSUME NEW r, NEW n, NEW k
    PROVE  /\ ItemOf(r).page = r.page /\ ItemOf(r).index = r.index
           /\ ItemOf(r).kind \in {"Ok", "Record"} /\ Place(ItemOf(r)) = Place(r)
           /\ Ok(r).page = r.page /\ Ok(r).index = r.index /\ Ok(r).kind = "Ok"
           /\ RecordError(n, k).page = n /\ RecordError(n, k).index = k
           /\ RecordError(n, k).kind = "Record"
           /\ Inconsistent(n).kind = "PageInconsistent" /\ PageError(n).kind = "Page"
BY DEF ItemOf, Ok, RecordError, Place, Inconsistent, PageError

(* The records a fetch puts into the stream: those of the page asked for, if *)
(* the pull has one, and else none or the last page's.                       *)
LEMMA FetchedRecords ==
    ASSUME CrawlTypeOK, FetchPage
    PROVE  \A i \in RecordsInStream' :
              \/ i \in RecordsInStream /\ Stream'[i] = Stream[i]
              \/ \E at \in Nat, k \in {0, 1} :
                    /\ at >= Len(Stream) /\ i = at + k + 1
                    /\ at = Len(Stream) + IF Complains(page') THEN 1 ELSE 0
                    /\ Stream'[i].page <= query /\ Stream'[i].page \in Nat
                    /\ Stream'[i].index = k
                    /\ \/ /\ query < pages
                          /\ Stream'[i] = ItemOf([page |-> query, index |-> k])
                       \/ ~broker.content /\ Stream'[i].page >= pages - 1
<1>1. PICK d \in {0, 1} :
        /\ d = IF Complains(page') THEN 1 ELSE 0
        /\ DOMAIN Stream' = 1..(Len(Stream) + d + Len(page'.content))
        /\ \A i \in 1..Len(Stream) : Stream'[i] = Stream[i]
        /\ d = 1 => Stream'[Len(Stream) + 1] = Inconsistent(query)
        /\ \A k \in 1..Len(page'.content) :
              Stream'[Len(Stream) + d + k] =
                  IF page'.content[k] \in malformed THEN RecordError(query, k - 1)
                                                    ELSE Ok(page'.content[k])
  BY FetchPageIs
<1>6. d = 1 => Stream'[Len(Stream) + 1] = Inconsistent(query) BY <1>1
<1>7. d = 1 => Stream'[Len(Stream) + 1].kind = "PageInconsistent" BY <1>6 DEF Inconsistent
<1>8. query \in Nat BY FetchPageIs, NumbersAreNat
<1>9. Len(Stream) \in Nat /\ DOMAIN Stream = 1..Len(Stream) BY StreamIsTyped
<1>2. /\ Len(Stream) \in Nat /\ DOMAIN Stream = 1..Len(Stream) /\ query \in Nat
      /\ pages \in 0..MaxPages /\ MaxPages \in Nat
  BY <1>8, <1>9, NumbersAreNat DEF CrawlTypeOK
<1> TAKE i \in RecordsInStream'
<1>3. i \in DOMAIN Stream' /\ Stream'[i].kind \in {"Ok", "Record"} BY DEF RecordsInStream
<1>4. CASE i <= Len(Stream)
  <2>1. i \in 1..Len(Stream) BY <1>1, <1>2, <1>3, <1>4, FetchPageIs, ContentsArePages DEF OnPage
  <2> QED BY <1>1, <1>2, <1>3, <2>1 DEF RecordsInStream
<1>5. CASE ~(i <= Len(Stream))
  <2>1. PICK m \in 0..(MaxPages - 1) :
          /\ page'.content = OnPage(m) /\ m < pages
          /\ \/ m = query
             \/ ~broker.content /\ m = pages - 1 /\ query >= pages
    <3>1. CASE page'.content = << >>
      <4>1. Len(page'.content) = 0 BY <3>1
      <4>2. d = 1 /\ i = Len(Stream) + 1 BY <1>1, <1>2, <1>3, <1>5, <4>1
      <4>3. Stream'[i].kind = "PageInconsistent" BY <1>7, <4>2
      <4> QED BY <1>3, <4>3
    <3> QED BY <3>1, <1>2, FetchPageIs, ContentsArePages
  <2>2. Len(page'.content) = 2 /\ page'.content[1] = [page |-> m, index |-> 0]
        /\ page'.content[2] = [page |-> m, index |-> 1]
    BY <2>1 DEF OnPage
  <2>3. i # Len(Stream) + 1 \/ d # 1
    <3> SUFFICES ASSUME d = 1, i = Len(Stream) + 1 PROVE FALSE OBVIOUS
    <3>1. Stream'[i].kind = "PageInconsistent" BY <1>7
    <3> QED BY <1>3, <3>1
  <2>4. PICK k \in {0, 1} : i = Len(Stream) + d + (k + 1)
    BY <1>1, <1>2, <1>3, <1>5, <2>2, <2>3
  <2> DEFINE rec == [page |-> m, index |-> k]
  <2>5. Stream'[i] = IF rec \in malformed THEN RecordError(query, k) ELSE Ok(rec)
    <3>1. k + 1 \in 1..Len(page'.content) /\ (k + 1) - 1 = k BY <2>2
    <3>2. page'.content[k + 1] = rec BY <2>2
    <3> HIDE DEF rec
    <3> QED BY <1>1, <2>4, <3>1, <3>2
  <2>6. Stream'[i].index = k /\ Stream'[i].page \in {m, query} BY <2>5, ItemsTell
  <2>7. Stream'[i].page <= query /\ Stream'[i].page \in Nat BY <1>2, <2>1, <2>6
  <2>8. CASE m = query
    <3>1. Stream'[i] = ItemOf([page |-> query, index |-> k]) BY <2>5, <2>8 DEF ItemOf, RecordError
    <3>2. query < pages BY <2>1, <2>8
    <3>3. /\ Len(Stream) + d \in Nat /\ Len(Stream) + d >= Len(Stream)
          /\ i = (Len(Stream) + d) + k + 1
      BY <1>2, <2>4
    <3> QED BY <1>1, <2>6, <2>7, <3>1, <3>2, <3>3
  <2>9. CASE ~broker.content /\ m = pages - 1 /\ query >= pages
    <3>1. Stream'[i].page >= pages - 1 BY <1>2, <2>1, <2>6, <2>9
    <3>3. /\ Len(Stream) + d \in Nat /\ Len(Stream) + d >= Len(Stream)
          /\ i = (Len(Stream) + d) + k + 1
      BY <1>2, <2>4
    <3> QED BY <1>1, <2>6, <2>7, <2>9, <3>1, <3>3
  <2> QED BY <2>1, <2>8, <2>9
<1> QED BY <1>2, <1>3, <1>4, <1>5, <1>1

LEMMA CrawlStarts == CrawlInit => CrawlInv
<1> SUFFICES ASSUME CrawlInit PROVE CrawlInv OBVIOUS
<1>1. CrawlTypeOK
  <2>1. pages \in 0..MaxPages /\ MaxPages \in Nat BY NumbersAreNat DEF CrawlInit
  <2>2. Listing(pages) \subseteq Records BY <2>1 DEF Listing, Records
  <2>3. NoPage \in PageAnswers BY NumbersAreNat DEF NoPage, PageAnswers
  <2>4. query \in Queries BY NumbersAreNat DEF CrawlInit, Queries
  <2>5. items \in Seq(Items) /\ yielded \in Seq(Items) BY DEF CrawlInit
  <2> QED BY <2>2, <2>3, <2>4, <2>5 DEF CrawlInit, CrawlTypeOK
<1>2. page.asked = -1 /\ query = 0 BY DEF CrawlInit, NoPage, None
<1>3. Stream = << >> BY DEF CrawlInit, Stream
<1>4. RecordsInStream = {} BY <1>3 DEF RecordsInStream
<1>5. Walks BY <1>2, NumbersAreNat DEF Walks
<1>6. Whole
  <2>1. \A r \in Listing(pages) : r.page >= 0 BY DEF Listing
  <2>2. \A r \in Listing(pages) : r.page \in Int BY DEF Listing
  <2> QED BY <1>2, <2>1, <2>2 DEF Whole
<1>7. Unalarmed BY <1>2, <1>3 DEF Unalarmed, InStream
<1> QED BY <1>1, <1>4, <1>5, <1>6, <1>7 DEF CrawlInv, Asked, Sorted

LEMMA PollKeeps == CrawlInv /\ Poll => CrawlInv'
<1> SUFFICES ASSUME CrawlInv, Poll PROVE CrawlInv' OBVIOUS
<1>1. CrawlTypeOK' /\ Stream' = Stream BY PollLeavesStream DEF CrawlInv
<1>2. UNCHANGED <<pages, malformed, broker, query, page>> BY DEF Poll
<1>3. RecordsInStream' = RecordsInStream BY <1>1 DEF RecordsInStream
<1>4. \A kind : InStream(kind)' <=> InStream(kind) BY <1>1 DEF InStream
<1>5. Walks' BY <1>2, <1>4 DEF CrawlInv, Walks, Lasts, Totals, Contents, Complains, Follows,
                               MoreByFlag, MoreByCount
<1>6. Asked' /\ Whole' BY <1>1, <1>2, <1>3, <1>4 DEF CrawlInv, Asked, Whole, Listing, ItemOf,
                                                      EndsSilently, MoreByCount
<1>7. Sorted' BY <1>1, <1>2, <1>3 DEF CrawlInv, Sorted, Place
<1>8. Unalarmed' BY <1>2, <1>4 DEF CrawlInv, Unalarmed, Sound
<1> QED BY <1>1, <1>5, <1>6, <1>7, <1>8 DEF CrawlInv

LEMMA FetchFailsKeeps == CrawlInv /\ FetchFails => CrawlInv'
<1> SUFFICES ASSUME CrawlInv, FetchFails PROVE CrawlInv' OBVIOUS
<1>1. query \in Queries /\ CrawlTypeOK /\ UNCHANGED <<pages, malformed, broker, page, yielded>>
      /\ query' = None
  BY DEF CrawlInv, CrawlTypeOK, FetchFails
<1> DEFINE new == << PageError(query) >>
<1>2. PageError(query) \in Items BY <1>1 DEF PageError, Items
<1>3. new \in Seq(Items) /\ Len(new) = 1 /\ new[1] = PageError(query) BY <1>2
<1>4. items = << >> /\ items' = new BY DEF FetchFails
<1> HIDE DEF new
<1>5. CrawlTypeOK' BY <1>1, <1>3, <1>4 DEF CrawlTypeOK
<1>6. /\ DOMAIN Stream' = 1..(Len(Stream) + 1)
      /\ \A i \in 1..Len(Stream) : Stream'[i] = Stream[i]
      /\ Stream'[Len(Stream) + 1] = PageError(query)
  <2>1. /\ DOMAIN Stream' = 1..(Len(Stream) + Len(new))
        /\ \A i \in 1..Len(Stream) : Stream'[i] = Stream[i]
        /\ \A i \in 1..Len(new) : Stream'[Len(Stream) + i] = new[i]
    BY <1>1, <1>3, <1>4, StreamGrows
  <2> QED BY <1>3, <2>1
<1>7. Len(Stream) \in Nat /\ DOMAIN Stream = 1..Len(Stream) BY <1>1, StreamIsTyped
<1>8. Stream'[Len(Stream) + 1].kind = "Page" BY <1>6 DEF PageError
<1>9. /\ RecordsInStream' = RecordsInStream
      /\ \A i \in DOMAIN Stream : i \in DOMAIN Stream' /\ Stream'[i] = Stream[i]
  BY <1>6, <1>7, <1>8 DEF RecordsInStream
<1>10. InStream("Page")' BY <1>6, <1>7, <1>8 DEF InStream
<1>11. InStream("PageInconsistent")' <=> InStream("PageInconsistent")
  BY <1>6, <1>7, <1>8, <1>9 DEF InStream
<1>12. RecordsInStream \subseteq DOMAIN Stream BY DEF RecordsInStream
<1>13. Walks'
  BY <1>1, <1>10, <1>11 DEF CrawlInv, Walks, Lasts, Totals, Contents, Complains, MoreByFlag,
                            MoreByCount
<1>14. Asked' BY <1>1, <1>9, <1>12 DEF CrawlInv, Asked, Listing, ItemOf
<1>15. Whole' BY <1>1, <1>9, <1>11 DEF CrawlInv, Whole, Listing, ItemOf, EndsSilently, MoreByCount
<1>16. Sorted' BY <1>1, <1>9, <1>12 DEF CrawlInv, Sorted, Place
<1>17. Unalarmed' BY <1>1, <1>11 DEF CrawlInv, Unalarmed, Sound
<1> QED BY <1>5, <1>13, <1>14, <1>15, <1>16, <1>17 DEF CrawlInv

(* What a sound broker says of a page agrees with itself and with the pull.  *)
LEMMA SoundPages ==
    ASSUME CrawlTypeOK, Sound, query \in Nat, query = 0 \/ query < pages,
           NEW p, p.asked = query, p.last \in Lasts(query), p.total \in Totals,
           p.content \in Contents(query)
    PROVE  ~Complains(p) /\ (Follows(p) => query + 1 < pages)
<1> DEFINE more == query + 1 < pages
<1>0. pages \in Nat BY NumbersAreNat DEF CrawlTypeOK
<1>1. p.last = ~more
  <2>1. (query + 1 >= pages) = ~more BY <1>0
  <2>2. p.last = (query + 1 >= pages) BY DEF Sound, Lasts
  <2> QED BY <2>1, <2>2
<1>2. p.total = pages \/ p.total = 0
  <2>1. broker.total \in {"right", "absent"} BY DEF Sound, CrawlTypeOK
  <2> QED BY <2>1 DEF Totals
<1>3. p.content = IF query < pages THEN OnPage(query) ELSE << >> BY DEF Sound, Contents
<1>4. MoreByFlag(p) = more
  <2> HIDE DEF more
  <2>1. more \in BOOLEAN BY DEF more
  <2> QED BY <1>1, <2>1 DEF MoreByFlag
<1>5. p.total > 0 => p.total = pages BY <1>2
<1>6. MoreByCount(p) = (query + 1 < p.total) BY DEF MoreByCount
<1>7. p.total > 0 => MoreByCount(p) = more BY <1>5, <1>6
<1>8. CASE p.content = << >>
  <2>1. ~(query < pages)
    <3>1. OnPage(query) # << >> BY DEF OnPage
    <3> QED BY <1>3, <1>8, <3>1
  <2>2. ~(query + 1 < pages) BY <1>0, <2>1
  <2> QED BY <1>4, <1>8, <2>2 DEF Complains, Follows
<1>9. CASE p.content # << >>
  <2> HIDE DEF more
  <2>1. ~Complains(p) BY <1>4, <1>7, <1>9 DEF Complains
  <2>2. Follows(p) => more BY <1>4, <1>7, <1>9 DEF Follows
  <2> QED BY <2>1, <2>2 DEF more
<1> QED BY <1>8, <1>9

LEMMA FetchPageKeeps == CrawlInv /\ FetchPage => CrawlInv'
<1> SUFFICES ASSUME CrawlInv, FetchPage PROVE CrawlInv' OBVIOUS
<1>1. CrawlTypeOK /\ Walks /\ Asked /\ Sorted /\ Whole BY DEF CrawlInv
<1>2. /\ UNCHANGED <<pages, malformed, broker>> /\ query # None
      /\ query' = IF Follows(page') THEN query + 1 ELSE None
  BY DEF FetchPage, NextQuery
<1>3. /\ CrawlTypeOK' /\ query \in 0..MaxTotal
      /\ page'.asked = query /\ page'.last \in Lasts(query) /\ page'.total \in Totals
      /\ page'.content \in Contents(query)
      /\ page'.last \in BOOLEAN /\ page'.total \in 0..MaxTotal
  BY <1>1, FetchPageIs
<1>4. PICK d \in {0, 1} :
        /\ d = IF Complains(page') THEN 1 ELSE 0
        /\ DOMAIN Stream' = 1..(Len(Stream) + d + Len(page'.content))
        /\ \A i \in 1..Len(Stream) : Stream'[i] = Stream[i]
        /\ d = 1 => Stream'[Len(Stream) + 1] = Inconsistent(query)
        /\ \A k \in 1..Len(page'.content) :
              Stream'[Len(Stream) + d + k] =
                  IF page'.content[k] \in malformed THEN RecordError(query, k - 1)
                                                    ELSE Ok(page'.content[k])
  BY <1>1, FetchPageIs
<1>5. /\ Len(Stream) \in Nat /\ DOMAIN Stream = 1..Len(Stream)
      /\ \A i \in DOMAIN Stream : Stream[i] \in Items
  BY <1>1, StreamIsTyped
<1>6. /\ query \in Nat /\ query = page.asked + 1
      /\ page.asked # None => Follows(page)
  BY <1>1, <1>2, <1>3, NumbersAreNat DEF Walks
<1>7. page.asked \in Int /\ page.asked = query - 1
  BY <1>1, <1>6, AskedIsANumber
<1>8. pages \in 0..MaxPages /\ pages \in Nat BY <1>1, NumbersAreNat DEF CrawlTypeOK
<1>9. Len(page'.content) \in {0, 2}
  <2>1. page'.content = << >> \/ \E m \in 0..(MaxPages - 1) : page'.content = OnPage(m)
    BY <1>1, <1>3, <1>6, ContentsArePages
  <2>2. Len(<< >>) = 0 /\ \A m : Len(OnPage(m)) = 2 BY DEF OnPage
  <2> QED BY <2>1, <2>2
<1>20. PICK last \in Nat : DOMAIN Stream' = 1..last /\ last >= Len(Stream) + d
  <2>1. DOMAIN Stream' = 1..(Len(Stream) + d + Len(page'.content)) BY <1>4
  <2>2. PICK l \in {0, 2} : l = Len(page'.content) BY <1>9
  <2>3. PICK s \in Nat : s = Len(Stream) BY <1>5
  <2>4. DOMAIN Stream' = 1..(s + d + l) BY <2>1, <2>2, <2>3
  <2>5. s + d + l \in Nat /\ s + d + l >= s + d OBVIOUS
  <2> QED BY <2>3, <2>4, <2>5
<1>10. \A i \in DOMAIN Stream : i \in DOMAIN Stream' /\ Stream'[i] = Stream[i]
  <2>1. \A i \in 1..Len(Stream) : Stream'[i] = Stream[i] BY <1>4
  <2>2. \A i \in 1..Len(Stream) : i \in 1..last BY <1>5, <1>20
  <2> QED BY <1>5, <1>20, <2>1, <2>2
<1>11. Complains(page') => InStream("PageInconsistent")'
  <2> SUFFICES ASSUME Complains(page') PROVE InStream("PageInconsistent")' OBVIOUS
  <2>1. d = 1 BY <1>4
  <2>2. Stream'[Len(Stream) + 1] = Inconsistent(query) BY <1>4, <2>1
  <2>3. Len(Stream) + 1 \in DOMAIN Stream' BY <1>5, <1>20, <2>1
  <2>4. Inconsistent(query).kind = "PageInconsistent" BY DEF Inconsistent
  <2> QED BY <2>2, <2>3, <2>4 DEF InStream
<1>12. Walks'
  <2>1. query' # None => query' = page'.asked + 1 /\ Follows(page') BY <1>2, <1>3
  <2>2. /\ (page.last \in Lasts(page.asked))' /\ (page.total \in Totals)'
        /\ (page.content \in Contents(page.asked))'
    BY <1>2, <1>3 DEF Lasts, Totals, Contents
  <2>3. query' = None => page'.asked # None /\ ~Follows(page')
    BY <1>2, <1>3, <1>6, NumbersAreNat
  <2>4. Complains(page)' <=> Complains(page') BY DEF Complains, MoreByFlag, MoreByCount
  <2>5. Follows(page)' <=> Follows(page') BY DEF Follows, MoreByFlag, MoreByCount
  <2> QED BY <1>11, <2>1, <2>2, <2>3, <2>4, <2>5 DEF Walks
<1> DEFINE New(i, at, k) ==
              /\ at >= Len(Stream) /\ i = at + k + 1
              /\ at = Len(Stream) + IF Complains(page') THEN 1 ELSE 0
              /\ Stream'[i].page <= query /\ Stream'[i].page \in Nat
              /\ Stream'[i].index = k
              /\ \/ /\ query < pages
                    /\ Stream'[i] = ItemOf([page |-> query, index |-> k])
                 \/ ~broker.content /\ Stream'[i].page >= pages - 1
<1>13. \A i \in RecordsInStream' :
          \/ i \in RecordsInStream /\ Stream'[i] = Stream[i]
          \/ \E at \in Nat, k \in {0, 1} : New(i, at, k)
  BY <1>1, FetchedRecords
<1>14. Listing(pages)' = Listing(pages) /\ (\A r : ItemOf(r)' = ItemOf(r)) BY <1>2 DEF Listing, ItemOf
<1>15. \A i \in RecordsInStream :
          /\ i \in Nat /\ i <= Len(Stream) /\ Stream[i].page \in Nat /\ Stream[i].index \in {0, 1}
          /\ Stream[i].page < query
  <2> TAKE i \in RecordsInStream
  <2>1. i \in DOMAIN Stream BY DEF RecordsInStream
  <2>2. Stream[i] \in Items BY <1>5, <2>1
  <2>3. Stream[i].page \in Nat /\ Stream[i].index \in {0, 1} BY <2>2, NumbersAreNat DEF Items
  <2>4. Stream[i].page <= page.asked BY <1>1 DEF Asked
  <2>5. i \in Nat /\ i <= Len(Stream) BY <1>5, <2>1
  <2>6. Stream[i].page < query BY <1>6, <1>7, <2>3, <2>4
  <2> QED BY <2>3, <2>5, <2>6
<1>16. Asked'
  <2> SUFFICES ASSUME NEW i \in RecordsInStream'
               PROVE  /\ Stream'[i].page <= query
                      /\ broker.content => \E r \in Listing(pages) : Stream'[i] = ItemOf(r)
    BY <1>2, <1>3, <1>14 DEF Asked
  <2>1. CASE i \in RecordsInStream /\ Stream'[i] = Stream[i]
    <3>1. Stream[i].page <= query BY <1>6, <1>15, <2>1
    <3> QED BY <1>1, <2>1, <3>1 DEF Asked
  <2>2. CASE \E at \in Nat, k \in {0, 1} : New(i, at, k)
    <3>1. PICK at \in Nat, k \in {0, 1} : New(i, at, k) BY <2>2
    <3>2. CASE query < pages /\ Stream'[i] = ItemOf([page |-> query, index |-> k])
      <4>1. [page |-> query, index |-> k] \in Listing(pages) BY <1>6, <1>8, <3>2 DEF Listing
      <4> QED BY <3>1, <3>2, <4>1
    <3> QED BY <3>1, <3>2
  <2> QED BY <1>13, <2>1, <2>2
<1>17. Sorted'
  <2> SUFFICES ASSUME NEW i \in RecordsInStream', NEW j \in RecordsInStream', i < j,
                      Stream'[j].page < pages,
                      broker.content \/ Stream'[j].page < pages - 1
               PROVE  Place(Stream'[i]) < Place(Stream'[j])
    BY <1>2 DEF Sorted, Place
  <2>1. CASE j \in RecordsInStream /\ Stream'[j] = Stream[j]
    <3>1. i \in RecordsInStream /\ Stream'[i] = Stream[i] BY <1>13, <1>15, <2>1
    <3> QED BY <1>1, <2>1, <3>1 DEF Sorted
  <2>2. CASE \E at \in Nat, k \in {0, 1} : New(j, at, k)
    <3>1. PICK at \in Nat, k \in {0, 1} : New(j, at, k) BY <2>2
    <3>2. query < pages /\ Stream'[j] = ItemOf([page |-> query, index |-> k])
      BY <1>8, <3>1
    <3>3. Stream'[j].page = query /\ Stream'[j].index = k
      BY <3>2 DEF ItemOf, Ok, RecordError
    <3>4. CASE i \in RecordsInStream /\ Stream'[i] = Stream[i]
      BY <1>6, <1>15, <3>3, <3>4 DEF Place
    <3>5. CASE \E at2 \in Nat, k2 \in {0, 1} : New(i, at2, k2)
      <4>1. PICK at2 \in Nat, k2 \in {0, 1} : New(i, at2, k2) BY <3>5
      <4>2. at2 = at BY <3>1, <4>1
      <4>3. k2 < k BY <3>1, <4>1, <4>2
      <4>4. Stream'[i].page <= query /\ Stream'[i].index = k2 /\ Stream'[i].page \in Nat BY <4>1
      <4> HIDE DEF New
      <4> QED BY <1>6, <3>3, <4>3, <4>4 DEF Place
    <3> QED BY <1>13, <3>4, <3>5
  <2> QED BY <1>13, <2>1, <2>2
<1>18. Whole'
  <2> SUFFICES ASSUME NEW r \in Listing(pages), r.page <= query,
                      \/ broker.content
                      \/ /\ broker.last \/ (broker.total = "right" /\ ~EndsSilently')
                         /\ r.page < pages - 1 /\ ~InStream("PageInconsistent")'
               PROVE  \E i \in DOMAIN Stream' : Stream'[i] = ItemOf(r)
    BY <1>2, <1>3, <1>14 DEF Whole
  <2>1. r.page \in Nat /\ r.page < pages /\ r.index \in {0, 1}
        /\ r = [page |-> r.page, index |-> r.index]
    BY <1>8 DEF Listing
  <2>2. InStream("PageInconsistent") => InStream("PageInconsistent")' BY <1>10 DEF InStream
  <2>3. CASE r.page < query
    <3>1. r.page <= page.asked BY <1>6, <1>7, <2>1, <2>3
    <3>2. ~EndsSilently
      <4>1. page.asked # None BY <1>6, <1>7, <2>1, <3>1, NumbersAreNat
      <4> QED BY <1>6, <4>1 DEF EndsSilently, Follows
    <3>3. PICK i \in DOMAIN Stream : Stream[i] = ItemOf(r) BY <1>1, <2>2, <3>1, <3>2 DEF Whole
    <3> QED BY <1>10, <3>3
  <2>4. CASE r.page = query
    <3>1. page'.content = OnPage(query)
      <4>1. CASE broker.content
        BY <1>1, <1>3, <1>6, <1>8, <2>1, <2>4, <4>1, ContentsArePages
      <4>2. CASE /\ broker.last \/ (broker.total = "right" /\ ~EndsSilently')
                 /\ r.page < pages - 1 /\ ~InStream("PageInconsistent")'
        <5>1. page'.content # << >>
          <6> SUFFICES ASSUME page'.content = << >> PROVE FALSE OBVIOUS
          <6>1. page'.last
            <7> SUFFICES ASSUME ~page'.last PROVE FALSE OBVIOUS
            <7>1. Complains(page') BY DEF Complains, MoreByFlag
            <7> QED BY <1>11, <4>2, <7>1
          <6>2. query + 1 < pages BY <1>6, <1>8, <2>4, <4>2
          <6>3. CASE broker.last
            <7>1. page'.last = (query + 1 >= pages) BY <1>3, <6>3 DEF Lasts
            <7>2. ~(query + 1 >= pages) BY <1>6, <1>8, <6>2
            <7> QED BY <6>1, <7>1, <7>2
          <6>4. CASE broker.total = "right" /\ ~EndsSilently'
            <7>1. page'.total = pages BY <1>3, <6>4 DEF Totals
            <7>2. MoreByCount(page') BY <1>3, <6>2, <7>1 DEF MoreByCount
            <7> QED BY <6>1, <6>4, <7>2 DEF EndsSilently, MoreByCount
          <6> QED BY <4>2, <6>3, <6>4
        <5> QED BY <1>1, <1>3, <1>6, <1>8, <2>1, <2>4, <5>1, ContentsArePages
      <4> QED BY <4>1, <4>2
    <3> DEFINE k == r.index + 1
    <3>2. Len(page'.content) = 2 /\ k \in 1..2 /\ k - 1 = r.index BY <2>1, <3>1 DEF OnPage
    <3>3. page'.content[k] = r BY <2>1, <2>4, <3>1 DEF OnPage
    <3>4. Stream'[Len(Stream) + d + k] = ItemOf(r)
      <4> HIDE DEF k
      <4>1. Stream'[Len(Stream) + d + k] = IF r \in malformed THEN RecordError(query, r.index) ELSE Ok(r)
        BY <1>4, <3>2, <3>3
      <4> QED BY <2>4, <4>1 DEF ItemOf
    <3>5. Len(Stream) + d + k \in DOMAIN Stream' BY <1>4, <1>5, <3>2
    <3> QED BY <3>4, <3>5
  <2> QED BY <1>6, <2>1, <2>3, <2>4
<1>19. Unalarmed'
  <2> SUFFICES ASSUME Sound
               PROVE  /\ query' # None => query' < pages
                      /\ ~InStream("PageInconsistent")'
    BY <1>2 DEF Unalarmed, Sound
  <2>1. ~Complains(page') /\ (Follows(page') => query + 1 < pages)
    <3>1. Unalarmed BY DEF CrawlInv
    <3>2. query = 0 \/ query < pages BY <1>2, <3>1 DEF Unalarmed
    <3> QED BY <1>1, <1>2, <1>3, <1>6, <1>8, <3>2, SoundPages
  <2>2. d = 0 BY <1>4, <2>1
  <2>3. PICK s \in Nat : s = Len(Stream) BY <1>5
  <2>4. PICK l \in {0, 2} : l = Len(page'.content) BY <1>9
  <2>5. DOMAIN Stream' = 1..(s + d + l) BY <1>4, <2>3, <2>4
  <2>6. ASSUME NEW i \in DOMAIN Stream' PROVE Stream'[i].kind # "PageInconsistent"
    <3>1. CASE i <= s
      <4>1. i \in 1..s BY <2>5, <3>1
      <4>2. i \in DOMAIN Stream /\ Stream'[i] = Stream[i] BY <1>5, <1>10, <2>3, <4>1
      <4> QED BY <4>2 DEF CrawlInv, Unalarmed, InStream
    <3>2. CASE ~(i <= s)
      <4>1. PICK k \in 1..l : i = s + d + k
        <5>1. i - s \in 1..l /\ i = s + d + (i - s) BY <2>2, <2>5, <3>2
        <5> QED BY <5>1
      <4>2. Stream'[i] = IF page'.content[k] \in malformed THEN RecordError(query, k - 1)
                                                            ELSE Ok(page'.content[k])
        BY <1>4, <2>3, <2>4, <4>1
      <4> QED BY <4>2 DEF RecordError, Ok
    <3> QED BY <3>1, <3>2
  <2> QED BY <1>2, <2>1, <2>6 DEF InStream
<1> QED BY <1>3, <1>12, <1>16, <1>17, <1>18, <1>19 DEF CrawlInv

(* A crawl asks for the pages one after the other and keeps what it decoded  *)
(* in the order of the listing: crawl_evse_data in client/emp.rs, for any    *)
(* number of pages and whatever the broker gets wrong.                       *)
THEOREM CrawlsAreWalked == CrawlSpec => []CrawlInv
<1>1. CrawlInv /\ UNCHANGED crawlVars => CrawlInv'
  <2> SUFFICES ASSUME CrawlInv, UNCHANGED crawlVars PROVE CrawlInv' OBVIOUS
  <2>1. CrawlTypeOK' BY DEF CrawlInv, crawlVars, CrawlTypeOK
  <2>2. Stream' = Stream /\ UNCHANGED <<pages, malformed, broker, query, page>> BY DEF crawlVars, Stream
  <2>3. RecordsInStream' = RecordsInStream BY <2>2 DEF RecordsInStream
  <2>4. \A kind : InStream(kind)' <=> InStream(kind) BY <2>2 DEF InStream
  <2>5. Walks' BY <2>2, <2>4 DEF CrawlInv, Walks, Lasts, Totals, Contents, Complains, Follows,
                                 MoreByFlag, MoreByCount
  <2>6. Asked' /\ Whole' BY <2>2, <2>3, <2>4 DEF CrawlInv, Asked, Whole, Listing, ItemOf,
                                                    EndsSilently, MoreByCount
  <2>7. Sorted' BY <2>2, <2>3 DEF CrawlInv, Sorted, Place
  <2>8. Unalarmed' BY <2>2, <2>4 DEF CrawlInv, Unalarmed, Sound
  <2> QED BY <2>1, <2>5, <2>6, <2>7, <2>8 DEF CrawlInv
<1>2. CrawlInv /\ [CrawlNext]_crawlVars => CrawlInv'
  BY <1>1, FetchPageKeeps, FetchFailsKeeps, PollKeeps DEF CrawlNext
<1> QED BY <1>2, CrawlStarts, PTL DEF CrawlSpec

(* What a crawl holds and yields is of its type (crawl_evse_data).           *)
THEOREM CrawlTypeCorrect == CrawlSpec => []CrawlTypeOK
<1>1. CrawlInv => CrawlTypeOK BY DEF CrawlInv
<1> QED BY <1>1, CrawlsAreWalked, PTL

LEMMA YieldedIsStream ==
    ASSUME CrawlTypeOK
    PROVE  /\ DOMAIN yielded = 1..Len(yielded) /\ Len(yielded) \in Nat
           /\ \A i \in DOMAIN yielded : i \in DOMAIN Stream /\ i \in Nat /\ yielded[i] = Stream[i]
           /\ RecordsYielded \subseteq RecordsInStream
<1>1. yielded \in Seq(Items) /\ items \in Seq(Items) BY DEF CrawlTypeOK
<1>2. DOMAIN yielded = 1..Len(yielded) /\ Len(yielded) \in Nat /\ Len(items) \in Nat
  BY <1>1, LenProperties
<1>3. \A i \in DOMAIN yielded : i \in DOMAIN Stream /\ i \in Nat /\ yielded[i] = Stream[i]
  BY <1>2, StreamIsTyped
<1> QED BY <1>2, <1>3 DEF RecordsYielded, RecordsInStream

LEMMA NothingIsMissed == CrawlInv => NothingMissed
<1> SUFFICES ASSUME CrawlInv, Ended, ~Yields("Page")
             PROVE  /\ broker.content /\ broker.total = "right" => YieldsAll(pages)
                    /\ ~Yields("PageInconsistent") =>
                          /\ broker.last /\ broker.content => YieldsAll(pages)
                          /\ broker.last \/ (broker.total = "right" /\ ~EndsSilently) =>
                                YieldsAll(pages - 1) /\ YieldsInOrder(pages - 1)
  BY DEF NothingMissed
<1>1. CrawlTypeOK /\ Walks /\ Asked /\ Sorted /\ Whole BY DEF CrawlInv
<1>2. yielded \in Seq(Items) /\ items = << >> /\ query = None BY <1>1 DEF CrawlTypeOK, Ended
<1>3. Stream = yielded BY <1>2, ConcatEmptySeq DEF Stream
<1>4. RecordsInStream = RecordsYielded BY <1>3 DEF RecordsInStream, RecordsYielded
<1>5. /\ page.asked # None /\ ~Follows(page)
      /\ page.last \in Lasts(page.asked) /\ page.total \in Totals
      /\ page.content \in Contents(page.asked)
      /\ Complains(page) => InStream("PageInconsistent")
  BY <1>1, <1>2, <1>3 DEF Walks, InStream, Yields
<1>6. page.asked \in Nat /\ page.last \in BOOLEAN /\ page.total \in Nat
  BY <1>1, <1>5, AskedIsANumber
<1>7. pages \in 0..MaxPages /\ pages \in Nat BY <1>1, NumbersAreNat DEF CrawlTypeOK
<1>8. \A r : ItemOf(r).kind \in {"Ok", "Record"} BY DEF ItemOf, Ok, RecordError
<1>9. ASSUME NEW n \in Int, n <= pages, page.asked + 1 >= n,
             \/ broker.content
             \/ /\ broker.last \/ (broker.total = "right" /\ ~EndsSilently)
                /\ n <= pages - 1 /\ ~InStream("PageInconsistent")
      PROVE  YieldsAll(n)
  <2> SUFFICES ASSUME NEW r \in Listing(n)
               PROVE  \E i \in RecordsYielded : yielded[i] = ItemOf(r)
    BY DEF YieldsAll
  <2>1. r \in Listing(pages) /\ r.page \in Nat /\ r.page < n BY <1>7, <1>9 DEF Listing
  <2>2. r.page <= page.asked BY <1>6, <1>9, <2>1
  <2>3. n <= pages - 1 => r.page < pages - 1 BY <1>7, <1>9, <2>1
  <2>4. PICK i \in DOMAIN Stream : Stream[i] = ItemOf(r) BY <1>1, <1>9, <2>1, <2>2, <2>3 DEF Whole
  <2> QED BY <1>3, <1>8, <2>4 DEF RecordsYielded
<1>10. ASSUME broker.content, broker.total = "right" PROVE YieldsAll(pages)
  <2>1. page.total = pages BY <1>5, <1>10 DEF Totals
  <2>2. CASE page.content = << >>
    <3>1. page.asked >= pages
      <4> SUFFICES ASSUME page.asked < pages PROVE FALSE BY <1>6, <1>7
      <4>1. page.content = OnPage(page.asked) BY <1>5, <1>10 DEF Contents
      <4> QED BY <2>2, <4>1 DEF OnPage
    <3> QED BY <1>6, <1>7, <1>9, <1>10, <3>1
  <2>3. CASE page.content # << >>
    <3>1. pages > 0
      <4> SUFFICES ASSUME pages = 0 PROVE FALSE BY <1>7
      <4>1. page.content = << >> BY <1>5, <1>6, <1>10 DEF Contents
      <4> QED BY <2>3, <4>1
    <3>2. ~(page.asked + 1 < pages) BY <1>5, <2>1, <2>3, <3>1 DEF Follows, MoreByCount
    <3> QED BY <1>6, <1>7, <1>9, <1>10, <3>2
  <2> QED BY <2>2, <2>3
<1>11. ASSUME ~Yields("PageInconsistent"), broker.last PROVE page.asked + 1 >= pages /\ ~InStream("PageInconsistent")
  <2>1. ~InStream("PageInconsistent") BY <1>3, <1>11 DEF InStream, Yields
  <2>2. ~Complains(page) BY <1>5, <2>1
  <2>3. page.last = (page.asked + 1 >= pages) BY <1>5, <1>11 DEF Lasts
  <2>4. page.last
    <3> SUFFICES ASSUME ~page.last PROVE FALSE OBVIOUS
    <3>1. page.content # << >> BY <2>2 DEF Complains, MoreByFlag
    <3>2. CASE page.total > 0
      <4>1. MoreByCount(page) BY <2>2, <3>1, <3>2 DEF Complains, MoreByFlag
      <4> QED BY <1>5, <3>1, <3>2, <4>1 DEF Follows
    <3>3. CASE ~(page.total > 0) BY <1>5, <3>1, <3>3 DEF Follows, MoreByFlag
    <3> QED BY <3>2, <3>3
  <2> QED BY <2>1, <2>3, <2>4
<1>12. YieldsInOrder(pages - 1)
  <2> SUFFICES ASSUME NEW i \in RecordsYielded, NEW j \in RecordsYielded, i < j,
                      yielded[j].page < pages - 1
               PROVE  Place(yielded[i]) < Place(yielded[j])
    BY DEF YieldsInOrder
  <2>1. yielded[j] \in Items BY <1>2, ElementOfSeq, LenProperties DEF RecordsYielded
  <2>2. yielded[j].page \in Nat BY <2>1, NumbersAreNat DEF Items
  <2>3. yielded[j].page < pages BY <1>7, <2>2
  <2> QED BY <1>1, <1>3, <1>4, <2>3 DEF Sorted
<1>13. ASSUME ~Yields("PageInconsistent"), broker.last, broker.content PROVE YieldsAll(pages)
  BY <1>7, <1>9, <1>11, <1>13
<1>14. ASSUME ~Yields("PageInconsistent"), broker.total = "right", ~EndsSilently
       PROVE  page.asked + 1 >= pages /\ ~InStream("PageInconsistent")
  <2>1. ~InStream("PageInconsistent") BY <1>3, <1>14 DEF InStream, Yields
  <2>2. ~Complains(page) BY <1>5, <2>1
  <2>3. page.total = pages BY <1>5, <1>14 DEF Totals
  <2>4. ~MoreByCount(page)
    <3>1. CASE page.content = << >>
      <4>1. page.last BY <2>2, <3>1 DEF Complains, MoreByFlag
      <4> QED BY <1>14, <3>1, <4>1 DEF EndsSilently
    <3>2. CASE page.content # << >>
      <4>1. CASE page.total > 0 BY <1>5, <3>2, <4>1 DEF Follows
      <4>2. CASE ~(page.total > 0) BY <1>6, <4>2 DEF MoreByCount
      <4> QED BY <4>1, <4>2
    <3> QED BY <3>1, <3>2
  <2>5. ~(page.asked + 1 < pages) BY <2>3, <2>4 DEF MoreByCount
  <2> QED BY <1>6, <1>7, <2>1, <2>5
<1>15. ASSUME ~Yields("PageInconsistent"), broker.last \/ (broker.total = "right" /\ ~EndsSilently)
       PROVE  YieldsAll(pages - 1)
  <2>1. page.asked + 1 >= pages /\ ~InStream("PageInconsistent") BY <1>11, <1>14, <1>15
  <2>2. pages - 1 \in Int /\ pages - 1 <= pages /\ page.asked + 1 >= pages - 1 BY <1>6, <1>7, <2>1
  <2> QED BY <1>9, <1>15, <2>1, <2>2
<1> QED BY <1>10, <1>12, <1>13, <1>15

LEMMA NothingComesTwice == CrawlInv => NothingTwice
<1> SUFFICES ASSUME CrawlInv, broker.content
             PROVE  /\ \A i \in RecordsYielded : \E r \in Listing(pages) : yielded[i] = ItemOf(r)
                    /\ YieldsInOrder(pages)
                    /\ \A i \in RecordsYielded : \A r \in Listing(pages) :
                          Place(r) < Place(yielded[i]) => \E k \in 1..i : yielded[k] = ItemOf(r)
  BY DEF NothingTwice
<1>1. CrawlTypeOK /\ Asked /\ Sorted /\ Whole BY DEF CrawlInv
<1>2. /\ DOMAIN yielded = 1..Len(yielded) /\ Len(yielded) \in Nat
      /\ \A i \in DOMAIN yielded : i \in DOMAIN Stream /\ i \in Nat /\ yielded[i] = Stream[i]
      /\ RecordsYielded \subseteq RecordsInStream
  BY <1>1, YieldedIsStream
<1>3. \A i \in RecordsYielded : i \in DOMAIN yielded /\ i \in RecordsInStream /\ yielded[i] = Stream[i]
  BY <1>2 DEF RecordsYielded
<1>4. \A i \in RecordsYielded : \E r \in Listing(pages) : yielded[i] = ItemOf(r)
  BY <1>1, <1>3 DEF Asked
<1>5. YieldsInOrder(pages) BY <1>1, <1>3 DEF Sorted, YieldsInOrder
<1>6. ASSUME NEW i \in RecordsYielded, NEW r \in Listing(pages), Place(r) < Place(yielded[i])
      PROVE  \E k \in 1..i : yielded[k] = ItemOf(r)
  <2>1. PICK q \in Listing(pages) : yielded[i] = ItemOf(q) BY <1>4
  <2>2. pages \in Nat BY <1>1, NumbersAreNat DEF CrawlTypeOK
  <2>3. /\ r.page \in Nat /\ r.index \in {0, 1} /\ q.page \in Nat /\ q.index \in {0, 1}
        /\ r.page < pages /\ q.page < pages
    BY <2>2 DEF Listing
  <2>4. ItemOf(q).page = q.page /\ ItemOf(q).index = q.index /\ ItemOf(r).page = r.page
        /\ ItemOf(r).index = r.index /\ ItemOf(r).kind \in {"Ok", "Record"}
    BY DEF ItemOf, Ok, RecordError
  <2>5. Place(ItemOf(q)) = Place(q) /\ Place(ItemOf(r)) = Place(r) BY <2>4 DEF Place
  <2>6. r.page <= q.page /\ Place(r) \in Nat /\ Place(q) \in Nat BY <1>6, <2>1, <2>3, <2>5 DEF Place
  <2>7. q.page <= page.asked BY <1>1, <1>3, <2>1, <2>4 DEF Asked
  <2>8. page.asked \in Int BY <1>1, AskedIsANumber
  <2>9. r.page <= page.asked BY <2>3, <2>6, <2>7, <2>8
  <2>10. PICK k \in DOMAIN Stream : Stream[k] = ItemOf(r) BY <1>1, <2>9 DEF Whole
  <2>11. k \in RecordsInStream /\ k \in Nat /\ k >= 1
    <3>1. DOMAIN Stream = 1..Len(Stream) /\ Len(Stream) \in Nat BY <1>1, StreamIsTyped
    <3> QED BY <2>4, <2>10, <3>1 DEF RecordsInStream
  <2>12. ~(i < k)
    <3> SUFFICES ASSUME i < k PROVE FALSE OBVIOUS
    <3>1. Stream[k].page < pages BY <2>3, <2>4, <2>10
    <3>2. Place(Stream[i]) < Place(Stream[k]) BY <1>1, <1>3, <2>11, <3>1 DEF Sorted
    <3>3. Place(q) < Place(r) BY <1>3, <2>1, <2>5, <2>10, <3>2
    <3>4. Place(r) < Place(q) BY <1>6, <2>1, <2>5
    <3> QED BY <2>6, <3>3, <3>4
  <2>13. i \in Nat /\ i <= Len(yielded) BY <1>2, <1>3
  <2>14. k \in 1..i BY <2>11, <2>12, <2>13
  <2>15. k \in DOMAIN yielded BY <1>2, <2>13, <2>14
  <2> QED BY <1>2, <2>10, <2>14, <2>15
<1> QED BY <1>4, <1>5, <1>6

LEMMA NoAlarmIsFalse == CrawlInv => NoFalseAlarm
<1> SUFFICES ASSUME CrawlInv, Sound PROVE ~Yields("PageInconsistent") BY DEF NoFalseAlarm
<1>1. ~InStream("PageInconsistent") BY DEF CrawlInv, Unalarmed
<1>2. CrawlTypeOK BY DEF CrawlInv
<1> QED BY <1>1, <1>2, YieldedIsStream DEF Yields, InStream

(* For any number of pages: as far as the broker's last, its totalPages or   *)
(* its contents are right, a crawl has yielded every record or its error     *)
(* once and in order, or said what is wrong, or ended silently (on a page    *)
(* that is empty, says last, and promises more); and of a broker that is     *)
(* right in all nothing is said: crawl_evse_data over decode_page.           *)
THEOREM CrawlsAreFaithful == CrawlSpec => []CrawlIsFaithful
<1>1. CrawlInv => CrawlIsFaithful BY NothingIsMissed, NothingComesTwice, NoAlarmIsFalse DEF CrawlIsFaithful
<1> QED BY <1>1, CrawlsAreWalked, PTL

-----------------------------------------------------------------------------
(* The statuses. *)
LEMMA CallsOfTheBoard ==
    /\ Calls \subseteq Nat /\ Pushes \subseteq Calls /\ Pulls \subseteq Calls
    /\ Pushes \cap Pulls = {}
    /\ Attempts \subseteq Nat /\ 0 \in Attempts
    /\ Saying \subseteq Int /\ Nat \subseteq Saying /\ NotListed \in Saying /\ NotFound \in Saying
    /\ NotListed = -1 /\ NotFound = -2 /\ Unknown = 0
<1>1. Calls \subseteq Nat BY BoardAssumption
<1>2. Pushes \subseteq Calls /\ Pulls \subseteq Calls /\ Pushes \cap Pulls = {} BY DEF Pushes, Pulls
<1>3. Attempts \subseteq Nat /\ 0 \in Attempts BY RetriesAssumption DEF Attempts
<1> QED BY <1>1, <1>2, <1>3 DEF Saying, NotListed, NotFound, Unknown

LEMMA AnswersHaveTypes ==
    /\ Nothing \in Answer /\ Transport \in Answer /\ Undecodable \in Answer
    /\ Message("Success", 0) \in Answer /\ Message("Success", 0) # Nothing
    /\ Message("Success", 0).kind = "message" /\ Undecodable.kind # "message"
    /\ Nothing.kind # "message" /\ ~IsOk(Transport)
BY DEF Answer, AnswerKinds, AnswerCodes, Nothing, Transport, Undecodable, Message, IsOk

ClientStep(c) == Send(c) \/ Receive(c) \/ TransportError(c)

(* What a step of the client may do to its call, and that it does nothing to *)
(* any other.                                                                *)
LEMMA ClientMoves ==
    ASSUME ClientTypeOK, NEW c \in Calls, ClientStep(c)
    PROVE  /\ ClientTypeOK' /\ UNCHANGED answers
           /\ client[c].phase \notin {"ok", "failed"}
           /\ \A d \in Calls : d # c => client'[d] = client[d]
           /\ \A n \in Attempts : Sent(c, n) => Sent(c, n)'
           /\ client'[c].phase # "new"
           /\ client'[c].phase = "ok" => /\ client[c].phase = "waiting"
                                         /\ client[c].attempt \in Attempts
                                         /\ answers[c][client[c].attempt].kind = "message"
           /\ client'[c].phase = "waiting" => /\ client[c].phase \in {"new", "sleeping"}
                                              /\ client'[c].attempt = client[c].attempt
           /\ Send(c) => client'[c].phase = "waiting"
           /\ Receive(c) \/ TransportError(c) => client'[c].phase # "waiting" /\ client[c].phase = "waiting"
<1> DEFINE Call == [phase : {"new", "waiting", "sleeping", "ok", "failed"},
                    attempt : Attempts, outcome : Answer]
<1>1. client \in [Calls -> Call] /\ answers \in [Calls -> [Attempts -> Answer]]
  BY DEF ClientTypeOK
<1>2. PICK old \in Call : old = client[c] BY <1>1
<1>3. old.attempt \in Attempts /\ old.attempt \in Nat BY CallsOfTheBoard
<1>4. UNCHANGED answers BY DEF ClientStep, Send, Receive, TransportError
<1> DEFINE Fits(new) ==
      /\ client' = [client EXCEPT ![c] = new]
      /\ \/ new.attempt = old.attempt /\ new.phase \in {"waiting", "ok", "failed"}
         \/ new.attempt = old.attempt + 1 /\ new.phase = "sleeping"
           Goal(new) ==
      /\ ClientTypeOK'
      /\ \A d \in Calls : d # c => client'[d] = client[d]
      /\ \A n \in Attempts : Sent(c, n) => Sent(c, n)'
      /\ client'[c].phase # "new"
      /\ client'[c] = new
<1>5. ASSUME NEW new \in Call, Fits(new) PROVE Goal(new)
  <2>1. client'[c] = new /\ \A d \in Calls : d # c => client'[d] = client[d] BY <1>1, <1>5
  <2>2. ASSUME NEW n \in Attempts, Sent(c, n) PROVE Sent(c, n)'
    <3>1. n \in Nat /\ n <= old.attempt BY <1>2, <1>3, <2>2, CallsOfTheBoard DEF Sent
    <3>2. client'[c].attempt = new.attempt /\ client'[c].phase = new.phase BY <2>1
    <3>3. CASE new.attempt = old.attempt /\ new.phase \in {"waiting", "ok", "failed"}
      BY <1>3, <3>1, <3>2, <3>3 DEF Sent
    <3>4. CASE new.attempt = old.attempt + 1
      BY <1>3, <3>1, <3>2, <3>4 DEF Sent
    <3> QED BY <1>5, <3>3, <3>4
  <2>3. client' \in [Calls -> Call] BY <1>1, <1>5
  <2>4. ClientTypeOK' BY <1>1, <1>4, <2>3 DEF ClientTypeOK
  <2> HIDE DEF Call
  <2> QED BY <1>5, <2>1, <2>2, <2>4
<1>6. ASSUME NEW a \in Answer, Conclude(c, a)
      PROVE  \E new \in Call : /\ Fits(new) /\ new.phase \in {"ok", "sleeping", "failed"}
                               /\ new.phase = "ok" => IsOk(a)
  <2>1. CASE IsOk(a)
    <3> DEFINE new == [old EXCEPT !.phase = "ok", !.outcome = a]
    <3>1. new \in Call /\ new.phase = "ok" /\ new.attempt = old.attempt BY <1>2
    <3>2. client' = [client EXCEPT ![c] = new] BY <1>2, <1>6, <2>1 DEF Conclude
    <3> HIDE DEF new, Call
    <3> QED BY <1>6, <2>1, <3>1, <3>2
  <2>2. CASE ~IsOk(a) /\ ShouldRetry(c, a)
    <3> DEFINE new == [old EXCEPT !.phase = "sleeping", !.attempt = old.attempt + 1]
    <3>1. old.attempt + 1 \in Attempts
      BY <1>2, <1>3, <2>2, RetriesAssumption DEF ShouldRetry, Attempts
    <3>2. new \in Call /\ new.phase = "sleeping" /\ new.attempt = old.attempt + 1 BY <3>1
    <3>3. client' = [client EXCEPT ![c] = new] BY <1>2, <1>6, <2>2 DEF Conclude
    <3> HIDE DEF new, Call
    <3> QED BY <3>2, <3>3
  <2>3. CASE ~IsOk(a) /\ ~ShouldRetry(c, a)
    <3> DEFINE new == [old EXCEPT !.phase = "failed", !.outcome = a]
    <3>1. new \in Call /\ new.phase = "failed" /\ new.attempt = old.attempt BY <1>2
    <3>2. client' = [client EXCEPT ![c] = new] BY <1>2, <1>6, <2>3 DEF Conclude
    <3> HIDE DEF new, Call
    <3> QED BY <1>6, <3>1, <3>2
  <2> QED BY <2>1, <2>2, <2>3
<1>7. CASE Send(c)
  <2> DEFINE new == [old EXCEPT !.phase = "waiting"]
  <2>1. new \in Call /\ new.phase = "waiting" /\ new.attempt = old.attempt BY <1>2
  <2>2. client' = [client EXCEPT ![c] = new] BY <1>2, <1>7 DEF Send
  <2>3. client[c].phase \in {"new", "sleeping"} BY <1>7 DEF Send
  <2> HIDE DEF new, Call
  <2>4. Fits(new) BY <2>1, <2>2
  <2>5. Goal(new) BY <1>5, <2>1, <2>4
  <2>6. ~Receive(c) /\ ~TransportError(c) BY <2>3 DEF Receive, TransportError
  <2> QED BY <1>2, <1>4, <2>1, <2>3, <2>5, <2>6
<1>8. ASSUME NEW a \in Answer, Conclude(c, a), client[c].phase = "waiting", ~Send(c),
             IsOk(a) => a = answers[c][client[c].attempt]
      PROVE  /\ ClientTypeOK'
             /\ \A d \in Calls : d # c => client'[d] = client[d]
             /\ \A n \in Attempts : Sent(c, n) => Sent(c, n)'
             /\ client'[c].phase \notin {"new", "waiting"}
             /\ client'[c].phase = "ok" => answers[c][client[c].attempt].kind = "message"
  <2>1. PICK new \in Call : /\ Fits(new) /\ new.phase \in {"ok", "sleeping", "failed"}
                            /\ new.phase = "ok" => IsOk(a)
    <3> HIDE DEF Call, Fits
    <3> QED BY <1>6, <1>8
  <2>2. Goal(new)
    <3> HIDE DEF Call, Fits, Goal
    <3> QED BY <1>5, <2>1
  <2>3. client'[c].phase = new.phase BY <2>2
  <2>4. IsOk(a) => a.kind = "message" BY DEF IsOk
  <2> HIDE DEF Fits, Call
  <2> QED BY <1>8, <2>1, <2>2, <2>3, <2>4
<1>9. CASE Receive(c)
  <2>1. client[c].phase = "waiting" /\ ~Send(c) BY <1>9 DEF Receive, Send
  <2>2. PICK a \in Answer : a = answers[c][client[c].attempt] BY <1>1, <1>2
  <2>3. Conclude(c, a) BY <1>9, <2>2 DEF Receive, Conclude, IsOk, ShouldRetry, IsRetryable
  <2> QED BY <1>2, <1>3, <1>4, <1>8, <2>1, <2>2, <2>3
<1>10. CASE TransportError(c)
  <2>1. client[c].phase = "waiting" /\ ~Send(c) BY <1>10 DEF TransportError, Send
  <2>2. Transport \in Answer /\ ~IsOk(Transport) BY AnswersHaveTypes
  <2>3. Conclude(c, Transport) BY <1>10 DEF TransportError
  <2> QED BY <1>2, <1>3, <1>4, <1>8, <2>1, <2>2, <2>3
<1> QED BY <1>7, <1>9, <1>10 DEF ClientStep

(* An answer keeps its place: what an attempt was answered first stays.      *)
LEMMA AnswerStays ==
    ASSUME ClientTypeOK, UNCHANGED client, NEW c \in Calls, NEW n \in Attempts, NEW a \in Answer,
           Answered(c, n, a)
    PROVE  /\ ClientTypeOK'
           /\ \A d \in Calls, k \in Attempts : answers'[d][k] # answers[d][k] =>
                 d = c /\ k = n /\ answers'[d][k] = a /\ answers[d][k] = Nothing
<1>1. answers \in [Calls -> [Attempts -> Answer]] BY DEF ClientTypeOK
<1>2. CASE answers[c][n] = Nothing
  <2>1. answers' = [answers EXCEPT ![c][n] = a] BY <1>2 DEF Answered
  <2>2. answers' \in [Calls -> [Attempts -> Answer]] BY <1>1, <2>1
  <2>3. \A d \in Calls, k \in Attempts : answers'[d][k] # answers[d][k] =>
           d = c /\ k = n /\ answers'[d][k] = a
    BY <1>1, <2>1
  <2> QED BY <1>2, <2>2, <2>3 DEF ClientTypeOK
<1>3. CASE answers[c][n] # Nothing
  <2>1. answers' = answers BY <1>3 DEF Answered
  <2> QED BY <1>1, <2>1 DEF ClientTypeOK
<1> QED BY <1>2, <1>3

-----------------------------------------------------------------------------
(* What leaves the parts of the invariant as they are. *)
LEMMA TurnStays ==
    ASSUME TypeOK, PushesInTurn, carried' = carried,
           \A e \in Evse : Now(e)' \in Nat /\ Now(e)' >= Now(e),
           \A c \in Pushes : (Started(c)' <=> Started(c)) /\ (Done(c) => Done(c)')
    PROVE  PushesInTurn'
<1>1. \A e \in Evse : Now(e) \in Nat
  <2>1. \A e \in Evse : real[e] \in Seq(Statuses) BY DEF TypeOK
  <2> QED BY <2>1, LenProperties DEF Now
<1>2. ASSUME NEW c \in Pushes, NEW d \in Pushes, c < d, Pusher[c] = Pusher[d]
      PROVE  /\ Started(d)' => Done(c)'
             /\ \A e \in Evse : carried'[d][e] # NotListed => carried'[c][e] <= carried'[d][e]
  BY <1>2 DEF PushesInTurn
<1>3. ASSUME NEW c \in Pushes, NEW e \in Evse, carried'[c][e] # NotListed
      PROVE  Started(c)' /\ Owner[e] = Pusher[c] /\ carried'[c][e] \in 1..Now(e)'
  <2>1. Started(c) /\ Owner[e] = Pusher[c] /\ carried[c][e] \in 1..Now(e) BY <1>3 DEF PushesInTurn
  <2> QED BY <1>1, <2>1
<1> QED BY <1>2, <1>3 DEF PushesInTurn

LEMMA SpanStays ==
    ASSUME PullsAreSpanned, UNCHANGED <<live, span, told>>, Acknowledged \subseteq Acknowledged',
           \A c \in Pulls : (Waiting(c)' => Waiting(c)) /\ (Started(c) => Started(c)')
    PROVE  PullsAreSpanned'
<1>1. \A c \in Pulls : Listed(c)' = Listed(c) BY DEF Listed
<1>2. ASSUME NEW c \in Pulls
      PROVE  /\ span'[c].before \subseteq Acknowledged'
             /\ Waiting(c)' => span'[c].always \subseteq live' /\ live' \subseteq span'[c].ever
             /\ ~Started(c)' => Listed(c)' = {}
  <2>1. /\ span[c].before \subseteq Acknowledged
        /\ Waiting(c) => span[c].always \subseteq live /\ live \subseteq span[c].ever
        /\ ~Started(c) => Listed(c) = {}
    BY DEF PullsAreSpanned
  <2>2. span'[c].before \subseteq Acknowledged' BY <2>1
  <2> QED BY <1>1, <2>1, <2>2
<1> QED BY <1>2 DEF PullsAreSpanned

LEMMA UnreadStays ==
    ASSUME NothingIsUnread, UNCHANGED <<real, span, told, question>>,
           \A c \in Pulls : Read(c)' => Read(c)
    PROVE  NothingIsUnread'
<1>1. \A c \in Pulls : OmitsNothing(c)' <=> OmitsNothing(c) BY DEF OmitsNothing, Listed, AsksForAll, Now
<1> QED BY <1>1 DEF NothingIsUnread

LEMMA FilterStays ==
    ASSUME FilterIsRead, UNCHANGED <<real, span, told, question>>,
           \A c \in Pulls : Read(c)' => Read(c),
           \A c \in Pulls : \A push \in span[c].before : carried'[push] = carried[push]
    PROVE  FilterIsRead'
<1> SUFFICES ASSUME NEW c \in Pulls, Read(c), question[c].field = "EvseStatus",
                    NEW e \in span[c].always, NEW push \in span[c].before,
                    carried'[push][e] # NotListed,
                    \A i \in carried'[push][e]..Now(e)' : real[e][i] \in question[c].asked
             PROVE  e \in Listed(c)'
  BY DEF FilterIsRead, PassesFilter
<1>1. Now(e)' = Now(e) /\ Listed(c)' = Listed(c) BY DEF Now, Listed
<1>2. carried'[push] = carried[push] OBVIOUS
<1> QED BY <1>1, <1>2 DEF FilterIsRead, PassesFilter

LEMMA AskedByClient ==
    ASSUME ClientTypeOK, AnswersAreAsked, NEW c \in Calls, ClientStep(c)
    PROVE  AnswersAreAsked'
<1>1. /\ UNCHANGED answers
      /\ \A d \in Calls : d # c => client'[d] = client[d]
      /\ \A n \in Attempts : Sent(c, n) => Sent(c, n)'
      /\ client'[c].phase # "new"
      /\ client'[c].phase = "ok" => /\ client[c].attempt \in Attempts
                                    /\ answers[c][client[c].attempt].kind = "message"
  BY ClientMoves
<1>2. ASSUME NEW d \in Calls
      PROVE  /\ \A n \in Attempts : answers'[d][n] # Nothing => Sent(d, n)'
             /\ client'[d].phase = "ok" => \E n \in Attempts : answers'[d][n].kind = "message"
             /\ ~Started(d)' => client'[d].attempt = 0
  <2>1. CASE d = c BY <1>1, <2>1 DEF AnswersAreAsked, Started
  <2>2. CASE d # c
    <3>1. client'[d] = client[d] BY <1>1, <2>2
    <3>2. \A n \in Attempts : Sent(d, n)' <=> Sent(d, n) BY <3>1 DEF Sent
    <3> QED BY <1>1, <3>1, <3>2 DEF AnswersAreAsked, Started
  <2> QED BY <2>1, <2>2
<1> QED BY <1>2 DEF AnswersAreAsked

LEMMA AskedByBroker ==
    ASSUME ClientTypeOK, AnswersAreAsked, NEW c \in Calls, NEW n \in Attempts, NEW a \in Answer,
           Take(c, n), Answered(c, n, a)
    PROVE  AnswersAreAsked'
<1>1. UNCHANGED client /\ Sent(c, n) BY DEF Take
<1>2. \A d \in Calls, k \in Attempts : answers'[d][k] # answers[d][k] =>
         d = c /\ k = n /\ answers[d][k] = Nothing
  BY <1>1, AnswerStays
<1>3. \A d \in Calls, k \in Attempts : Sent(d, k)' <=> Sent(d, k) BY <1>1 DEF Sent
<1>4. Nothing.kind # "message" BY DEF Nothing
<1>5. ASSUME NEW d \in Calls
      PROVE  /\ \A k \in Attempts : answers'[d][k] # Nothing => Sent(d, k)'
             /\ client'[d].phase = "ok" => \E k \in Attempts : answers'[d][k].kind = "message"
             /\ ~Started(d)' => client'[d].attempt = 0
  <2>1. \A k \in Attempts : answers'[d][k] # Nothing => Sent(d, k)'
    <3> TAKE k \in Attempts
    <3>1. CASE answers'[d][k] = answers[d][k] BY <1>3, <3>1 DEF AnswersAreAsked
    <3>2. CASE answers'[d][k] # answers[d][k]
      <4>1. d = c /\ k = n BY <1>2, <3>2
      <4> QED BY <1>1, <1>3, <4>1
    <3> QED BY <3>1, <3>2
  <2>2. ASSUME client'[d].phase = "ok" PROVE \E k \in Attempts : answers'[d][k].kind = "message"
    <3>1. PICK k \in Attempts : answers[d][k].kind = "message" BY <1>1, <2>2 DEF AnswersAreAsked
    <3>2. answers'[d][k] = answers[d][k] BY <1>2, <1>4, <3>1
    <3> QED BY <3>1, <3>2
  <2>3. ~Started(d)' => client'[d].attempt = 0 BY <1>1 DEF AnswersAreAsked, Started
  <2> QED BY <2>1, <2>2, <2>3
<1> QED BY <1>5 DEF AnswersAreAsked

-----------------------------------------------------------------------------
LEMMA ChangeKeeps ==
    ASSUME BoardInv, NEW e \in Evse, NEW s \in Statuses, Change(e, s)
    PROVE  BoardInv' /\ (FreshInv => FreshInv')
<1>1. TypeOK /\ real \in [Evse -> Seq(Statuses) \ {<< >>}] BY DEF BoardInv, TypeOK
<1>2. /\ UNCHANGED <<client, answers, live, statuses, moves, carried, question, told, span, served>>
      /\ real' = [real EXCEPT ![e] = Append(@, s)]
  BY DEF Change, clientVars, pullVars
<1>3. Append(real[e], s) \in Seq(Statuses) \ {<< >>} /\ Len(Append(real[e], s)) = Len(real[e]) + 1
      /\ Len(real[e]) \in Nat
  <2>1. real[e] \in Seq(Statuses) BY <1>1
  <2> QED BY <2>1, AppendProperties, LenProperties
<1>4. real' \in [Evse -> Seq(Statuses) \ {<< >>}] BY <1>1, <1>2, <1>3
<1>5. TypeOK' BY <1>1, <1>2, <1>4 DEF TypeOK, ClientTypeOK
<1>6. ASSUME NEW p \in Evse PROVE Now(p)' \in Nat /\ Now(p)' >= Now(p)
  <2>1. Len(real[p]) \in Nat
    <3>1. real[p] \in Seq(Statuses) BY <1>1
    <3> QED BY <3>1, LenProperties
  <2>2. real'[p] = IF p = e THEN Append(real[e], s) ELSE real[p] BY <1>1, <1>2
  <2> QED BY <1>3, <2>1, <2>2 DEF Now
<1>7. \A c : (Started(c)' <=> Started(c)) /\ (Done(c)' <=> Done(c)) /\ (Waiting(c)' <=> Waiting(c))
  BY <1>2 DEF Started, Done, Waiting
<1>8. PushesInTurn' BY <1>1, <1>2, <1>6, <1>7, TurnStays DEF BoardInv
<1>9. Acknowledged' = Acknowledged BY <1>2 DEF Acknowledged
<1>10. PullsAreSpanned' BY <1>2, <1>7, <1>9, SpanStays DEF BoardInv
<1>11. \A p \in Evse : \A k \in 1..Now(p) : real'[p][k] = real[p][k]
  <2> TAKE p \in Evse
  <2>1. real[e] \in Seq(Statuses) BY <1>1
  <2>2. \A k \in 1..Len(real[e]) : Append(real[e], s)[k] = real[e][k] BY <2>1, AppendProperties
  <2>3. real'[p] = IF p = e THEN Append(real[e], s) ELSE real[p] BY <1>1, <1>2
  <2> QED BY <2>2, <2>3 DEF Now
<1>12. \A p \in Evse : Now(p) \in Nat
  <2>1. \A p \in Evse : real[p] \in Seq(Statuses) BY <1>1
  <2> QED BY <2>1, LenProperties DEF Now
<1>13. \A c : (Read(c)' <=> Read(c)) /\ Listed(c)' = Listed(c) BY <1>2 DEF Read, Listed
<1>14. NothingIsUnread'
  <2> SUFFICES ASSUME NEW c \in Pulls, OmitsNothing(c) PROVE OmitsNothing(c)'
    BY <1>13 DEF BoardInv, NothingIsUnread
  <2>1. ASSUME question[c].field = "EvseStatus", NEW p \in Listed(c)
        PROVE  told[c][p] \in 1..Now(p)' /\ real'[p][told[c][p]] \in question[c].asked
    <3>1. p \in Evse BY DEF Listed
    <3>2. told[c][p] \in 1..Now(p) /\ real[p][told[c][p]] \in question[c].asked
      BY <2>1 DEF OmitsNothing
    <3>3. Now(p) \in Nat /\ Now(p)' \in Nat /\ Now(p)' >= Now(p) BY <1>6, <1>12, <3>1
    <3>4. real'[p][told[c][p]] = real[p][told[c][p]] BY <1>11, <3>1, <3>2
    <3> QED BY <3>2, <3>3, <3>4
  <2> QED BY <1>2, <1>13, <2>1 DEF OmitsNothing, AsksForAll
<1>15. AnswersAreAsked' BY <1>2 DEF BoardInv, AnswersAreAsked, Sent, Started
<1>16. ToldIsReal'
  <2> SUFFICES ASSUME NEW p \in Evse PROVE statuses[p] \in 0..Now(p)' BY <1>2 DEF ToldIsReal
  <2>1. statuses[p] \in 0..Now(p) BY DEF BoardInv, ToldIsReal
  <2>2. Now(p) \in Nat /\ Now(p)' \in Nat /\ Now(p)' >= Now(p) BY <1>6, <1>12
  <2> QED BY <2>1, <2>2
<1>17. ASSUME FilterIsRead PROVE FilterIsRead'
  <2> SUFFICES ASSUME NEW c \in Pulls, Read(c), question[c].field = "EvseStatus",
                      NEW p \in span[c].always, NEW push \in span[c].before,
                      carried[push][p] # NotListed,
                      \A k \in carried[push][p]..Now(p)' : real'[p][k] \in question[c].asked
               PROVE  p \in Listed(c)
    BY <1>2, <1>13 DEF FilterIsRead, PassesFilter
  <2>1. p \in Evse /\ push \in Pushes
    <3>1. c \in Calls BY CallsOfTheBoard
    <3>2. span[c] \in Span BY <1>1, <3>1 DEF TypeOK
    <3> QED BY <3>2 DEF Span
  <2>2. carried[push][p] \in 1..Now(p) BY <2>1 DEF BoardInv, PushesInTurn
  <2>3. \A k \in carried[push][p]..Now(p) : real[p][k] \in question[c].asked
    <3> TAKE k \in carried[push][p]..Now(p)
    <3>1. Now(p) \in Nat /\ Now(p)' \in Nat /\ Now(p)' >= Now(p) BY <1>6, <1>12, <2>1
    <3>2. k \in carried[push][p]..Now(p)' /\ k \in 1..Now(p) BY <2>2, <3>1
    <3> QED BY <1>11, <2>1, <3>2
  <2> QED BY <1>17, <2>3 DEF FilterIsRead, PassesFilter
<1>18. FreshInv => FreshInv' BY <1>2, <1>17 DEF FreshInv, AnsweredIsTold, ReadIsFresh, Listed
<1> QED BY <1>5, <1>8, <1>10, <1>14, <1>15, <1>16, <1>18 DEF BoardInv

LEMMA MoveKeeps ==
    ASSUME BoardInv, NEW points \in SUBSET Evse, MoveTo(points)
    PROVE  BoardInv' /\ (FreshInv => FreshInv')
<1>1. TypeOK BY DEF BoardInv
<1>2. /\ UNCHANGED <<client, answers, real, statuses, carried, question, told, served>>
      /\ live' = points /\ moves' = moves + 1 /\ moves < MaxMoves
      /\ span' = [c \in Calls |-> IF Waiting(c)
                                  THEN [span[c] EXCEPT !.always = @ \cap points, !.ever = @ \cup points]
                                  ELSE span[c]]
  BY DEF MoveTo, clientVars
<1>3. ASSUME NEW c \in Calls
      PROVE  /\ span'[c] \in Span /\ span'[c].before = span[c].before
             /\ span'[c].always \subseteq span[c].always /\ span[c].ever \subseteq span'[c].ever
             /\ Waiting(c) => span'[c].always \subseteq points /\ points \subseteq span'[c].ever
  <2>1. span[c] \in Span BY <1>1 DEF TypeOK
  <2>2. PICK s \in Span : s = span[c] BY <2>1
  <2>3. s.always \subseteq Evse /\ s.ever \subseteq Evse /\ s.before \subseteq Pushes
    BY DEF Span
  <2>4. CASE Waiting(c)
    <3> DEFINE t == [s EXCEPT !.always = s.always \cap points, !.ever = s.ever \cup points]
    <3>1. span'[c] = t BY <1>2, <2>2, <2>4
    <3>2. /\ t.always = s.always \cap points /\ t.ever = s.ever \cup points /\ t.before = s.before
      BY DEF Span
    <3>3. t \in Span
      <4>1. s.always \cap points \in SUBSET Evse /\ s.ever \cup points \in SUBSET Evse BY <2>3
      <4> QED BY <4>1 DEF Span
    <3> HIDE DEF t
    <3> QED BY <2>2, <3>1, <3>2, <3>3
  <2>5. CASE ~Waiting(c)
    <3>1. span'[c] = span[c] BY <1>2, <2>5
    <3> QED BY <2>1, <2>5, <3>1
  <2> QED BY <2>4, <2>5
<1>4. span' \in [Calls -> Span] BY <1>2, <1>3
<1>5. moves' \in 0..MaxMoves
  <2>1. moves \in 0..MaxMoves BY <1>1 DEF TypeOK
  <2>2. MaxMoves \in Nat BY BoardAssumption
  <2>3. moves' = moves + 1 /\ moves < MaxMoves BY DEF MoveTo
  <2> QED BY <2>1, <2>2, <2>3
<1>6. TypeOK' BY <1>1, <1>2, <1>4, <1>5 DEF TypeOK, ClientTypeOK
<1>7. \A c : (Started(c)' <=> Started(c)) /\ (Done(c)' <=> Done(c)) /\ (Waiting(c)' <=> Waiting(c))
  BY <1>2 DEF Started, Done, Waiting
<1>8. PushesInTurn'
  <2>1. \A e \in Evse : Now(e)' = Now(e) BY <1>2 DEF Now
  <2> QED BY <1>2, <1>7, <2>1 DEF BoardInv, PushesInTurn
<1>9. Acknowledged' = Acknowledged BY <1>2 DEF Acknowledged
<1>10. \A c \in Pulls : Listed(c)' = Listed(c) BY <1>2 DEF Listed
<1>11. PullsAreSpanned'
  BY <1>2, <1>3, <1>7, <1>9, <1>10, CallsOfTheBoard DEF BoardInv, PullsAreSpanned
<1>12. NothingIsUnread'
  <2>1. ASSUME NEW c \in Pulls, OmitsNothing(c) PROVE OmitsNothing(c)'
    <3>1. span'[c].always \subseteq span[c].always /\ span[c].ever \subseteq span'[c].ever
      BY <1>3, CallsOfTheBoard
    <3> QED BY <1>2, <1>10, <2>1, <3>1 DEF OmitsNothing, AsksForAll, Now
  <2> QED BY <1>2, <2>1 DEF BoardInv, NothingIsUnread, Read
<1>13. AnswersAreAsked' BY <1>2 DEF BoardInv, AnswersAreAsked, Sent, Started
<1>14. FreshInv => FreshInv'
  <2>1. AnsweredIsTold => AnsweredIsTold' BY <1>2 DEF AnsweredIsTold
  <2>2. ReadIsFresh => ReadIsFresh' BY <1>2, <1>3, <1>10, CallsOfTheBoard DEF ReadIsFresh
  <2>3. ASSUME FilterIsRead PROVE FilterIsRead'
    <3>1. ASSUME NEW c \in Pulls, PassesFilter(c) PROVE PassesFilter(c)'
      <4>1. span'[c].always \subseteq span[c].always /\ span'[c].before = span[c].before
        BY <1>3, CallsOfTheBoard
      <4> QED BY <1>2, <1>10, <3>1, <4>1 DEF PassesFilter, Now
    <3> QED BY <1>2, <2>3, <3>1 DEF FilterIsRead, Read
  <2> QED BY <2>1, <2>2, <2>3 DEF FreshInv
<1>15. ToldIsReal' BY <1>2 DEF BoardInv, ToldIsReal, Now
<1> QED BY <1>6, <1>8, <1>11, <1>12, <1>13, <1>14, <1>15 DEF BoardInv

LEMMA SendPushKeeps ==
    ASSUME BoardInv, NEW c \in Pushes, NEW keys \in Batches, SendPush(c, keys)
    PROVE  BoardInv' /\ (FreshInv => FreshInv')
<1>1. TypeOK /\ ClientTypeOK /\ c \in Calls /\ c \notin Pulls
  BY CallsOfTheBoard DEF BoardInv, TypeOK
<1>2. /\ UNCHANGED <<answers, real, live, statuses, moves, question, told, span, served>>
      /\ client[c].phase = "new" /\ Send(c)
      /\ \A d \in Pushes : d < c /\ Pusher[d] = Pusher[c] => Done(d)
      /\ \A e \in keys : Owner[e] = Pusher[c]
      /\ carried' = [carried EXCEPT ![c] = [e \in Evse |-> IF e \in keys THEN Now(e) ELSE NotListed]]
  BY DEF SendPush, boardVars, pullVars, Send, Done
<1>3. /\ ClientTypeOK' /\ client'[c].phase = "waiting"
      /\ \A d \in Calls : d # c => client'[d] = client[d]
  BY <1>1, <1>2, ClientMoves DEF ClientStep
<1>4. carried \in [Calls -> [Evse -> Saying]] /\ real \in [Evse -> Seq(Statuses) \ {<< >>}]
  BY <1>1 DEF TypeOK
<1>5. \A e \in Evse : Now(e) \in Nat \ {0} /\ Now(e)' = Now(e) /\ Now(e) \in Saying
  <2> TAKE e \in Evse
  <2>1. real[e] \in Seq(Statuses) /\ real[e] # << >> BY <1>4
  <2>2. Now(e) \in Nat \ {0} BY <2>1, EmptySeq DEF Now
  <2> QED BY <1>2, <2>2, CallsOfTheBoard DEF Now
<1> DEFINE says == [e \in Evse |-> IF e \in keys THEN Now(e) ELSE NotListed]
<1>6. says \in [Evse -> Saying] BY <1>5, CallsOfTheBoard
<1>7. /\ carried' \in [Calls -> [Evse -> Saying]] /\ carried'[c] = says
      /\ \A d \in Calls : d # c => carried'[d] = carried[d]
  BY <1>1, <1>2, <1>4, <1>6
<1>8. TypeOK' BY <1>1, <1>2, <1>3, <1>7 DEF TypeOK
<1>9. AnswersAreAsked' BY <1>1, <1>2, AskedByClient DEF BoardInv, ClientStep
<1>10. \A d \in Calls : d # c => (Started(d)' <=> Started(d)) /\ (Done(d)' <=> Done(d))
  BY <1>3 DEF Started, Done
<1>11. ~Started(c) /\ ~Done(c) /\ Started(c)' /\ ~Done(c)' BY <1>2, <1>3 DEF Started, Done
<1>12. \A e \in Evse : carried[c][e] = NotListed BY <1>11 DEF BoardInv, PushesInTurn
<1>13. \A d \in Pushes, e \in Evse :
          carried[d][e] # NotListed =>
             Started(d) /\ Owner[e] = Pusher[d] /\ carried[d][e] \in 1..Now(e)
  BY DEF BoardInv, PushesInTurn
<1>14. ASSUME NEW d \in Pushes, NEW e \in Evse, carried'[d][e] # NotListed
       PROVE  Started(d)' /\ Owner[e] = Pusher[d] /\ carried'[d][e] \in 1..Now(e)'
  <2>1. CASE d = c
    <3>1. e \in keys /\ carried'[c][e] = Now(e) BY <1>7, <1>14, <2>1
    <3> QED BY <1>2, <1>5, <1>11, <2>1, <3>1
  <2>2. CASE d # c
    <3>1. d \in Calls BY CallsOfTheBoard
    <3> QED BY <1>5, <1>7, <1>10, <1>13, <1>14, <2>2, <3>1
  <2> QED BY <2>1, <2>2
<1>15. ASSUME NEW b \in Pushes, NEW d \in Pushes, b < d, Pusher[b] = Pusher[d]
       PROVE  /\ Started(d)' => Done(b)'
              /\ \A e \in Evse : carried'[d][e] # NotListed => carried'[b][e] <= carried'[d][e]
  <2>1. b \in Calls /\ d \in Calls /\ b \in Nat /\ d \in Nat /\ b # d BY <1>15, CallsOfTheBoard
  <2>2. /\ Started(d) => Done(b)
        /\ \A e \in Evse : carried[d][e] # NotListed => carried[b][e] <= carried[d][e]
    BY <1>15 DEF BoardInv, PushesInTurn
  <2>3. CASE d = c
    <3>1. Done(b)' BY <1>2, <1>10, <1>15, <2>1, <2>3
    <3>2. ASSUME NEW e \in Evse, carried'[d][e] # NotListed PROVE carried'[b][e] <= carried'[d][e]
      <4>1. carried'[d][e] = Now(e) BY <1>7, <2>3, <3>2
      <4>2. carried'[b][e] = carried[b][e] BY <1>7, <2>1, <2>3
      <4>3. CASE carried[b][e] = NotListed BY <1>5, <4>1, <4>2, <4>3, CallsOfTheBoard
      <4>4. CASE carried[b][e] # NotListed
        <5>1. carried[b][e] \in 1..Now(e) BY <1>13, <4>4
        <5> QED BY <1>5, <4>1, <4>2, <5>1
      <4> QED BY <4>3, <4>4
    <3> QED BY <3>1, <3>2
  <2>4. CASE b = c
    <3>1. ~Started(d) BY <1>11, <2>2, <2>4
    <3>2. ~Started(d)' BY <1>10, <2>1, <2>4, <3>1
    <3>3. \A e \in Evse : carried'[d][e] = NotListed BY <1>7, <1>13, <2>1, <2>4, <3>1
    <3> QED BY <3>2, <3>3
  <2>5. CASE d # c /\ b # c
    BY <1>7, <1>10, <2>1, <2>2, <2>5
  <2> QED BY <2>3, <2>4, <2>5
<1>16. PushesInTurn' BY <1>14, <1>15 DEF PushesInTurn
<1>17. Acknowledged' = Acknowledged
  BY <1>2, <1>3, CallsOfTheBoard DEF Acknowledged
<1>18. \A d \in Pulls : client'[d] = client[d] BY <1>1, <1>3, CallsOfTheBoard
<1>19. PullsAreSpanned'
  BY <1>2, <1>17, <1>18, SpanStays DEF BoardInv, Waiting, Started
<1>20. NothingIsUnread' /\ ToldIsReal'
  BY <1>2, <1>18, UnreadStays DEF BoardInv, Read, ToldIsReal, Now
<1>21. ASSUME AnsweredIsTold PROVE AnsweredIsTold'
  <2> SUFFICES ASSUME NEW d \in Pushes, NEW n \in Attempts, answers'[d][n].kind = "message",
                      NEW e \in Evse
               PROVE  statuses'[e] >= carried'[d][e]
    BY DEF AnsweredIsTold
  <2>1. d \in Calls BY CallsOfTheBoard
  <2>2. d # c
    <3> SUFFICES ASSUME d = c PROVE FALSE OBVIOUS
    <3>1. answers[c][n] # Nothing BY <1>2 DEF Nothing
    <3>2. Sent(c, n) BY <1>1, <3>1 DEF BoardInv, AnswersAreAsked
    <3>3. client[c].attempt = 0 BY <1>1, <1>11 DEF BoardInv, AnswersAreAsked
    <3>4. n \in Nat BY CallsOfTheBoard
    <3> QED BY <1>2, <3>2, <3>3, <3>4 DEF Sent
  <2> QED BY <1>2, <1>7, <1>21, <2>1, <2>2 DEF AnsweredIsTold
<1>22. ASSUME ReadIsFresh PROVE ReadIsFresh'
  <2> SUFFICES ASSUME NEW d \in Pulls, NEW e \in Listed(d), NEW push \in span[d].before,
                      carried'[push][e] # NotListed
               PROVE  told[d][e] >= carried'[push][e]
    BY <1>2 DEF ReadIsFresh, Listed
  <2>1. push \in Acknowledged BY DEF BoardInv, PullsAreSpanned
  <2>2. push \in Calls /\ push # c BY <1>2, <2>1, CallsOfTheBoard DEF Acknowledged
  <2>3. carried'[push] = carried[push] BY <1>7, <2>2
  <2> QED BY <1>22, <2>3 DEF ReadIsFresh
<1>23. ASSUME FilterIsRead PROVE FilterIsRead'
  <2>1. ASSUME NEW d \in Pulls, NEW push \in span[d].before PROVE carried'[push] = carried[push]
    <3>1. push \in Acknowledged BY DEF BoardInv, PullsAreSpanned
    <3>2. push \in Calls /\ push # c BY <1>2, <3>1, CallsOfTheBoard DEF Acknowledged
    <3> QED BY <1>7, <3>2
  <2> QED BY <1>2, <1>18, <1>23, <2>1, FilterStays DEF Read
<1> QED BY <1>8, <1>9, <1>16, <1>19, <1>20, <1>21, <1>22, <1>23 DEF BoardInv, FreshInv

(* What was just sent has no answer yet. *)
LEMMA SentAnew ==
    ASSUME ClientTypeOK, AnswersAreAsked, NEW c \in Calls, Send(c)
    PROVE  /\ client'[c].phase = "waiting"
           /\ answers'[c][client'[c].attempt].kind # "message"
<1>1. /\ UNCHANGED answers /\ client'[c].phase = "waiting"
      /\ client'[c].attempt = client[c].attempt
  BY ClientMoves DEF ClientStep
<1>2. client[c].attempt \in Attempts BY DEF ClientTypeOK
<1>3. client[c].attempt \in Nat BY <1>2, CallsOfTheBoard
<1>4. client[c].phase \in {"new", "sleeping"} BY DEF Send
<1>5. ~Sent(c, client[c].attempt) BY <1>3, <1>4 DEF Sent
<1>6. answers[c][client[c].attempt] = Nothing BY <1>2, <1>5 DEF AnswersAreAsked
<1> QED BY <1>1, <1>6 DEF Nothing

LEMMA SendPullKeeps ==
    ASSUME BoardInv, NEW c \in Pulls, NEW q \in Questions, SendPull(c, q)
    PROVE  BoardInv' /\ (FreshInv => FreshInv')
<1>1. TypeOK /\ ClientTypeOK /\ c \in Calls /\ c \notin Pushes /\ q \in Question
  BY CallsOfTheBoard, BoardAssumption DEF BoardInv, TypeOK
<1>2. /\ UNCHANGED <<answers, real, live, statuses, moves, carried, told, served>>
      /\ client[c].phase = "new" /\ Send(c)
      /\ question' = [question EXCEPT ![c] = q]
      /\ span' = [span EXCEPT ![c] = [always |-> live, ever |-> live, before |-> Acknowledged]]
  BY DEF SendPull, boardVars, Send
<1>3. /\ ClientTypeOK' /\ client'[c].phase = "waiting"
      /\ \A d \in Calls : d # c => client'[d] = client[d]
  BY <1>1, <1>2, ClientMoves DEF ClientStep
<1> DEFINE new == [always |-> live, ever |-> live, before |-> Acknowledged]
<1>4. new \in Span
  <2>1. live \in SUBSET Evse BY <1>1 DEF TypeOK
  <2>2. Acknowledged \in SUBSET Pushes BY DEF Acknowledged
  <2> QED BY <2>1, <2>2 DEF Span
<1>5. /\ span' \in [Calls -> Span] /\ span'[c] = new
      /\ \A d \in Calls : d # c => span'[d] = span[d]
  <2>1. span \in [Calls -> Span] BY <1>1 DEF TypeOK
  <2>2. span' = [span EXCEPT ![c] = new] BY <1>2
  <2> HIDE DEF new
  <2> QED BY <1>1, <1>4, <2>1, <2>2
<1>6. /\ question' \in [Calls -> Question]
      /\ \A d \in Calls : d # c => question'[d] = question[d]
  BY <1>1, <1>2 DEF TypeOK
<1>7. TypeOK' BY <1>1, <1>2, <1>3, <1>5, <1>6 DEF TypeOK
<1>8. AnswersAreAsked' BY <1>1, <1>2, AskedByClient DEF BoardInv, ClientStep
<1>9. \A d \in Pushes : client'[d] = client[d] BY <1>1, <1>3, CallsOfTheBoard
<1>10. PushesInTurn' BY <1>2, <1>9 DEF BoardInv, PushesInTurn, Started, Done, Now
<1>11. Acknowledged' = Acknowledged BY <1>9 DEF Acknowledged
<1>12. \A d \in Pulls : Listed(d)' = Listed(d) BY <1>2 DEF Listed
<1>13. PullsAreSpanned'
  <2> SUFFICES ASSUME NEW d \in Pulls
               PROVE  /\ span'[d].before \subseteq Acknowledged'
                      /\ Waiting(d)' => span'[d].always \subseteq live' /\ live' \subseteq span'[d].ever
                      /\ ~Started(d)' => Listed(d)' = {}
    BY DEF PullsAreSpanned
  <2>1. CASE d = c BY <1>2, <1>3, <1>5, <1>11, <2>1 DEF Started
  <2>2. CASE d # c
    <3>1. client'[d] = client[d] /\ span'[d] = span[d] BY <1>3, <1>5, <2>2, CallsOfTheBoard
    <3> QED BY <1>2, <1>11, <1>12, <3>1 DEF BoardInv, PullsAreSpanned, Waiting, Started
  <2> QED BY <2>1, <2>2
<1>14. NothingIsUnread'
  <2> SUFFICES ASSUME NEW d \in Pulls, Read(d)' PROVE OmitsNothing(d)'
    BY DEF NothingIsUnread
  <2>1. d # c BY <1>1, <1>2, <1>3, SentAnew DEF BoardInv, Read
  <2>2. client'[d] = client[d] /\ span'[d] = span[d] /\ question'[d] = question[d]
    BY <1>3, <1>5, <1>6, <2>1, CallsOfTheBoard
  <2>3. OmitsNothing(d) BY <1>2, <2>2 DEF BoardInv, NothingIsUnread, Read
  <2> QED BY <1>2, <1>12, <2>2, <2>3 DEF OmitsNothing, AsksForAll, Now
<1>15. AnsweredIsTold => AnsweredIsTold' BY <1>2 DEF AnsweredIsTold
<1>16. ASSUME ReadIsFresh PROVE ReadIsFresh'
  <2> SUFFICES ASSUME NEW d \in Pulls, NEW e \in Listed(d)', NEW push \in span'[d].before,
                      carried'[push][e] # NotListed
               PROVE  told'[d][e] >= carried'[push][e]
    BY DEF ReadIsFresh
  <2>1. e \in Listed(d) BY <1>12
  <2>2. d # c BY <1>2, <2>1 DEF BoardInv, PullsAreSpanned, Started
  <2>3. span'[d] = span[d] BY <1>5, <2>2, CallsOfTheBoard
  <2> QED BY <1>2, <1>16, <2>1, <2>3 DEF ReadIsFresh
<1>17. ASSUME FilterIsRead PROVE FilterIsRead'
  <2> SUFFICES ASSUME NEW d \in Pulls, Read(d)' PROVE PassesFilter(d)'
    BY DEF FilterIsRead
  <2>1. d # c BY <1>1, <1>2, <1>3, SentAnew DEF BoardInv, Read
  <2>2. client'[d] = client[d] /\ span'[d] = span[d] /\ question'[d] = question[d]
    BY <1>3, <1>5, <1>6, <2>1, CallsOfTheBoard
  <2>3. PassesFilter(d) BY <1>2, <1>17, <2>2 DEF FilterIsRead, Read
  <2> QED BY <1>2, <1>12, <2>2, <2>3 DEF PassesFilter, Now
<1>18. ToldIsReal' BY <1>2 DEF BoardInv, ToldIsReal, Now
<1> QED BY <1>7, <1>8, <1>10, <1>13, <1>14, <1>15, <1>16, <1>17, <1>18 DEF BoardInv, FreshInv

LEMMA SendAgainKeeps ==
    ASSUME BoardInv, NEW c \in Calls, SendAgain(c)
    PROVE  BoardInv' /\ (FreshInv => FreshInv')
<1>1. TypeOK /\ ClientTypeOK BY DEF BoardInv, TypeOK
<1>2. /\ UNCHANGED <<answers, real, live, statuses, moves, carried, question, span, served>>
      /\ client[c].phase = "sleeping" /\ Send(c)
      /\ told' = [told EXCEPT ![c] = Silence]
  BY DEF SendAgain, boardVars, Send
<1>3. /\ ClientTypeOK' /\ client'[c].phase = "waiting"
      /\ \A d \in Calls : d # c => client'[d] = client[d]
  BY <1>1, <1>2, ClientMoves DEF ClientStep
<1>4. Silence \in [Evse -> Saying] /\ \A e \in Evse : Silence[e] = NotListed
  BY CallsOfTheBoard DEF Silence
<1>5. /\ told' \in [Calls -> [Evse -> Saying]] /\ told'[c] = Silence
      /\ \A d \in Calls : d # c => told'[d] = told[d]
  BY <1>1, <1>2, <1>4 DEF TypeOK
<1>6. TypeOK' BY <1>1, <1>2, <1>3, <1>5 DEF TypeOK
<1>7. AnswersAreAsked' BY <1>1, <1>2, AskedByClient DEF BoardInv, ClientStep
<1>8. \A d \in Calls : /\ Started(d)' <=> Started(d)
                       /\ Done(d)' <=> Done(d)
                       /\ Waiting(d)' <=> Waiting(d)
                       /\ client'[d].phase = "ok" <=> client[d].phase = "ok"
  BY <1>2, <1>3 DEF Started, Done, Waiting
<1>9. PushesInTurn' BY <1>2, <1>8, CallsOfTheBoard DEF BoardInv, PushesInTurn, Now
<1>10. Acknowledged' = Acknowledged BY <1>8, CallsOfTheBoard DEF Acknowledged
<1>11. Listed(c)' = {} BY <1>4, <1>5 DEF Listed
<1>12. \A d \in Calls : d # c => Listed(d)' = Listed(d) BY <1>5 DEF Listed
<1>13. PullsAreSpanned'
  BY <1>2, <1>8, <1>10, <1>11, <1>12, CallsOfTheBoard DEF BoardInv, PullsAreSpanned
<1>14. NothingIsUnread'
  <2> SUFFICES ASSUME NEW d \in Pulls, Read(d)' PROVE OmitsNothing(d)'
    BY DEF NothingIsUnread
  <2>1. d # c BY <1>1, <1>2, <1>3, SentAnew DEF BoardInv, Read
  <2>2. client'[d] = client[d] /\ told'[d] = told[d] /\ Listed(d)' = Listed(d)
    BY <1>3, <1>5, <1>12, <2>1, CallsOfTheBoard
  <2>3. OmitsNothing(d) BY <1>2, <2>2 DEF BoardInv, NothingIsUnread, Read
  <2> QED BY <1>2, <2>2, <2>3 DEF OmitsNothing, AsksForAll, Now
<1>15. AnsweredIsTold => AnsweredIsTold' BY <1>2 DEF AnsweredIsTold
<1>16. ASSUME ReadIsFresh PROVE ReadIsFresh'
  <2> SUFFICES ASSUME NEW d \in Pulls, NEW e \in Listed(d)', NEW push \in span'[d].before,
                      carried'[push][e] # NotListed
               PROVE  told'[d][e] >= carried'[push][e]
    BY DEF ReadIsFresh
  <2>1. d # c BY <1>11
  <2>2. told'[d] = told[d] /\ e \in Listed(d) BY <1>5, <1>12, <2>1, CallsOfTheBoard
  <2> QED BY <1>2, <1>16, <2>2 DEF ReadIsFresh
<1>17. ASSUME FilterIsRead PROVE FilterIsRead'
  <2> SUFFICES ASSUME NEW d \in Pulls, Read(d)' PROVE PassesFilter(d)'
    BY DEF FilterIsRead
  <2>1. d # c BY <1>1, <1>2, <1>3, SentAnew DEF BoardInv, Read
  <2>2. client'[d] = client[d] /\ Listed(d)' = Listed(d)
    BY <1>3, <1>12, <2>1, CallsOfTheBoard
  <2>3. PassesFilter(d) BY <1>2, <1>17, <2>2 DEF FilterIsRead, Read
  <2> QED BY <1>2, <2>2, <2>3 DEF PassesFilter, Now
<1>18. ToldIsReal' BY <1>2 DEF BoardInv, ToldIsReal, Now
<1> QED BY <1>6, <1>7, <1>9, <1>13, <1>14, <1>15, <1>16, <1>17, <1>18 DEF BoardInv, FreshInv

LEMMA HearKeeps ==
    ASSUME BoardInv, NEW c \in Calls, Hear(c)
    PROVE  BoardInv' /\ (FreshInv => FreshInv')
<1>1. TypeOK /\ ClientTypeOK BY DEF BoardInv, TypeOK
<1>2. /\ UNCHANGED <<real, live, statuses, moves, carried, question, told, span, served>>
      /\ ClientStep(c) /\ (Receive(c) \/ TransportError(c))
  BY DEF Hear, boardVars, pullVars, ClientStep
<1>3. /\ ClientTypeOK' /\ UNCHANGED answers
      /\ client[c].phase = "waiting" /\ client'[c].phase \notin {"new", "waiting"}
      /\ \A d \in Calls : d # c => client'[d] = client[d]
      /\ client'[c].phase = "ok" => answers[c][client[c].attempt].kind = "message"
  BY <1>1, <1>2, ClientMoves
<1>4. TypeOK' BY <1>1, <1>2, <1>3 DEF TypeOK
<1>5. AnswersAreAsked' BY <1>1, <1>2, AskedByClient DEF BoardInv
<1>6. \A d \in Calls : /\ Started(d)' <=> Started(d)
                       /\ Done(d) => Done(d)'
                       /\ Waiting(d)' => Waiting(d)
                       /\ client[d].phase = "ok" => client'[d].phase = "ok"
  BY <1>3 DEF Started, Done, Waiting
<1>7. PushesInTurn' BY <1>2, <1>6, CallsOfTheBoard DEF BoardInv, PushesInTurn, Now
<1>8. Acknowledged \subseteq Acknowledged' BY <1>6, CallsOfTheBoard DEF Acknowledged
<1>9. PullsAreSpanned' BY <1>2, <1>6, <1>8, SpanStays, CallsOfTheBoard DEF BoardInv
<1>10. \A d \in Pulls : Read(d)' => Read(d)
  <2> TAKE d \in Pulls
  <2>1. d \in Calls BY CallsOfTheBoard
  <2>2. CASE d = c BY <1>3, <2>2 DEF Read
  <2>3. CASE d # c BY <1>3, <2>1, <2>3 DEF Read
  <2> QED BY <2>2, <2>3
<1>11. NothingIsUnread' BY <1>2, <1>10, UnreadStays DEF BoardInv
<1>12. FilterIsRead => FilterIsRead' BY <1>2, <1>10, FilterStays
<1>13. FreshInv => FreshInv' BY <1>2, <1>3, <1>12 DEF FreshInv, AnsweredIsTold, ReadIsFresh, Listed
<1>14. ToldIsReal' BY <1>2 DEF BoardInv, ToldIsReal, Now
<1> QED BY <1>4, <1>5, <1>7, <1>9, <1>11, <1>13, <1>14 DEF BoardInv

LEMMA ServePushKeeps ==
    ASSUME BoardInv, NEW c \in Pushes, NEW n \in Attempts, ServePush(c, n)
    PROVE  BoardInv' /\ (~Late /\ FreshInv => FreshInv')
<1> DEFINE a == Message("Success", 0)
<1>1. TypeOK /\ ClientTypeOK /\ c \in Calls /\ c \notin Pulls /\ a \in Answer
  BY CallsOfTheBoard, AnswersHaveTypes DEF BoardInv, TypeOK
<1>2. /\ UNCHANGED <<client, real, live, moves, carried, question, told, span>>
      /\ Take(c, n) /\ Answered(c, n, a) /\ served' = served \cup {<<c, n>>}
      /\ statuses' = [e \in Evse |-> IF carried[c][e] # NotListed THEN carried[c][e] ELSE statuses[e]]
  BY DEF ServePush, Take, pullVars
<1> HIDE DEF a
<1>3. /\ ClientTypeOK'
      /\ \A d \in Calls, k \in Attempts : answers'[d][k] # answers[d][k] => d = c
  BY <1>1, <1>2, AnswerStays
<1>4. statuses \in [Evse -> Nat] BY <1>1 DEF TypeOK
<1>5. \A d \in Pushes, e \in Evse :
         carried[d][e] # NotListed =>
            Started(d) /\ Owner[e] = Pusher[d] /\ carried[d][e] \in 1..Now(e)
  BY DEF BoardInv, PushesInTurn
<1>6. \A e \in Evse : Now(e) \in Nat
  <2>1. \A e \in Evse : real[e] \in Seq(Statuses) BY <1>1 DEF TypeOK
  <2> QED BY <2>1, LenProperties DEF Now
<1>7. \A d \in Pushes, e \in Evse : carried[d][e] = NotListed \/ carried[d][e] \in Nat BY <1>5, <1>6
<1>8. statuses' \in [Evse -> Nat] BY <1>2, <1>4, <1>7
<1>9. served' \in SUBSET Requests
  <2>1. <<c, n>> \in Requests BY <1>1 DEF Requests
  <2> QED BY <1>1, <1>2, <2>1 DEF TypeOK
<1>10. TypeOK' BY <1>1, <1>2, <1>3, <1>8, <1>9 DEF TypeOK, Requests
<1>11. AnswersAreAsked' BY <1>1, <1>2, AskedByBroker DEF BoardInv
<1>12. PushesInTurn' BY <1>2 DEF BoardInv, PushesInTurn, Started, Done, Now
<1>13. PullsAreSpanned' BY <1>2 DEF BoardInv, PullsAreSpanned, Acknowledged, Listed, Waiting, Started
<1>14. NothingIsUnread' /\ (FilterIsRead => FilterIsRead')
  <2>1. \A d \in Pulls : client[d].attempt \in Attempts BY <1>1, CallsOfTheBoard DEF ClientTypeOK
  <2>2. \A d \in Pulls : answers'[d][client[d].attempt] = answers[d][client[d].attempt]
    BY <1>1, <1>3, <2>1, CallsOfTheBoard
  <2>3. \A d \in Pulls : Read(d)' => Read(d) BY <1>2, <2>2 DEF Read
  <2>4. NothingIsUnread' BY <1>2, <2>3, UnreadStays DEF BoardInv
  <2>5. FilterIsRead => FilterIsRead' BY <1>2, <2>3, FilterStays
  <2> QED BY <2>4, <2>5
<1>15. ASSUME ~Late, AnsweredIsTold PROVE AnsweredIsTold'
  <2> SUFFICES ASSUME NEW d \in Pushes, NEW k \in Attempts, answers'[d][k].kind = "message",
                      NEW e \in Evse
               PROVE  statuses'[e] >= carried[d][e]
    BY <1>2 DEF AnsweredIsTold
  <2>1. c \in Nat /\ d \in Nat /\ d \in Calls BY CallsOfTheBoard
  <2>2. ~Done(c)
    <3>1. client[c].phase = "waiting" BY <1>15, <1>2 DEF Take, InTime
    <3> QED BY <3>1 DEF Done
  <2>3. statuses[e] \in Nat BY <1>4
  <2>4. CASE carried[d][e] = NotListed BY <1>8, <2>4, CallsOfTheBoard
  <2>5. CASE carried[d][e] # NotListed /\ carried[c][e] = NotListed
    <3>1. d # c /\ statuses'[e] = statuses[e] BY <1>2, <2>5
    <3>2. answers'[d][k] = answers[d][k] BY <1>3, <2>1, <3>1
    <3> QED BY <1>15, <3>1, <3>2 DEF AnsweredIsTold
  <2>6. CASE carried[d][e] # NotListed /\ carried[c][e] # NotListed
    <3>1. statuses'[e] = carried[c][e] BY <1>2, <2>6
    <3>2. Pusher[d] = Pusher[c] /\ Started(d) BY <1>5, <2>6
    <3>3. carried[c][e] \in Nat BY <1>7, <2>6
    <3>4. CASE d = c BY <3>1, <3>3, <3>4
    <3>5. CASE d < c
      <4>1. carried[d][e] <= carried[c][e] BY <2>6, <3>2, <3>5 DEF BoardInv, PushesInTurn
      <4>2. carried[d][e] \in Nat BY <1>7, <2>6
      <4> QED BY <3>1, <3>3, <4>1, <4>2
    <3>6. ~(c < d) BY <2>2, <3>2 DEF BoardInv, PushesInTurn
    <3> QED BY <2>1, <3>4, <3>5, <3>6
  <2> QED BY <2>4, <2>5, <2>6
<1>16. ReadIsFresh => ReadIsFresh' BY <1>2 DEF ReadIsFresh, Listed
<1>17. ToldIsReal'
  <2> SUFFICES ASSUME NEW e \in Evse PROVE statuses'[e] \in 0..Now(e)
    BY <1>2 DEF ToldIsReal, Now
  <2>1. CASE carried[c][e] # NotListed
    <3>1. statuses'[e] = carried[c][e] /\ carried[c][e] \in 1..Now(e) BY <1>2, <1>5, <2>1
    <3> QED BY <1>6, <3>1
  <2>2. CASE carried[c][e] = NotListed
    <3>1. statuses'[e] = statuses[e] BY <1>2, <2>2
    <3> QED BY <3>1 DEF BoardInv, ToldIsReal
  <2> QED BY <2>1, <2>2
<1> QED BY <1>10, <1>11, <1>12, <1>13, <1>14, <1>15, <1>16, <1>17 DEF BoardInv, FreshInv

(* What the router makes of an EMP's question. *)
LEMMA AnswersTell ==
    ASSUME TypeOK, NEW q \in Question
    PROVE  LET says == AnswerTo(q).says
               tells == {e \in Evse : says[e] # NotListed} IN
           /\ says \in [Evse -> Saying]
           /\ \A e \in tells : says[e] = statuses[e] \/ (says[e] = NotFound /\ statuses[e] = 0)
           /\ q.field = "EvseID" => tells = q.asked
           /\ q.field # "EvseID" => tells \subseteq live
           /\ AsksForAll(q) => live \subseteq tells
           /\ q.field = "EvseStatus" =>
                 /\ \A e \in tells : says[e] = statuses[e] /\ says[e] # 0
                                    /\ real[e][says[e]] \in q.asked
                 /\ \A e \in live : statuses[e] # 0 /\ real[e][statuses[e]] \in q.asked => e \in tells
           /\ \A e \in Evse : says[e] = NotFound => e \notin live
<1> DEFINE says == AnswerTo(q).says
           tells == {e \in Evse : says[e] # NotListed}
<1>1. \A e \in Evse : statuses[e] \in Nat /\ statuses[e] \in Saying BY CallsOfTheBoard DEF TypeOK
<1>2. NotListed \in Saying /\ NotFound \in Saying /\ Unknown \in Saying
      /\ NotListed = -1 /\ NotFound = -2 /\ Unknown = 0
  BY CallsOfTheBoard
<1>3. /\ q.field \in {"none", "EvseStatus", "EvseID", "OperatorID"}
      /\ q.field = "none" => q.asked = {}
      /\ q.field = "EvseID" => q.asked \subseteq Evse
      /\ q.field = "EvseStatus" => q.asked # {}
  BY DEF Question
<1>4. LooksLikeById(q) <=> q.field = "EvseID"
  BY <1>3 DEF LooksLikeById, Decodes
<1>5. live \subseteq Evse BY DEF TypeOK
<1>6. CASE q.field = "EvseID"
  <2>1. says = LookUp(q.asked) BY <1>3, <1>4, <1>6 DEF AnswerTo
  <2>2. \A e \in Evse : says[e] = IF e \notin q.asked THEN NotListed
                                  ELSE IF statuses[e] # 0 THEN statuses[e]
                                  ELSE IF e \in live THEN Unknown
                                  ELSE NotFound
    BY <2>1 DEF LookUp
  <2>3. says \in [Evse -> Saying] BY <1>1, <1>2, <2>1, <2>2 DEF LookUp
  <2> HIDE DEF says
  <2>4. \A e \in Evse : (says[e] # NotListed <=> e \in q.asked)
    BY <1>1, <1>2, <2>2
  <2>5. \A e \in Evse : says[e] = NotFound => e \notin live /\ statuses[e] = 0
    BY <1>1, <1>2, <2>2
  <2>6. \A e \in Evse : says[e] # NotListed => says[e] = statuses[e] \/ says[e] = NotFound
    BY <1>1, <1>2, <2>2
  <2>7. tells = q.asked BY <1>3, <1>6, <2>4
  <2>8. ~AsksForAll(q) BY <1>6 DEF AsksForAll
  <2> QED BY <1>6, <2>3, <2>5, <2>6, <2>7, <2>8 DEF says
<1>7. CASE q.field # "EvseID"
  <2> DEFINE wanted == IF q.field = "EvseStatus" THEN q.asked ELSE {}
  <2>1. says = List(wanted) BY <1>4, <1>7 DEF AnswerTo
  <2>2. /\ AsksForAll(q) => wanted = {}
        /\ q.field = "EvseStatus" => wanted = q.asked /\ wanted # {}
    BY <1>3 DEF AsksForAll
  <2> HIDE DEF wanted
  <2>3. \A e \in Evse : says[e] = IF e \in live /\ (wanted = {} \/ \E s \in wanted : StatusIs(e, s))
                                  THEN statuses[e] ELSE NotListed
    BY <2>1 DEF List
  <2>4. says \in [Evse -> Saying] BY <1>1, <1>2, <2>1, <2>3 DEF List
  <2> HIDE DEF says
  <2>5. \A e \in Evse : says[e] # NotListed => e \in live /\ says[e] = statuses[e] BY <2>3
  <2>6. wanted = {} => \A e \in live : says[e] # NotListed BY <1>1, <1>2, <1>5, <2>3
  <2>7. \A e \in Evse : says[e] # NotFound BY <1>1, <1>2, <2>3
  <2>8. wanted # {} =>
           /\ \A e \in Evse : says[e] # NotListed => statuses[e] # 0 /\ real[e][statuses[e]] \in wanted
           /\ \A e \in live : statuses[e] # 0 /\ real[e][statuses[e]] \in wanted => says[e] # NotListed
    BY <1>1, <1>2, <1>5, <2>3 DEF StatusIs
  <2> QED BY <1>5, <1>7, <2>2, <2>4, <2>5, <2>6, <2>7, <2>8 DEF says
<1> QED BY <1>6, <1>7

(* What a pull is judged by was told, and has been so.                       *)
LEMMA AcknowledgedTold ==
    ASSUME BoardInv, FreshInv, NEW d \in Pulls, NEW push \in span[d].before, NEW e \in Evse,
           carried[push][e] # NotListed
    PROVE  statuses[e] >= carried[push][e] /\ carried[push][e] \in 1..Now(e)
<1>1. push \in Pushes /\ client[push].phase = "ok" BY DEF BoardInv, PullsAreSpanned, Acknowledged
<1>2. \E k \in Attempts : answers[push][k].kind = "message"
  BY <1>1, CallsOfTheBoard DEF BoardInv, AnswersAreAsked
<1>3. statuses[e] >= carried[push][e] BY <1>1, <1>2 DEF FreshInv, AnsweredIsTold
<1>4. carried[push][e] \in 1..Now(e) BY <1>1 DEF BoardInv, PushesInTurn
<1> QED BY <1>3, <1>4

LEMMA ServePullKeeps ==
    ASSUME BoardInv, NEW c \in Calls, NEW n \in Attempts, ServePull(c, n)
    PROVE  BoardInv' /\ (FreshInv => FreshInv')
<1> DEFINE q == question[c]
           says == AnswerTo(q).says
           a == IF AnswerTo(q).type = Expected(q) THEN Message("Success", 0) ELSE Undecodable
<1>1. TypeOK /\ ClientTypeOK /\ c \in Pulls /\ c \notin Pushes /\ a \in Answer /\ q \in Question
  BY CallsOfTheBoard, AnswersHaveTypes DEF BoardInv, TypeOK, ServePull
<1>2. /\ UNCHANGED <<client, real, live, statuses, moves, carried, question, span>>
      /\ Take(c, n) /\ Answered(c, n, a) /\ served' = served \cup {<<c, n>>}
      /\ told' = IF InTime(c, n) THEN [told EXCEPT ![c] = says] ELSE told
  BY DEF ServePull, Take, boardVars
<1> HIDE DEF a, q, says
<1>3. /\ ClientTypeOK'
      /\ \A d \in Calls, k \in Attempts : answers'[d][k] # answers[d][k] => d = c /\ k = n
  BY <1>1, <1>2, AnswerStays
<1> DEFINE tells == {e \in Evse : says[e] # NotListed}
<1>4. /\ says \in [Evse -> Saying]
      /\ \A e \in tells : says[e] = statuses[e] \/ (says[e] = NotFound /\ statuses[e] = 0)
      /\ q.field = "EvseID" => tells = q.asked
      /\ q.field # "EvseID" => tells \subseteq live
      /\ AsksForAll(q) => live \subseteq tells
      /\ q.field = "EvseStatus" =>
            /\ \A e \in tells : says[e] = statuses[e] /\ says[e] # 0 /\ real[e][says[e]] \in q.asked
            /\ \A e \in live : statuses[e] # 0 /\ real[e][statuses[e]] \in q.asked => e \in tells
      /\ \A e \in Evse : says[e] = NotFound => e \notin live
  BY <1>1, AnswersTell DEF says
<1>5. /\ told' \in [Calls -> [Evse -> Saying]]
      /\ InTime(c, n) => told'[c] = says
      /\ ~InTime(c, n) => told' = told
      /\ \A d \in Calls : d # c => told'[d] = told[d]
  BY <1>1, <1>2, <1>4 DEF TypeOK
<1>6. served' \in SUBSET Requests
  <2>1. <<c, n>> \in Requests BY DEF Requests
  <2> QED BY <1>1, <1>2, <2>1 DEF TypeOK
<1>7. TypeOK' BY <1>1, <1>2, <1>3, <1>5, <1>6 DEF TypeOK, Requests
<1>8. AnswersAreAsked' BY <1>1, <1>2, AskedByBroker DEF BoardInv
<1>9. PushesInTurn' BY <1>2 DEF BoardInv, PushesInTurn, Started, Done, Now
<1>10. /\ InTime(c, n) => Listed(c)' = tells
       /\ ~InTime(c, n) => Listed(c)' = Listed(c)
       /\ \A d \in Calls : d # c => Listed(d)' = Listed(d)
  BY <1>5 DEF Listed
<1>11. InTime(c, n) => Waiting(c) /\ Started(c) BY DEF InTime, Waiting, Started
<1>12. PullsAreSpanned'
  <2>1. Acknowledged' = Acknowledged BY <1>2 DEF Acknowledged
  <2>2. \A d \in Pulls : ~Started(d) => Listed(d)' = {}
    BY <1>10, <1>11, CallsOfTheBoard DEF BoardInv, PullsAreSpanned
  <2>3. \A d : (Waiting(d)' <=> Waiting(d)) /\ (Started(d)' <=> Started(d)) BY <1>2 DEF Waiting, Started
  <2> QED BY <1>2, <2>1, <2>2, <2>3 DEF BoardInv, PullsAreSpanned
<1>13. InTime(c, n) => OmitsNothing(c)'
  <2> SUFFICES ASSUME InTime(c, n) PROVE OmitsNothing(c)' OBVIOUS
  <2>1. span[c].always \subseteq live /\ live \subseteq span[c].ever
    BY <1>1, <1>11 DEF BoardInv, PullsAreSpanned
  <2>2. Listed(c)' = tells /\ told'[c] = says /\ question'[c] = q /\ span'[c] = span[c]
    BY <1>2, <1>5, <1>10 DEF q
  <2>3. ASSUME q.field = "EvseStatus", NEW e \in tells
        PROVE  says[e] \in 1..Now(e)' /\ real'[e][says[e]] \in q.asked
    <3>1. says[e] = statuses[e] /\ says[e] # 0 /\ real[e][says[e]] \in q.asked BY <1>4, <2>3
    <3>2. statuses[e] \in 0..Now(e) BY DEF BoardInv, ToldIsReal
    <3> QED BY <1>2, <3>1, <3>2 DEF Now
  <2> HIDE DEF tells
  <2> QED BY <1>4, <2>1, <2>2, <2>3 DEF OmitsNothing
<1>14. ASSUME NEW d \in Pulls, Read(d)', ~(d = c /\ InTime(c, n)) PROVE Read(d)
  <2>1. d \in Calls /\ client[d].attempt \in Attempts BY <1>1, CallsOfTheBoard DEF ClientTypeOK
  <2>2. client[d].phase = "waiting" => answers'[d][client[d].attempt] = answers[d][client[d].attempt]
    BY <1>3, <1>14, <2>1 DEF InTime
  <2> QED BY <1>2, <1>14, <2>2 DEF Read
<1>15. NothingIsUnread'
  <2> SUFFICES ASSUME NEW d \in Pulls, Read(d)', ~(d = c /\ InTime(c, n))
               PROVE  OmitsNothing(d)'
    BY <1>13 DEF NothingIsUnread
  <2>1. told'[d] = told[d] /\ Listed(d)' = Listed(d) BY <1>5, <1>10, CallsOfTheBoard
  <2>2. OmitsNothing(d) BY <1>14 DEF BoardInv, NothingIsUnread
  <2> QED BY <1>2, <2>1, <2>2 DEF OmitsNothing, AsksForAll, Now
<1>16. ASSUME FreshInv PROVE AnsweredIsTold'
  <2> SUFFICES ASSUME NEW d \in Pushes, NEW k \in Attempts, answers'[d][k].kind = "message"
               PROVE  \A e \in Evse : statuses[e] >= carried[d][e]
    BY <1>2 DEF AnsweredIsTold
  <2>1. answers'[d][k] = answers[d][k] BY <1>1, <1>3, CallsOfTheBoard
  <2> QED BY <1>16, <2>1 DEF FreshInv, AnsweredIsTold
<1>17. ASSUME FreshInv PROVE ReadIsFresh'
  <2> SUFFICES ASSUME NEW d \in Pulls, NEW e \in Listed(d)', NEW push \in span[d].before,
                      carried[push][e] # NotListed
               PROVE  told'[d][e] >= carried[push][e]
    BY <1>2 DEF ReadIsFresh
  <2>1. CASE d = c /\ InTime(c, n)
    <3>1. e \in tells /\ told'[d][e] = says[e] BY <1>5, <1>10, <2>1
    <3>2. e \in Evse BY <3>1
    <3>3. statuses[e] >= carried[push][e] /\ carried[push][e] \in 1..Now(e)
      BY <1>17, <3>2, AcknowledgedTold
    <3>4. statuses[e] \in 0..Now(e) BY <3>2 DEF BoardInv, ToldIsReal
    <3>5. statuses[e] # 0 BY <3>3, <3>4
    <3> QED BY <1>4, <3>1, <3>3, <3>5
  <2>2. CASE ~(d = c /\ InTime(c, n))
    <3>1. told'[d] = told[d] /\ Listed(d)' = Listed(d) BY <1>5, <1>10, <2>2, CallsOfTheBoard
    <3> QED BY <1>17, <3>1 DEF FreshInv, ReadIsFresh
  <2> QED BY <2>1, <2>2
<1>18. ASSUME FreshInv PROVE FilterIsRead'
  <2> SUFFICES ASSUME NEW d \in Pulls, Read(d)', question[d].field = "EvseStatus",
                      NEW e \in span[d].always, NEW push \in span[d].before,
                      carried[push][e] # NotListed,
                      \A k \in carried[push][e]..Now(e) : real[e][k] \in question[d].asked
               PROVE  e \in Listed(d)'
    BY <1>2 DEF FilterIsRead, PassesFilter, Now
  <2>1. CASE d = c /\ InTime(c, n)
    <3>1. e \in live /\ e \in Evse
      BY <1>1, <1>11, <2>1 DEF BoardInv, PullsAreSpanned, TypeOK
    <3>2. statuses[e] >= carried[push][e] /\ carried[push][e] \in 1..Now(e)
      BY <1>18, <2>1, <3>1, AcknowledgedTold
    <3>3. statuses[e] \in 0..Now(e) BY <3>1 DEF BoardInv, ToldIsReal
    <3>4. statuses[e] # 0 /\ statuses[e] \in carried[push][e]..Now(e) BY <3>2, <3>3
    <3>5. real[e][statuses[e]] \in q.asked BY <2>1, <3>4 DEF q
    <3> QED BY <1>4, <1>10, <2>1, <3>1, <3>4, <3>5 DEF q
  <2>2. CASE ~(d = c /\ InTime(c, n))
    <3>1. Listed(d)' = Listed(d) BY <1>10, <2>2, CallsOfTheBoard
    <3>2. PassesFilter(d) BY <1>14, <1>18, <2>2 DEF FreshInv, FilterIsRead
    <3> QED BY <3>1, <3>2 DEF PassesFilter
  <2> QED BY <2>1, <2>2
<1>19. ToldIsReal' BY <1>2 DEF BoardInv, ToldIsReal, Now
<1> QED BY <1>7, <1>8, <1>9, <1>12, <1>15, <1>16, <1>17, <1>18, <1>19 DEF BoardInv, FreshInv

-----------------------------------------------------------------------------
LEMMA BoardStarts ==
    ASSUME Init
    PROVE  BoardInv /\ FreshInv
<1>1. /\ client = [c \in Calls |-> [phase |-> "new", attempt |-> 0, outcome |-> Nothing]]
      /\ answers = [c \in Calls |-> [n \in Attempts |-> Nothing]]
      /\ real = [e \in Evse |-> <<FirstStatus>>] /\ live = FirstLive
      /\ statuses = [e \in Evse |-> 0] /\ carried = [c \in Calls |-> Silence]
      /\ question = [c \in Calls |-> NoQuestion] /\ told = [c \in Calls |-> Silence]
      /\ served = {} /\ moves = 0
      /\ span = [c \in Calls |-> [always |-> {}, ever |-> {}, before |-> {}]]
  BY DEF Init, ClientInit
<1>2. ClientTypeOK
  <2>1. Nothing \in Answer /\ 0 \in Attempts BY AnswersHaveTypes, CallsOfTheBoard
  <2>2. [phase |-> "new", attempt |-> 0, outcome |-> Nothing]
          \in [phase : {"new", "waiting", "sleeping", "ok", "failed"},
               attempt : Attempts, outcome : Answer]
    BY <2>1
  <2>3. [n \in Attempts |-> Nothing] \in [Attempts -> Answer] BY <2>1
  <2> QED BY <1>1, <2>2, <2>3 DEF ClientTypeOK
<1>3. Silence \in [Evse -> Saying] /\ \A e \in Evse : Silence[e] = NotListed
  BY CallsOfTheBoard DEF Silence
<1>4. NoQuestion \in Question BY DEF NoQuestion, Question
<1>5. <<FirstStatus>> \in Seq(Statuses) \ {<< >>} BY BoardAssumption
<1>6. [always |-> {}, ever |-> {}, before |-> {}] \in Span BY DEF Span
<1>7. FirstLive \subseteq Evse /\ MaxMoves \in Nat BY BoardAssumption
<1>8. TypeOK
  <2>1. real \in [Evse -> Seq(Statuses) \ {<< >>}] BY <1>1, <1>5
  <2>2. span \in [Calls -> Span] BY <1>1, <1>6
  <2>3. moves \in 0..MaxMoves BY <1>1, <1>7
  <2>4. statuses \in [Evse -> Nat] BY <1>1
  <2>5. /\ carried \in [Calls -> [Evse -> Saying]] /\ told \in [Calls -> [Evse -> Saying]]
        /\ question \in [Calls -> Question]
    BY <1>1, <1>3, <1>4
  <2> QED BY <1>1, <1>2, <1>7, <2>1, <2>2, <2>3, <2>4, <2>5 DEF TypeOK
<1>9. \A c \in Calls : /\ client[c].phase = "new" /\ client[c].attempt = 0
                       /\ \A n \in Attempts : answers[c][n] = Nothing
                       /\ \A e \in Evse : carried[c][e] = NotListed /\ told[c][e] = NotListed
                       /\ span[c].before = {}
  BY <1>1, <1>3
<1>10. PushesInTurn BY <1>9, CallsOfTheBoard DEF PushesInTurn, Started, Done
<1>11. AnswersAreAsked BY <1>9 DEF AnswersAreAsked
<1>12. PullsAreSpanned BY <1>9, CallsOfTheBoard DEF PullsAreSpanned, Waiting, Listed
<1>13. /\ \A c \in Pulls : ~Read(c)
       /\ NothingIsUnread /\ FilterIsRead
  BY <1>9, CallsOfTheBoard DEF NothingIsUnread, FilterIsRead, Read
<1>14. AnsweredIsTold BY <1>9, CallsOfTheBoard DEF AnsweredIsTold, Nothing
<1>15. ReadIsFresh BY <1>9, CallsOfTheBoard DEF ReadIsFresh
<1>16. ToldIsReal
  <2>1. \A e \in Evse : statuses[e] = 0 /\ Now(e) = 1 BY <1>1 DEF Now
  <2> QED BY <2>1 DEF ToldIsReal
<1> QED BY <1>8, <1>10, <1>11, <1>12, <1>13, <1>14, <1>15, <1>16 DEF BoardInv, FreshInv

LEMMA BoardKeeps ==
    ASSUME BoardInv, [Next]_vars
    PROVE  BoardInv' /\ (~Late /\ FreshInv => FreshInv')
<1>1. CASE UNCHANGED vars
  <2>1. UNCHANGED <<client, answers, real, live, statuses, moves, carried, question, told, span, served>>
    BY <1>1 DEF vars, clientVars, boardVars, pullVars
  <2>2. TypeOK' BY <2>1 DEF BoardInv, TypeOK, ClientTypeOK
  <2>3. PushesInTurn' BY <2>1 DEF BoardInv, PushesInTurn, Started, Done, Now
  <2>4. AnswersAreAsked' BY <2>1 DEF BoardInv, AnswersAreAsked, Sent, Started
  <2>5. PullsAreSpanned' BY <2>1 DEF BoardInv, PullsAreSpanned, Acknowledged, Waiting, Started, Listed
  <2>6. NothingIsUnread' /\ ToldIsReal' BY <2>1, UnreadStays DEF BoardInv, Read, ToldIsReal, Now
  <2>7. FilterIsRead => FilterIsRead' BY <2>1, FilterStays DEF Read
  <2>8. FreshInv => FreshInv' BY <2>1, <2>7 DEF FreshInv, AnsweredIsTold, ReadIsFresh, Listed
  <2> QED BY <2>2, <2>3, <2>4, <2>5, <2>6, <2>8 DEF BoardInv
<1>2. CASE \E e \in Evse, s \in Statuses : Change(e, s) BY <1>2, ChangeKeeps
<1>3. CASE \E e \in Evse : Publish(e) \/ Withdraw(e)
  <2>1. PICK points \in SUBSET Evse : MoveTo(points)
    <3>1. live \in SUBSET Evse BY DEF BoardInv, TypeOK
    <3> QED BY <1>3, <3>1 DEF Publish, Withdraw
  <2> QED BY <2>1, MoveKeeps
<1>4. CASE \E c \in Pushes, keys \in Batches : SendPush(c, keys) BY <1>4, SendPushKeeps
<1>5. CASE \E c \in Pulls, q \in Questions : SendPull(c, q) BY <1>5, SendPullKeeps
<1>6. CASE \E c \in Calls : SendAgain(c) \/ Hear(c) BY <1>6, SendAgainKeeps, HearKeeps
<1>7. CASE \E c \in Calls, n \in Attempts : ServePush(c, n) \/ ServePull(c, n)
  <2>1. ASSUME NEW c \in Calls, NEW n \in Attempts, ServePush(c, n)
        PROVE  BoardInv' /\ (~Late /\ FreshInv => FreshInv')
    <3>1. c \in Pushes BY <2>1 DEF ServePush
    <3> QED BY <2>1, <3>1, ServePushKeeps
  <2> QED BY <1>7, <2>1, ServePullKeeps
<1> QED BY <1>1, <1>2, <1>3, <1>4, <1>5, <1>6, <1>7 DEF Next

(* Pushes are made in turn, nothing is answered that was not asked, and what *)
(* was answered to the attempt a pull waits for is whole: mock.rs, client/   *)
(* cpo.rs and client/emp.rs over retry.rs's loop.                            *)
THEOREM BoardIsKept == Spec => []BoardInv
<1>1. Init => BoardInv BY BoardStarts
<1>2. BoardInv /\ [Next]_vars => BoardInv' BY BoardKeeps
<1> QED BY <1>1, <1>2, PTL DEF Spec

(* What the client, the broker and the wire hold is of its type.             *)
THEOREM BoardTypeCorrect == Spec => []TypeOK
<1>1. BoardInv => TypeOK BY DEF BoardInv
<1> QED BY <1>1, BoardIsKept, PTL

(* A pull by id that succeeded told of every id asked and of no other; one   *)
(* without a filter, or by operators, which this router does not tell from   *)
(* it, of every point that was published all the while and of none that      *)
(* never was; one by status only of points that had the status: the three    *)
(* pull_evse_status methods of client/emp.rs against the router of server.rs *)
(* and the status map of mock.rs.  No matter when requests arrive.           *)
THEOREM NothingIsLeftOut == Spec => []NothingIsOmitted
<1>1. BoardInv => NothingIsOmitted
  BY DEF BoardInv, NothingIsUnread, NothingIsOmitted, Answers, Read
<1> QED BY <1>1, BoardIsKept, PTL

(* Unless requests arrive after their attempt was given up, a status that    *)
(* was acknowledged is what the broker has and every later pull is told, or  *)
(* a newer one is, and a pull by status misses no point that has had it      *)
(* since: push_evse_status in mock.rs and post_raw in client/http.rs.        *)
THEOREM StatusesAreFresh ==
    ASSUME ~Late
    PROVE  Spec => []StatusIsFresh
<1>1. Init => BoardInv /\ FreshInv BY BoardStarts
<1>2. BoardInv /\ FreshInv /\ [Next]_vars => (BoardInv /\ FreshInv)' BY BoardKeeps
<1>3. BoardInv /\ FreshInv => StatusIsFresh
  <2> SUFFICES ASSUME BoardInv, FreshInv PROVE StatusIsFresh OBVIOUS
  <2>1. AcknowledgedIsTold
    <3> SUFFICES ASSUME NEW c \in Acknowledged, NEW e \in Evse PROVE statuses[e] >= carried[c][e]
      BY DEF AcknowledgedIsTold
    <3>1. c \in Pushes /\ c \in Calls /\ client[c].phase = "ok" BY CallsOfTheBoard DEF Acknowledged
    <3>2. \E n \in Attempts : answers[c][n].kind = "message" BY <3>1 DEF BoardInv, AnswersAreAsked
    <3> QED BY <3>1, <3>2 DEF FreshInv, AnsweredIsTold
  <2>2. ToldIsFresh BY DEF FreshInv, ReadIsFresh, ToldIsFresh, Answers
  <2>3. ToldByStatus BY DEF FreshInv, FilterIsRead, ToldByStatus, Answers, Read
  <2> QED BY <2>1, <2>2, <2>3 DEF StatusIsFresh
<1> QED BY <1>1, <1>2, <1>3, PTL DEF Spec
=============================================================================

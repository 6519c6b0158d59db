------------------------ MODULE CalculatorProperties ------------------------
(***************************************************************************)
(* What the calculators promise about the documents they write.            *)
(***************************************************************************)
EXTENDS Calculator

PointSet == [recipient : Holders, context : Contexts, value : Nat]

(* Every variable has its type; a cache refers to documents that exist.    *)
TypeOK ==
  /\ reading \in Readings
  /\ docs \in Seq(PointSet)
  /\ cache \in [Workers -> [Keys -> {Nothing} \cup [doc : DOMAIN docs, points : PointSet]]]
  /\ found \in [Workers -> {Nothing} \cup [doc : DOMAIN docs, points : PointSet]]
  /\ feed \in Feeds
  /\ position \in [Workers -> 0..Len(feed)]
  /\ stage \in [Workers -> {"idle", "get", "write", "failed", "down"}]
  /\ context \in [Workers -> Contexts]

DocsOf(h, x) == {d \in DOMAIN docs : docs[d].recipient = h /\ docs[d].context = x}

(* Calculators whose queries find nothing and who never lose a response    *)
(* know the content of every document they have written, whatever fails in *)
(* between and whatever the others write.                                  *)
CacheIsCurrent ==
  \A w \in Workers, h \in Holders, x \in Contexts :
    LET e == cache[w][<<h, x>>]
    IN  e # Nothing => e.points = docs[e.doc] /\ e.doc \in DocsOf(h, x)

(* Each keeps one document for a holder and context: several calculators   *)
(* that race between the query and the write make one each and never more, *)
(* also after calls that failed.                                           *)
OneDocumentPerWorker ==
  \A h \in Holders, x \in Contexts : Cardinality(DocsOf(h, x)) <= Cardinality(Workers)

(* The documents of holder h have the values of the claims data. *)
Settled(h, data) ==
  /\ \E d \in DocsOf(h, "unique-events") : docs[d].value = UniqueEvents(data)
  /\ \E d \in DocsOf(h, "all-events") : docs[d].value = AllEvents(data)
  /\ IsComplete(data) => DocsOf(h, "first-all-events") # {}

(* When a calculator is done with an attestation without an error, the     *)
(* documents of the holder are up to date, whatever failed for earlier     *)
(* attestations and left some of them written and others not.              *)
UpToDate ==
  [][\A w \in Workers :
       stage[w] \in {"get", "write"} /\ stage'[w] = "idle" =>
         Settled(Holder(w), Data(w))']_vars

(* Where queries find nothing, every value in a document was computed from *)
(* an attestation of its own holder for its own context, with several      *)
(* calculators, lost responses and new runs with an empty cache.           *)
ValuesAreEarned ==
  reading = "nothing" => \A d \in DOMAIN docs : \E i \in DOMAIN feed :
    /\ feed[i].holder = docs[d].recipient
    /\ feed[i].kind \in {"attestation", "time"}
    /\ docs[d].value = CASE docs[d].context = "unique-events" -> UniqueEvents(feed[i].data)
                         [] docs[d].context = "all-events" -> AllEvents(feed[i].data)
                         [] OTHER -> CompletedAt(feed[i].data)

(* Where queries find the documents of a holder, with or without those of  *)
(* others, calculators that race between the query and the create make at  *)
(* most one document each for a holder, whatever its context: crashes,     *)
(* restarts with an empty cache, new runs and lost responses make no more. *)
RacersMakeOneEach ==
  reading # "nothing" =>
    \A h \in Holders :
      Cardinality({d \in DOMAIN docs : docs[d].recipient = h}) <= Cardinality(Workers)

(* An update writes back a whole record, kept since a query that asked for *)
(* another recipient or context, or since a document was created: however  *)
(* old it is and whoever it belongs to, and with it the value of another   *)
(* holder may be written, the document keeps its recipient and context.    *)
DocumentsKeepTheirKey ==
  [][\A d \in DOMAIN docs :
       /\ docs'[d].recipient = docs[d].recipient
       /\ docs'[d].context = docs[d].context]_vars

(* Where queries find nothing, the time of first-all-events is written     *)
(* once: no calculator, old or new, ever changes such a document.          *)
FirstIsFinal ==
  [][\A d \in DOMAIN docs :
       reading = "nothing" /\ docs[d].context = "first-all-events" =>
         docs'[d] = docs[d]]_vars

(* A calculator of the checkpointer gets to the end of the feed, whatever  *)
(* events do not parse and whatever calls fail.                            *)
ReachesTheEnd ==
  \A w \in Workers \ Joiners : <>(position[w] = Len(feed) /\ stage[w] = "idle")

=============================================================================

------------------------ MODULE MaterializationCache ------------------------
(***************************************************************************)
(* The point documents on the Ceramic node and the caches in front of them *)
(* (calculator/src/materialization_cache.rs).                              *)
(*                                                                         *)
(* A document is a record of a recipient, a context and a value; it is     *)
(* known by its place in docs.  A worker is one Calculator value with a    *)
(* cache of its own, keyed by subject and context.                         *)
(*                                                                         *)
(* The query asks for the documents whose "subject" is the one wanted.     *)
(* The documents have a recipient and no subject, and the context is not   *)
(* part of the query.  How the node reads it is not decided by this        *)
(* repository: it takes the subject for the recipient, finds nothing, or   *)
(* ignores it and finds everyone's documents.  The caller never compares   *)
(* the recipient or the context of what it gets with what it asked for.    *)
(***************************************************************************)
EXTENDS Integers, Sequences

CONSTANTS
  Workers,   \* calculators
  Holders,   \* accounts that hold points
  Readings,  \* how the node may read "subject", see ReadingKinds
  Failures   \* what may go wrong, see FailureKinds

(* "query"     the query for documents fails                               *)
(* "write"     the node refuses to create or update a document             *)
(* "response"  it does so and the response is lost                         *)
(* "end"       the time of a run of the event joiner is up                 *)
(* "miss"      an event is emitted while a calculator has no connection    *)
(* "crash"     the process of the checkpointer dies                        *)
FailureKinds == {"query", "write", "response", "end", "miss", "crash"}

(* "recipient" the documents whose recipient is the subject                *)
(* "nothing"   no document                                                 *)
(* "anyone"    all documents                                               *)
ReadingKinds == {"recipient", "nothing", "anyone"}

ASSUME ReadingsAssumption == Readings \subseteq ReadingKinds
ASSUME FailuresAssumption == Failures \subseteq FailureKinds

VARIABLES
  reading,  \* how the node reads "subject"
  docs,     \* the documents, oldest first
  cache,    \* cache[w][<<h, x>>]: what w caches for subject h and context x
  found     \* found[w]: what get_points last returned to w

cacheVars == <<reading, docs, cache, found>>

Contexts == {"unique-events", "all-events", "first-all-events"}
Keys == Holders \X Contexts

Points(h, x, v) == [recipient |-> h, context |-> x, value |-> v]

(* ExistingPoints: a document and what the worker takes to be in it.       *)
Existing(d, p) == [doc |-> d, points |-> p]
Nothing == Existing(0, Points("nobody", "none", 0))
EmptyCache == [k \in Keys |-> Nothing]

CacheInit ==
  /\ reading \in Readings
  /\ docs = <<>>
  /\ cache = [w \in Workers |-> EmptyCache]
  /\ found = [w \in Workers |-> Nothing]

(* Mutant: the query asks for the context to be the subject. *)
EdgesOfNobody(h) == {d \in DOMAIN docs : docs[d].context = h}

(* What the query for subject h yields.  The caller takes the first edge;  *)
(* the order of the edges is up to the node.                               *)
Edges(h) ==
  {d \in DOMAIN docs :
     reading = "anyone" \/ (reading = "recipient" /\ docs[d].recipient = h)}

(* Mutant: what is found is labelled with the key that was asked for.      *)
GetPointsRelabelled(w, h, x) ==
  /\ UNCHANGED <<reading, docs>>
  /\ \/ /\ cache[w][<<h, x>>] # Nothing \/ Edges(h) = {}
        /\ found' = [found EXCEPT ![w] = cache[w][<<h, x>>]]
        /\ UNCHANGED cache
     \/ /\ cache[w][<<h, x>>] = Nothing
        /\ \E d \in Edges(h) :
             /\ found' = [found EXCEPT ![w] = Existing(d, Points(h, x, docs[d].value))]
             /\ cache' = [cache EXCEPT ![w][<<h, x>>] = found'[w]]

(* get_points: the cached entry, or the first document of the query, which *)
(* is then cached under the key that was asked for.                        *)
GetPoints(w, h, x) ==
  \/ /\ cache[w][<<h, x>>] # Nothing
     /\ found' = [found EXCEPT ![w] = cache[w][<<h, x>>]]
     /\ UNCHANGED <<reading, docs, cache>>
  \/ /\ cache[w][<<h, x>>] = Nothing
     /\ Edges(h) = {}
     /\ found' = [found EXCEPT ![w] = Nothing]
     /\ UNCHANGED <<reading, docs, cache>>
  \/ /\ cache[w][<<h, x>>] = Nothing
     /\ \E d \in Edges(h) :
          /\ found' = [found EXCEPT ![w] = Existing(d, docs[d])]
          /\ cache' = [cache EXCEPT ![w][<<h, x>>] = Existing(d, docs[d])]
     /\ UNCHANGED <<reading, docs>>

(* The query, or the conversion of any of its edges, fails. *)
GetPointsFails(w, h, x) ==
  /\ "query" \in Failures
  /\ cache[w][<<h, x>>] = Nothing
  /\ UNCHANGED cacheVars

(* Mutant: what was written is cached under the context of another.        *)
RememberElsewhere(w, d, p) ==
  cache' = [cache EXCEPT ![w][<<p.recipient, "first-all-events">>] = Existing(d, p)]

(* Mutant: what was written is not cached. *)
RememberNot(w, d, p) == UNCHANGED cache

(* A worker caches what it wrote under the recipient and the context of    *)
(* the document.                                                           *)
Remember(w, d, p) ==
  cache' = [cache EXCEPT ![w][<<p.recipient, p.context>>] = Existing(d, p)]

(* Mutant: documents are counted from zero. *)
NewDocFromZero == Len(docs)

NewDoc == Len(docs) + 1

(* create_points *)
CreatePoints(w, h, x, v) ==
  /\ docs' = Append(docs, Points(h, x, v))
  /\ Remember(w, NewDoc, Points(h, x, v))
  /\ UNCHANGED <<reading, found>>

(* update_points of what get_points found, with another value. *)
UpdatePoints(w, v) ==
  LET d == found[w].doc
      p == [found[w].points EXCEPT !.value = v]
  IN
  /\ docs' = [docs EXCEPT ![d] = p]
  /\ Remember(w, d, p)
  /\ UNCHANGED <<reading, found>>

(* The node refuses a write, or does it and the response is lost: in both  *)
(* cases the call fails and the cache stays as it was.                     *)
WriteFails(written) ==
  \/ "write" \in Failures /\ UNCHANGED docs
  \/ "response" \in Failures /\ docs' = written

=============================================================================

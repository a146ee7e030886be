---------------------------- MODULE EvidenceStore ----------------------------
(***************************************************************************)
(* rag/store.py and rag/engine.py: investigations that check a claim look  *)
(* into the evidence store, search the web where it has too little, and    *)
(* store what they find; administrators curate the sources.  One document  *)
(* and its source are followed.  An ingest reads them, then writes what it *)
(* made of them in one transaction; a row the session has loaded before is *)
(* not read from the database again.                                       *)
(*                                                                         *)
(* A document's content is named by a number; a chunk by the content it    *)
(* was cut from, the embedding model and the investigation that stored it. *)
(***************************************************************************)
EXTENDS Naturals, FiniteSets

CONSTANTS Checks,         \* claims being checked, each by its investigation
          Contents        \* what the page can say

ASSUME StoreAssumption == 0 \notin Contents

Models == {"hash", "learned"}

VARIABLES
  source,     \* the row: whether it exists, is curated, and whose rating it has
  document,   \* the content of the document's row, 0 before there is one
  chunks,
  model,      \* the embedding model configured now
  check,      \* of each claim: where it is, what it read, what it found
  inTurn       \* ingests and curations of this run do not overlap

storeVars == <<source, document, chunks, model, check, inTurn>>

NoSource == [known |-> FALSE, curated |-> FALSE, rating |-> "none"]
NoCheck == [at |-> "idle", live |-> "none", content |-> 0, source |-> NoSource,
            document |-> 0, chunks |-> {}, model |-> "hash"]

Chunks == [content : Contents, model : Models, by : Checks]
SourceRows == [known : BOOLEAN, curated : BOOLEAN, rating : {"none", "provider", "admin"}]

\* The shapes, and: a document has a source, and chunks of what it says now.
StoreTypeOK ==
  /\ source \in SourceRows /\ document \in Contents \cup {0}
  /\ chunks \subseteq Chunks /\ model \in Models /\ inTurn \in BOOLEAN
  /\ \A c \in Checks :
       /\ check[c].at \in {"idle", "search", "ingest", "found"}
       /\ check[c].live \in {"none", "not_needed", "unavailable", "failed", "used"}
       /\ check[c].source \in SourceRows /\ check[c].chunks \subseteq Chunks
  /\ document # 0 => source.known /\ \E k \in chunks : k.content = document
  /\ document = 0 => chunks = {}

\* inTurn says which runs are looked at: those whose ingests take turns, or all.
StoreStart(alone) ==
  /\ source = NoSource /\ document = 0 /\ chunks = {} /\ model = "hash"
  /\ check = [c \in Checks |-> NoCheck] /\ inTurn = alone

-----------------------------------------------------------------------------
Busy == \E c \in Checks : check[c].at \in {"search", "ingest"}
Become(c, record) == check' = [check EXCEPT ![c] = record]

\* _relevant of what the store holds for the configured model.
Local == {k \in chunks : k.model = model}

\* The store is searched; with enough in it nothing else is.  What was loaded
\* stays in the session.
SearchStore(c) ==
  /\ check[c].at = "idle"
  /\ \/ Local # {} /\ Become(c, [NoCheck EXCEPT !.at = "found", !.live = "not_needed"])
     \/ /\ inTurn => ~Busy
        /\ Become(c, [NoCheck EXCEPT !.at = "search", !.source = source, !.document = document])
  /\ UNCHANGED <<source, document, chunks, model, inTurn>>

\* No provider, or it fails: the claim is judged on what the store held.
SearchFails(c) ==
  /\ check[c].at = "search"
  /\ \E live \in {"unavailable", "failed"} :
       Become(c, [NoCheck EXCEPT !.at = "found", !.live = live])
  /\ UNCHANGED <<source, document, chunks, model, inTurn>>

\* It finds the page, or nothing of use.  An ingest reads the rows, unless the
\* session has them from the search, and the document's chunks.
SearchFinds(c) ==
  /\ check[c].at = "search"
  /\ \/ Become(c, [NoCheck EXCEPT !.at = "found", !.live = "used"])
     \/ \E content \in Contents, early \in IF check[c].document = 0 THEN {FALSE} ELSE BOOLEAN :
          Become(c, [at |-> "ingest", live |-> "used", content |-> content,
                     source |-> IF early THEN check[c].source ELSE source,
                     document |-> IF early THEN check[c].document ELSE document,
                     chunks |-> chunks, model |-> model])
  /\ UNCHANGED <<source, document, chunks, model, inTurn>>

-----------------------------------------------------------------------------
(* ingest, after its reads.                                                *)

\* upsert_source: a new source gets the provider's rating, a known one that was
\* not curated when it was read moves towards it.
Rated(seen) ==
  IF ~seen.known \/ ~seen.curated
  THEN [source EXCEPT !.known = TRUE, !.rating = "provider"]
  ELSE source

\* A row that was not there when it was read and is now breaks a unique key.
Conflict(q) == (~q.source.known /\ source.known) \/ (q.document = 0 /\ document # 0)

Unchanged(q) == q.document = q.content /\ \A k \in q.chunks : k.model = q.model

New(c) == [content |-> check[c].content, model |-> check[c].model, by |-> c]

\* Mutant of Replaced: the chunks of the old content stay.
ReplacedByAdding(c) == chunks \cup {New(c)}

\* The chunks that were read are replaced; others were not seen.
Replaced(c) == (chunks \ check[c].chunks) \cup {New(c)}

\* A column is written when it differs from what was read.
Document(q) == IF q.content = q.document THEN document ELSE q.content

\* The transaction: the document is touched, or replaced with its chunks.
Ingest(c) ==
  /\ check[c].at = "ingest" /\ ~Conflict(check[c])
  /\ source' = Rated(check[c].source)
  /\ IF Unchanged(check[c])
     THEN UNCHANGED <<document, chunks>>
     ELSE document' = Document(check[c]) /\ chunks' = Replaced(c)
  /\ Become(c, [NoCheck EXCEPT !.at = "found", !.live = "used"])
  /\ UNCHANGED <<model, inTurn>>

\* It fails, on a key or otherwise: rolled back, and the hit is skipped.
IngestFails(c) ==
  /\ check[c].at = "ingest"
  /\ Become(c, [NoCheck EXCEPT !.at = "found", !.live = "used"])
  /\ UNCHANGED <<source, document, chunks, model, inTurn>>

\* The claim is judged on what the store holds now.
Rate(c) ==
  /\ check[c].at = "found" /\ Become(c, NoCheck)
  /\ UNCHANGED <<source, document, chunks, model, inTurn>>

-----------------------------------------------------------------------------
\* PATCH /sources/{id}.
Curate ==
  /\ source.known /\ (inTurn => ~Busy)
  /\ source' = [source EXCEPT !.curated = TRUE, !.rating = "admin"]
  /\ UNCHANGED <<document, chunks, model, check, inTurn>>

\* A deployment with another embedding model; the processes are restarted.
ChangeModel ==
  /\ \A c \in Checks : check[c].at = "idle"
  /\ model' \in Models \ {model}
  /\ UNCHANGED <<source, document, chunks, check, inTurn>>

StoreNext ==
  \/ \E c \in Checks : SearchStore(c)
  \/ \E c \in Checks : SearchFails(c)
  \/ \E c \in Checks : SearchFinds(c)
  \/ \E c \in Checks : Ingest(c)
  \/ \E c \in Checks : IngestFails(c)
  \/ \E c \in Checks : Rate(c)
  \/ Curate \/ ChangeModel

StoreSpec == (\E alone \in BOOLEAN : StoreStart(alone)) /\ [][StoreNext]_storeVars

-----------------------------------------------------------------------------
(* Properties.                                                             *)

\* "When the same URL is fetched again with different content its chunks are
\* replaced": where ingests take turns nothing of an earlier content, or of an
\* earlier model, is left to be cited.
ChunksAreOfContent ==
  inTurn => /\ \A k \in chunks : k.content = document
           /\ Cardinality(chunks) <= 1

\* "A curated entry is not overwritten by later heuristics", where no ingest is
\* under way while an administrator curates.
CurationKept == inTurn /\ source.curated => source.rating = "admin"

\* The two of them, over the shapes of the variables.
StoreInvariant == StoreTypeOK /\ ChunksAreOfContent /\ CurationKept
==============================================================================

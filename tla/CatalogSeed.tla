----------------------------- MODULE CatalogSeed -----------------------------
(* The seeding of the catalogue (product-service/src/scripts/seed.ts): a    *)
(* job that writes its categories and products past the service and its     *)
(* outbox, and announces the products itself when all are stored.  It may   *)
(* fail or die anywhere and is run again, one run at a time, while editors  *)
(* work on the same rows.                                                   *)
EXTENDS Naturals, Sequences

CONSTANTS
  Seeds,       \* the sequence of products, [name, slug]
  OtherNames, OtherSlugs,  \* what editors call a product or a category
  MaxRuns,     \* bounds: runs of the job that make up for no failure,
  MaxFaults,   \* failures that are not of the editors' making,
  MaxEdits     \* and edits

\* What stands for a product that was deleted.
None == [name |-> "none", slug |-> "none"]

\* What is asked of the constants: a name and a slug are of a seed or of an
\* editor, and no category is called as what stands for a deletion.
SeedAssumption ==
  /\ Seeds \in Seq([name : STRING, slug : STRING])
  /\ \A i, j \in DOMAIN Seeds : Seeds[i].name = Seeds[j].name => i = j
  /\ \A i \in DOMAIN Seeds : Seeds[i].name \notin OtherNames /\ Seeds[i].slug \notin OtherSlugs
  /\ None.slug \notin OtherSlugs \cup {Seeds[i].slug : i \in DOMAIN Seeds}
  /\ {MaxRuns, MaxFaults, MaxEdits} \subseteq Nat

VARIABLES
  slugs,      \* the categories
  rows,       \* the products, by id; None after a deletion
  silent,     \* products whose last change no event tells of
  at,         \* where the job is: "off", or in one of its phases
  todo,       \* categories it has not yet stored
  known,      \* the ids it read, by name; 0 for none
  next,       \* the product it is at
  stored,     \* those it has stored
  ended,      \* how the last run ended
  calm,       \* no edit since it began
  runs, faults, edits

catalogue == <<slugs, rows, silent>>
run == <<at, todo, known, next, stored, ended, runs>>
vars == <<catalogue, run, calm, faults, edits>>

Live == {i \in DOMAIN rows : rows[i] # None}
SeedNames == {Seeds[i].name : i \in DOMAIN Seeds}
SeedSlugs == {Seeds[i].slug : i \in DOMAIN Seeds}
NothingKnown == [n \in SeedNames |-> 0]

Init ==
  /\ slugs = {} /\ rows = <<>> /\ silent = {}
  /\ at = "off" /\ todo = {} /\ known = NothingKnown /\ next = 1 /\ stored = {}
  /\ ended = "never" /\ calm = TRUE
  /\ runs = 0 /\ faults = 0 /\ edits = 0

Ends(how) == at' = "off" /\ ended' = how /\ UNCHANGED <<todo, known, next, stored, runs>>

-----------------------------------------------------------------------------
(* The job.                                                                 *)

Start ==
  /\ at = "off"
  /\ \/ ended = "failed" /\ UNCHANGED runs
     \/ ended # "failed" /\ runs < MaxRuns /\ runs' = runs + 1
  /\ at' = "categories" /\ todo' = SeedSlugs
  /\ known' = NothingKnown /\ next' = 1 /\ stored' = {} /\ calm' = TRUE
  /\ UNCHANGED <<catalogue, ended, faults, edits>>

(* The categories are stored in no particular order.                        *)
UpsertCategory(s) ==
  /\ at = "categories" /\ s \in todo
  /\ slugs' = slugs \cup {s} /\ todo' = todo \ {s}
  /\ at' = IF todo = {s} THEN "reading" ELSE at
  /\ UNCHANGED <<rows, silent, known, next, stored, ended, runs, calm, faults, edits>>

FindExisting ==
  \E ids \in [SeedNames -> Live \cup {0}] :
    /\ \A n \in SeedNames : LET found == {i \in Live : rows[i].name = n} IN
         IF found = {} THEN ids[n] = 0 ELSE ids[n] \in found
    /\ known' = ids

ReadExisting ==
  /\ at = "reading" /\ at' = "products"
  /\ FindExisting
  /\ UNCHANGED <<catalogue, todo, next, stored, ended, runs, calm, faults, edits>>

Write(id, row) == rows' = [i \in DOMAIN rows \cup {id} |-> IF i = id THEN row ELSE rows[i]]

Updated(seed, id) == seed

ToAnnounce(id) == stored \cup {id}

(* The product is updated if it was there when the job looked, unless it    *)
(* has gone since, and created if not.  A category that has gone fails it.  *)
StoreProduct ==
  LET seed == Seeds[next]
      id == IF known[seed.name] # 0 THEN known[seed.name] ELSE Len(rows) + 1
      gone == known[seed.name] # 0 /\ id \notin Live IN
  /\ at = "products"
  /\ \/ /\ gone \/ seed.slug \in slugs
        /\ IF gone
             THEN UNCHANGED <<rows, silent, stored>>
             ELSE /\ Write(id, IF id \in Live THEN Updated(seed, id) ELSE seed)
                  /\ silent' = silent \cup {id} /\ stored' = ToAnnounce(id)
        /\ next' = next + 1 /\ at' = IF next = Len(Seeds) THEN "publishing" ELSE at
        /\ UNCHANGED <<slugs, todo, known, ended, runs>>
     \/ ~gone /\ seed.slug \notin slugs /\ Ends("failed") /\ UNCHANGED catalogue
  /\ UNCHANGED <<calm, faults, edits>>

(* The brokers take the events of a batch one by one.                       *)
sendBatch(failing) ==
  \E taken \in SUBSET stored : (failing \/ taken = stored) /\ silent' = silent \ taken

(* The batch is sent, or some of it, or the brokers are not to be had: the  *)
(* job warns and is content.                                                *)
Publish ==
  /\ at = "publishing"
  /\ \/ sendBatch(FALSE) /\ Ends("published") /\ UNCHANGED faults
     \/ /\ faults < MaxFaults /\ faults' = faults + 1
        /\ sendBatch(TRUE) /\ Ends("unpublished")
  /\ UNCHANGED <<slugs, rows, calm, edits>>

(* The database fails a call, or the job dies, perhaps while it publishes.  *)
Fail ==
  /\ at # "off" /\ faults < MaxFaults /\ faults' = faults + 1
  /\ IF at = "publishing" THEN sendBatch(TRUE) ELSE UNCHANGED silent
  /\ Ends("failed")
  /\ UNCHANGED <<slugs, rows, calm, edits>>

-----------------------------------------------------------------------------
(* The editors, whose changes of products leave an event in the outbox.     *)

Edit == edits < MaxEdits /\ edits' = edits + 1 /\ calm' = FALSE /\ UNCHANGED <<run, faults>>

UpdateProduct(id) ==
  /\ id \in Live /\ Edit
  /\ \E n \in OtherNames \cup {rows[id].name}, s \in slugs : Write(id, [name |-> n, slug |-> s])
  /\ silent' = silent \ {id} /\ UNCHANGED slugs

DeleteProduct(id) ==
  /\ id \in Live /\ Edit
  /\ Write(id, None) /\ silent' = silent \ {id} /\ UNCHANGED slugs

RenameCategory(s) ==
  /\ s \in slugs /\ Edit
  /\ \E to \in OtherSlugs \ slugs :
       /\ slugs' = (slugs \ {s}) \cup {to}
       /\ rows' = [i \in DOMAIN rows |-> IF rows[i].slug = s THEN [rows[i] EXCEPT !.slug = to]
                                                             ELSE rows[i]]
  /\ UNCHANGED silent

DeleteCategory(s) ==
  /\ s \in slugs /\ (\A i \in Live : rows[i].slug # s) /\ Edit
  /\ slugs' = slugs \ {s} /\ UNCHANGED <<rows, silent>>

JobStep ==
  \/ \E s \in SeedSlugs : UpsertCategory(s)
  \/ ReadExisting \/ StoreProduct \/ Publish

Next ==
  \/ Start \/ JobStep \/ Fail
  \/ \E id \in Live : UpdateProduct(id) \/ DeleteProduct(id)
  \/ \E s \in slugs : RenameCategory(s) \/ DeleteCategory(s)

Spec == Init /\ [][Next]_vars

(* The job is restarted on failure.                                         *)
HasFailed == ended = "failed"
StartAgain == HasFailed /\ Start

-----------------------------------------------------------------------------
(* Every variable has its type, and every product its category.             *)
TypeOK ==
  /\ slugs \subseteq SeedSlugs \cup OtherSlugs
  /\ \A i \in Live : rows[i].name \in SeedNames \cup OtherNames /\ rows[i].slug \in slugs
  /\ silent \cup stored \subseteq DOMAIN rows
  /\ at \in {"off", "categories", "reading", "products", "publishing"}
  /\ todo \subseteq SeedSlugs /\ known \in [SeedNames -> DOMAIN rows \cup {0}]
  /\ next \in 1 .. Len(Seeds) + 1
  /\ ended \in {"never", "published", "unpublished", "failed"}
  /\ calm \in BOOLEAN /\ runs \in 0 .. MaxRuns /\ faults \in 0 .. MaxFaults /\ edits \in 0 .. MaxEdits

(* However often the job fails, dies and is run again, and whatever became  *)
(* of the rows in between: it stores a product once.                        *)
OneProductPerName ==
  \A n \in SeedNames : \A i, j \in Live : rows[i].name = n /\ rows[j].name = n => i = j

(* "Products exist in Postgres; rerun the seed after Kafka is healthy if    *)
(* you need catalog replay": a run that has published leaves no product of  *)
(* any run unannounced.                                                     *)
ReplayIsComplete == at = "off" /\ ended = "published" => silent = {}

(* A run that failed half way is completed by those after it.               *)
Completed == ended \in {"published", "unpublished"}
=============================================================================

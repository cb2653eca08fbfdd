-------------------------------- MODULE Bucket --------------------------------
(***************************************************************************)
(* The object store that holds every uploaded file, and the way a file     *)
(* leaves it (storage-files.service.ts).  The database does not know what  *)
(* is in the bucket: a row points at a key, several rows may point at the  *)
(* same one, and a delete path hands over the keys its rows pointed at     *)
(* once its transaction has committed.  What is left is asked for and      *)
(* removed in two further calls, and anything may happen in between.       *)
(*                                                                         *)
(* Whoever uses this module owns the rows and passes the keys they point   *)
(* at as `refs`.                                                           *)
(***************************************************************************)
EXTENDS FiniteSets

CONSTANTS
  Keys,       \* object keys; an upload always mints a new one
  Workers,    \* whoever can be removing files
  Faults,     \* subset of {"crash", "storage", "check"}: what may go wrong
  None        \* no key, no order, no plate, ...

VARIABLES
  bucket,     \* the objects that exist
  minted,     \* the keys ever uploaded
  armed,      \* armed.delete: STORAGE_DELETE_ENABLED; armed.sweep: PURGE_ENABLED
  cleanup,    \* cleanup[w]: what w still has to do to the bucket
  owed,       \* history: the keys whose bytes a delete path has promised to remove
  spilled     \* history: the keys given up on: in the log, or replaced by an edit

bucketVars == <<bucket, minted, armed, cleanup, owed, spilled>>

Clean == [at |-> "none", keys |-> {}]

\* Nothing is being removed yet.
BucketInit ==
  /\ owed = {} /\ spilled = {}
  /\ cleanup = [w \in Workers |-> Clean]

\* uploadFile: a fresh name, and no row points at it yet.
Upload(k) ==
  /\ k \notin minted
  /\ bucket' = bucket \cup {k} /\ minted' = minted \cup {k}
  /\ UNCHANGED <<armed, cleanup, owed, spilled>>

\* removeUnreferenced, called by w with `keys` after the commit of a
\* transaction whose rows let go of `gone`.
HandOver(w, keys, gone) ==
  /\ cleanup' = [cleanup EXCEPT ![w] = [at |-> "check", keys |-> keys \ {None}]]
  /\ owed' = owed \cup (gone \ {None})
  /\ UNCHANGED <<bucket, minted, armed, spilled>>

\* Mutant: every key is taken for unreferenced.
AssumeUnreferenced(w, refs) ==
  /\ cleanup[w].at = "check"
  /\ cleanup' = [cleanup EXCEPT ![w].at = "remove"]
  /\ UNCHANGED <<bucket, minted, armed, owed, spilled>>

\* unreferencedKeys: the keys no row of any table points at now.
CheckReferences(w, refs) ==
  /\ cleanup[w].at = "check"
  /\ cleanup' = [cleanup EXCEPT ![w] = [at |-> "remove", keys |-> @.keys \ refs]]
  /\ UNCHANGED <<bucket, minted, armed, owed, spilled>>

\* The query fails: nothing is removed, and the keys are logged.
CheckFails(w) ==
  /\ "check" \in Faults /\ cleanup[w].at = "check"
  /\ cleanup' = [cleanup EXCEPT ![w] = Clean]
  /\ spilled' = spilled \cup cleanup[w].keys
  /\ UNCHANGED <<bucket, minted, armed, owed>>

\* removeObjects: for real, or as a dry run.
RemoveObjects(w) ==
  /\ cleanup[w].at = "remove"
  /\ cleanup' = [cleanup EXCEPT ![w] = Clean]
  /\ bucket' = IF armed.delete THEN bucket \ cleanup[w].keys ELSE bucket
  /\ UNCHANGED <<minted, armed, owed, spilled>>

\* The storage service refuses: the bytes stay and the keys are logged.
RemoveFails(w) ==
  /\ "storage" \in Faults /\ armed.delete /\ cleanup[w].at = "remove"
  /\ cleanup' = [cleanup EXCEPT ![w] = Clean]
  /\ spilled' = spilled \cup cleanup[w].keys
  /\ UNCHANGED <<bucket, minted, armed, owed>>

BucketStep(w, refs) ==
  CheckReferences(w, refs) \/ CheckFails(w) \/ RemoveObjects(w) \/ RemoveFails(w)

\* A row is edited to point elsewhere: nobody asks whether its old key is
\* still needed.
Forget(keys) ==
  /\ spilled' = spilled \cup (keys \ {None})
  /\ UNCHANGED <<bucket, minted, armed, cleanup, owed>>

\* The server goes down: whatever was still to be removed never is.
BucketCrash ==
  /\ cleanup' = [w \in Workers |-> Clean]
  /\ spilled' = spilled \cup UNION {cleanup[w].keys : w \in Workers}
  /\ UNCHANGED <<bucket, minted, armed, owed>>

----------------------------------------------------------------------------
\* Every key a row points at is in the bucket.
AllStored(refs) == refs \ {None} \subseteq bucket

\* Bytes that were to be removed and are still there are still pointed at,
\* about to be removed, or knowingly given up.
NothingForgotten(refs) ==
  owed \cap bucket \subseteq refs \cup spilled \cup UNION {cleanup[w].keys : w \in Workers}
=============================================================================

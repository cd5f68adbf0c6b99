---------------------------- MODULE SearchIndex -----------------------------
(***************************************************************************)
(* SearchService: the Lucene index of the pages.  Whoever writes to the    *)
(* index holds its write lock; a call that cannot have the lock, or fails  *)
(* otherwise, throws SearchException unless the ignoreSearchIndexErrors    *)
(* setting is on, in which case it has no effect and says nothing.         *)
(*                                                                         *)
(* Add and Delete open and close the index in one call, one step here;     *)
(* only CreateIndex keeps the lock from one step to another.  Nothing      *)
(* makes a page's document unique.                                         *)
(***************************************************************************)
EXTENDS PageCaches

CONSTANTS
    SearchMayFail,           \* can Lucene fail (a broken index, a full disk)?
    IgnoreSearchIndexErrors  \* the ignoreSearchIndexErrors setting

ASSUME SearchAssumption ==
    /\ SearchMayFail \in BOOLEAN
    /\ IgnoreSearchIndexErrors \in BOOLEAN

VARIABLES
    documents,  \* the documents of each page id, oldest first
    indexLock   \* is CreateIndex's IndexWriter open?

index == <<documents, indexLock>>

IndexTypeOK ==
    /\ documents \in [PageIds -> Seq(View)]
    /\ indexLock \in BOOLEAN

(* The index a site starts with holds what CreateIndex would put there. *)
IndexInit ==
    /\ documents = [p \in PageIds |->
                      IF p \in DOMAIN Seed
                      THEN <<[page |-> Seed[p].page, text |-> Seed[p].text,
                              version |-> 1]>>
                      ELSE <<>>]
    /\ indexLock = FALSE

IndexAdd(view) ==
    /\ ~indexLock
    /\ documents' = [documents EXCEPT ![view.page.id] = Append(@, view)]
    /\ UNCHANGED indexLock

(* A slip: the term does not match the document. *)
IndexDeleteNothing(p) == ~indexLock /\ UNCHANGED index

(* Documents are found by page id: all of a page's documents go. *)
IndexDelete(p) ==
    /\ ~indexLock
    /\ documents' = [documents EXCEPT ![p] = <<>>]
    /\ UNCHANGED indexLock

(* An IndexWriter opened with create = true: the documents it was given    *)
(* replace all others when it is closed.                                   *)
IndexOpen ==
    /\ ~indexLock
    /\ indexLock' = TRUE
    /\ UNCHANGED documents

IndexReplace(views) ==
    /\ documents' = [p \in PageIds |->
                       IF \E v \in views : v.page.id = p
                       THEN <<CHOOSE v \in views : v.page.id = p>>
                       ELSE <<>>]
    /\ indexLock' = FALSE

IndexAbandon ==
    /\ SearchMayFail
    /\ indexLock' = FALSE
    /\ UNCHANGED documents

(* A call that fails has no effect; the setting says who gets to know.     *)
IndexFails == (SearchMayFail \/ indexLock) /\ UNCHANGED index

IndexThrows == ~IgnoreSearchIndexErrors /\ IndexFails

IndexIgnoresError == IgnoreSearchIndexErrors /\ IndexFails

=============================================================================

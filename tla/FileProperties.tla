--------------------------- MODULE FileProperties ---------------------------
(***************************************************************************)
(* What the file manager is expected to do.                                *)
(***************************************************************************)
EXTENDS FileManager

AtRest(w) == CallsOf(w) = {} /\ ~win[w].failed

Chain(path) == [i \in 1..(Len(path) + 1) |-> SubSeq(path, 1, i - 1)]

(* A user who waits for the answers finds the trail leading, folder by     *)
(* folder, to the folder the table shows, which is also the one that       *)
(* uploads go to.  This is what the path of a file that is deleted, or     *)
(* picked for a page, is made from: the table itself does not say which    *)
(* folder its files are in.  Creating a folder takes the last crumb off    *)
(* until the answer comes, and the dialog to delete one stays open while   *)
(* other windows change the disk.                                          *)
TrailLeadsToTable ==
    \A w \in Patient :
       AtRest(w) => /\ win[w].crumbs = Chain(win[w].dir)
                    /\ win[w].destination = win[w].dir

(* The table of such a user shows what is in the folder, unless somebody   *)
(* else has changed the disk since: every change of the user's own is      *)
(* followed by a listing that sees it, or by the removal of the row.  The  *)
(* exception ("fresh") is the user's own as well: of the two listings that *)
(* dropping a file causes, the one that was read before the file was saved *)
(* may be shown last, and stays.                                           *)
TableIsCurrent ==
    \A w \in Patient :
       AtRest(w) /\ win[w].fresh => win[w].rows = Listing(win[w].dir)

(* No file disappears but by a call to delete a file of that name in that  *)
(* folder: deleting a folder takes no file with it, also when the file is  *)
(* uploaded after the folder was found empty.                              *)
FilesAreDeletedByName ==
    [][\A f \in files :
         \/ \E g \in files' : g.dir = f.dir /\ g.name = f.name
         \/ \E c \in calls : /\ DeleteFileCall(c)
                             /\ c.path = f.dir /\ c.name = f.name]_vars

=============================================================================

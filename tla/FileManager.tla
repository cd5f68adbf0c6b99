----------------------------- MODULE FileManager -----------------------------
(***************************************************************************)
(* The file manager: the script of its page in several browser windows     *)
(* (Scripts/roadkill/filemanager), and the controller that answers them.   *)
(*                                                                         *)
(* A window keeps its state in the document: the trail of breadcrumbs, the *)
(* table of the last folder it was sent, and the hidden field              *)
(* destination_folder.  Every call goes to the server by itself; the       *)
(* server works on several at once, and the answers arrive in any order,   *)
(* or not at all.  Nothing in the window waits for them: the handler of an *)
(* answer changes the document as it finds it then.                        *)
(*                                                                         *)
(* A user who is patient acts only when all answers have come.  Selecting  *)
(* a row and pressing delete are one step, and so are asking for the row   *)
(* of a new folder and typing its name: neither the selection nor that row *)
(* outlives its table, and both can be had at any time.  That a click on   *)
(* one of two crumbs of the same path is handled twice, the pictures and   *)
(* the progress bar are left out.                                          *)
(***************************************************************************)
EXTENDS AttachmentFolder, FiniteSets

CONSTANTS
    Windows,       \* browser windows, of administrators
    Patient,       \* those whose user waits for the answers
    MaxActs,       \* how many calls the user of each window causes (a bound)
    Unreliable     \* the windows whose calls, or the answers to them, may be lost

ASSUME FileManagerAssumption ==
    /\ Patient \subseteq Windows /\ "left" \notin Windows
    /\ MaxActs \in [Windows -> Nat]
    /\ Unreliable \subseteq Windows

VARIABLES
    win,    \* the windows
    calls,  \* the calls whose answers have not been handled yet
    acts    \* the number of calls the user of each window has caused

vars == <<disk, win, calls, acts>>

NoRow == [type |-> "none", path |-> Root, name |-> "none"]

FolderRow(path) == [type |-> "folder", path |-> path, name |-> "none"]
FileRow(name) == [type |-> "file", path |-> Root, name |-> name]

Rows == {NoRow} \cup {FolderRow(p) : p \in Paths}
          \cup {FileRow(f) : f \in FileNames}

UrlPaths == Paths \cup {NullPath}

(* What the user is asked to confirm: the deletion of a row, which is      *)
(* "here" as long as the table it was picked from is.                      *)
Dialog == [row : Rows, path : UrlPaths, here : BOOLEAN]
NoDialog == [row |-> NoRow, path |-> Root, here |-> FALSE]

(* In no document: whether a call of the window has failed ("failed"), and *)
(* whether the table is as good as the window can know ("fresh"): nobody   *)
(* else has changed the disk since its folder was read, and the user's own *)
(* changes came after it was shown.                                        *)
Window ==
    [crumbs : Seq(UrlPaths), table : BOOLEAN, dir : UrlPaths, rows : SUBSET Rows,
     destination : UrlPaths, dialog : Dialog, failed : BOOLEAN, fresh : BOOLEAN]

Operations == {"folderinfo", "deletefile", "deletefolder", "newfolder", "upload"}

(* "named": does the call name a folder?  "addBreadCrumb": will the answer *)
(* add it to the trail?  A call whose window has left the page goes on;    *)
(* "n" tells the calls of a window apart.                                  *)
Call ==
    [n : Nat, w : Windows \cup {"left"}, op : Operations, path : UrlPaths,
     named : BOOLEAN, name : FolderNames \cup FileNames \cup {"none"},
     body : Bodies, addBreadCrumb : BOOLEAN, here : BOOLEAN,
     stage : {"sent", "checked", "ok", "error", "failed"},
     rows : SUBSET Rows, fresh : BOOLEAN]

TypeOK ==
    /\ DiskTypeOK
    /\ win \in [Windows -> Window]
    /\ calls \subseteq Call
    /\ acts \in [Windows -> Nat]

-----------------------------------------------------------------------------
(* Calls. *)

CallsOf(w) == {c \in calls : c.w = w}

FreeNumber(S) == CHOOSE n \in 1..(Cardinality(S) + 1) : \A c \in S : c.n # n

Blank(w) ==
    [n |-> 1, w |-> w, op |-> "folderinfo", path |-> Root, named |-> TRUE,
     name |-> "none", body |-> CHOOSE b \in Bodies : TRUE, addBreadCrumb |-> FALSE,
     here |-> FALSE, stage |-> "sent", rows |-> {}, fresh |-> FALSE]

(* Setup.configure asks for the attachments folder. *)
FirstCall(w) == [Blank(w) EXCEPT !.addBreadCrumb = TRUE]

NewCall(w, op, path) ==
    [Blank(w) EXCEPT !.op = op, !.path = path, !.n = FreeNumber(CallsOf(w))]

(* The last item of the trail, which is where the script takes itself to   *)
(* be.  An empty trail has none; the server takes that for the attachments *)
(* folder.                                                                 *)
CurrentPath(crumbs) == IF crumbs = <<>> THEN Root ELSE Last(crumbs)

(* TableEvents.update *)
Update(w, path, addBreadCrumb) ==
    [NewCall(w, "folderinfo", path) EXCEPT !.addBreadCrumb = addBreadCrumb]

UpdateCurrent(w, addBreadCrumb) ==
    [Update(w, CurrentPath(win[w].crumbs), addBreadCrumb) EXCEPT
        !.named = win[w].crumbs # <<>>]

Send(c) == calls' = calls \cup {c}

(* The handler of the answer c sends d. *)
Follow(c, d) == calls' = (calls \ {c}) \cup {d}

Forget(c) == calls' = calls \ {c}

Become(w, window) == win' = [win EXCEPT ![w] = window]

Loading ==
    [crumbs |-> <<>>, table |-> FALSE, dir |-> Root, rows |-> {},
     destination |-> Root, dialog |-> NoDialog, failed |-> FALSE, fresh |-> FALSE]

Init ==
    /\ DiskInit
    /\ win = [w \in Windows |-> Loading]
    /\ acts = [w \in Windows |-> 0]
    /\ calls = {FirstCall(w) : w \in Windows}

-----------------------------------------------------------------------------
(* The server. *)

Answer(c, stage) == Follow(c, [c EXCEPT !.stage = stage])

(* FileException comes back as an answer, other exceptions as an error 500. *)
Refuse(c, stage) == Answer(c, stage) /\ UNCHANGED <<disk, win>>

(* The disk has changed: what other windows show is not fresh now, nor is  *)
(* any listing that is on its way.                                         *)
Change(c) ==
    /\ win' = [w \in Windows |->
                 IF w = c.w THEN win[w] ELSE [win[w] EXCEPT !.fresh = FALSE]]
    /\ calls' = {[d EXCEPT !.fresh = FALSE,
                           !.stage = IF d = c THEN "ok" ELSE @] : d \in calls}

Listing(dir) == {FolderRow(p) : p \in ChildFolders(dir)}
                  \cup {FileRow(f.name) : f \in FilesIn(dir)}

(* Asked for no folder, FolderInfo lists the attachments folder, without   *)
(* its path; and it fails on the first file it comes to.                   *)
FolderInfo(c) ==
    /\ c.op = "folderinfo" /\ c.stage = "sent"
    /\ IF IsAttachmentPathValid(c.path) /\ (c.named \/ FilesIn(Root) = {})
       THEN Follow(c, [c EXCEPT !.stage = "ok", !.rows = Listing(c.path),
                                !.fresh = TRUE,
                                !.path = IF c.named THEN @ ELSE NullPath])
       ELSE Answer(c, "failed")
    /\ UNCHANGED <<disk, win, acts>>

DeleteFileCall(c) ==
    /\ c.op = "deletefile" /\ c.stage = "sent"
    /\ IF IsAttachmentPathValid(c.path)
       THEN DeleteFile(c.path, c.name) /\ Change(c)
       ELSE Refuse(c, "failed")
    /\ UNCHANGED acts

DeleteFolderCheck(c) ==
    /\ c.op = "deletefolder" /\ c.stage = "sent"
    /\ Refuse(c, IF c.path \in folders /\ IsEmpty(c.path) THEN "checked" ELSE "error")
    /\ UNCHANGED acts

(* A slip: the folder goes with what is in it by now. *)
DeleteFolderRemoveTree(c) ==
    /\ c.op = "deletefolder" /\ c.stage = "checked"
    /\ RemoveTree(c.path) /\ Change(c)
    /\ UNCHANGED acts

(* DirectoryInfo.Delete refuses a folder that is not empty by now.  The    *)
(* message of this FileException has one argument too few: making it fails *)
(* in turn.                                                                *)
DeleteFolderRemove(c) ==
    /\ c.op = "deletefolder" /\ c.stage = "checked"
    /\ IF c.path \in folders /\ IsEmpty(c.path)
       THEN RemoveFolder(c.path) /\ Change(c)
       ELSE Refuse(c, "failed")
    /\ UNCHANGED acts

NewFolderCheck(c) ==
    /\ c.op = "newfolder" /\ c.stage = "sent"
    /\ Refuse(c, IF ~IsAttachmentPathValid(c.path) THEN "failed"
                 ELSE IF Append(c.path, c.name) \in folders THEN "error" ELSE "checked")
    /\ UNCHANGED acts

(* A slip: the name is added to a path that has it already. *)
NewFolderCreateInside(c) ==
    /\ c.op = "newfolder" /\ c.stage = "checked"
    /\ CreateDirectory(c.path \o <<c.name, c.name>>)
    /\ Change(c)
    /\ UNCHANGED acts

NewFolderCreate(c) ==
    /\ c.op = "newfolder" /\ c.stage = "checked"
    /\ CreateDirectory(Append(c.path, c.name))
    /\ Change(c)
    /\ UNCHANGED acts

UploadCheck(c) ==
    /\ c.op = "upload" /\ c.stage = "sent"
    /\ LET exists == ~OverwriteExistingFiles /\ FileExists(c.path, c.name)
       IN Refuse(c, IF ~IsAttachmentPathValid(c.path) THEN "failed"
                    ELSE IF c.name \notin AllowedFiles \/ exists THEN "error" ELSE "checked")
    /\ UNCHANGED acts

UploadSave(c) ==
    /\ c.op = "upload" /\ c.stage = "checked"
    /\ IF c.path \in folders
       THEN SaveAs(c.path, c.name, c.body) /\ Change(c)
       ELSE Refuse(c, "error")
    /\ UNCHANGED acts

(* The call does not reach the server, the process stops on it, or its     *)
(* answer does not come back.                                              *)
Lose(c) ==
    /\ c.w \in Unreliable
    /\ c.stage # "failed"
    /\ Refuse(c, "failed")
    /\ UNCHANGED acts

Server(c) ==
    \/ FolderInfo(c) \/ DeleteFileCall(c)
    \/ DeleteFolderCheck(c) \/ DeleteFolderRemove(c)
    \/ NewFolderCheck(c) \/ NewFolderCreate(c)
    \/ UploadCheck(c) \/ UploadSave(c)
    \/ Lose(c)

-----------------------------------------------------------------------------
(* The handlers of the answers. *)

(* What was picked from the old table is in no table any more. *)
Rendered(window, c) ==
    LET trail == IF c.addBreadCrumb THEN Append(window.crumbs, c.path)
                 ELSE window.crumbs
    IN [window EXCEPT !.crumbs = trail, !.destination = CurrentPath(trail),
                      !.table = TRUE, !.dir = c.path, !.rows = c.rows,
                      !.fresh = c.fresh, !.dialog.here = FALSE]

OnFolderInfo(c) ==
    /\ c.op = "folderinfo" /\ c.stage = "ok"
    /\ Become(c.w, Rendered(win[c.w], c))
    /\ calls' = {[d EXCEPT !.here = @ /\ d.w # c.w] : d \in calls \ {c}}

(* The row is removed, if it is in the table still. *)
OnFileDeleted(c) ==
    /\ c.op = "deletefile" /\ c.stage = "ok" /\ c.w \in Windows
    /\ Become(c.w, [win[c.w] EXCEPT
                      !.rows = IF c.here THEN @ \ {FileRow(c.name)} ELSE @])
    /\ Forget(c)

OnFolderDeleted(c) ==
    /\ c.op = "deletefolder" /\ c.stage = "ok" /\ c.w \in Windows
    /\ Follow(c, UpdateCurrent(c.w, FALSE))
    /\ UNCHANGED win

(* A slip: the folder's crumb stays, and the answer adds it once more. *)
OnFolderCreatedKeepCrumb(c) ==
    /\ c.op = "newfolder" /\ c.stage = "ok" /\ c.w \in Windows
    /\ Follow(c, UpdateCurrent(c.w, TRUE))
    /\ UNCHANGED win

(* The last item is taken off the trail at once, for the answer to put it  *)
(* back.                                                                   *)
OnFolderCreated(c) ==
    /\ c.op = "newfolder" /\ c.stage = "ok" /\ c.w \in Windows
    /\ Follow(c, UpdateCurrent(c.w, TRUE))
    /\ Become(c.w, [win[c.w] EXCEPT !.crumbs = IF @ = <<>> THEN @ ELSE Front(@)])

(* A slip: the folder is not listed again. *)
OnUploadedDoNothing(c) ==
    /\ c.op = "upload" /\ c.stage = "ok" /\ c.w \in Windows
    /\ Forget(c)
    /\ UNCHANGED win

OnUploaded(c) ==
    /\ c.op = "upload" /\ c.stage = "ok" /\ c.w \in Windows
    /\ Follow(c, UpdateCurrent(c.w, FALSE))
    /\ UNCHANGED win

(* A message is shown, if at all. *)
OnError(c) ==
    /\ c.stage \in {"error", "failed"} /\ c.w \in Windows
    /\ Become(c.w, [win[c.w] EXCEPT !.failed = @ \/ c.stage = "failed"])
    /\ Forget(c)

OnNobody(c) ==
    /\ c.stage \in {"ok", "error", "failed"} /\ c.w \notin Windows
    /\ Forget(c)
    /\ UNCHANGED win

Handle(c) ==
    /\ \/ OnFolderInfo(c) \/ OnFileDeleted(c) \/ OnFolderDeleted(c)
       \/ OnFolderCreated(c) \/ OnUploaded(c) \/ OnError(c) \/ OnNobody(c)
    /\ UNCHANGED <<disk, acts>>

-----------------------------------------------------------------------------
(* The user.  While a dialog is open nothing else can be clicked. *)

MayAct(w) ==
    /\ win[w].dialog = NoDialog
    /\ w \in Patient => CallsOf(w) = {}
    /\ UNCHANGED disk

Causes(w) == acts[w] < MaxActs[w] /\ acts' = [acts EXCEPT ![w] = @ + 1]

Quietly == UNCHANGED <<calls, acts>>

OpenFolder(w) ==
    /\ MayAct(w) /\ Causes(w)
    /\ \E row \in win[w].rows :
         /\ row.type = "folder"
         /\ Send(Update(w, row.path, TRUE))
    /\ UNCHANGED win

ClickCrumb(w) ==
    /\ MayAct(w) /\ Causes(w)
    /\ \E i \in DOMAIN win[w].crumbs :
         /\ Become(w, [win[w] EXCEPT !.crumbs = SubSeq(@, 1, i)])
         /\ Send(Update(w, win[w].crumbs[i], FALSE))

(* Without a table there is nowhere to type the name in. *)
AddNewFolder(w) ==
    /\ MayAct(w) /\ Causes(w)
    /\ win[w].table
    /\ LET path == CurrentPath(win[w].crumbs)
       IN /\ Len(path) < MaxDepth
          /\ \E name \in FolderNames :
               Send([NewCall(w, "newfolder", path) EXCEPT !.name = name])
    /\ UNCHANGED win

(* A file is looked for in the folder of the last crumb, a folder under    *)
(* the path of its row.                                                    *)
AskToDelete(w) ==
    /\ MayAct(w)
    /\ \E row \in win[w].rows :
         Become(w, [win[w] EXCEPT !.dialog =
                      [row |-> row, here |-> TRUE,
                       path |-> IF row.type = "folder" THEN row.path
                                ELSE CurrentPath(win[w].crumbs)]])
    /\ Quietly

CloseDialog(w) == Become(w, [win[w] EXCEPT !.dialog = NoDialog])

ConfirmDelete(w) ==
    /\ win[w].dialog # NoDialog
    /\ LET dialog == win[w].dialog
           op == IF dialog.row.type = "folder" THEN "deletefolder" ELSE "deletefile"
       IN Send([NewCall(w, op, dialog.path) EXCEPT !.name = dialog.row.name,
                                                   !.here = dialog.here])
    /\ CloseDialog(w) /\ Causes(w)
    /\ UNCHANGED disk

DismissDialog(w) ==
    /\ win[w].dialog # NoDialog
    /\ CloseDialog(w)
    /\ Quietly
    /\ UNCHANGED disk

UploadCall(w, name, body) ==
    [NewCall(w, "upload", win[w].destination) EXCEPT !.name = name, !.body = body]

UploadCalls(w) == {UploadCall(w, name, body) : name \in FileNames, body \in Bodies}

UploadFile(w) ==
    /\ MayAct(w) /\ Causes(w)
    /\ \E c \in UploadCalls(w) : Send(c)
    /\ UNCHANGED win

(* A file dropped on the table causes two calls at once: the folder is     *)
(* asked for before the file is sent.  Its answer may come after that to   *)
(* the listing that follows the upload.                                    *)
DropFile(w) ==
    /\ MayAct(w) /\ Causes(w)
    /\ \E c \in UploadCalls(w) :
         LET listing == UpdateCurrent(w, FALSE)
         IN calls' = calls \cup
              {listing, [c EXCEPT !.n = FreeNumber(CallsOf(w) \cup {listing})]}
    /\ UNCHANGED win

(* The user reloads the page, or the script does when the answer is the    *)
(* login page.  What was sent is carried out all the same.                 *)
Reload(w) ==
    /\ Causes(w)
    /\ LET left == {c \in CallsOf(w) : c.op # "folderinfo"}
       IN calls' = (calls \ CallsOf(w)) \cup {[c EXCEPT !.w = "left"] : c \in left}
                     \cup {FirstCall(w)}
    /\ Become(w, Loading)
    /\ UNCHANGED disk

User(w) ==
    \/ OpenFolder(w) \/ ClickCrumb(w) \/ AddNewFolder(w)
    \/ AskToDelete(w) \/ ConfirmDelete(w) \/ DismissDialog(w)
    \/ UploadFile(w) \/ DropFile(w) \/ Reload(w)

Finished == acts = MaxActs /\ calls = {} /\ UNCHANGED vars

Next ==
    \/ \E c \in calls : Server(c) \/ Handle(c)
    \/ \E w \in Windows : User(w)
    \/ Finished

Spec == Init /\ [][Next]_vars

=============================================================================

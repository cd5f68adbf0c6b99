-------------------------- MODULE AttachmentFolder --------------------------
(***************************************************************************)
(* The attachments folder on the server's disk, and what LocalFileService  *)
(* does to it for FileManagerController.  A check (Directory.Exists,       *)
(* File.Exists, an empty listing) and the change it allows are two calls   *)
(* on the file system, and other requests may come between them.           *)
(*                                                                         *)
(* A path is the sequence of the names on it; the attachments folder       *)
(* itself is the empty sequence, and is always there.  File names are up   *)
(* to letter case, and no folder has the name of a file.  The installer's  *)
(* own files, which are never listed, are left out.                        *)
(***************************************************************************)
EXTENDS Integers, Sequences, SequencesExt

CONSTANTS
    FolderNames,            \* names of folders
    FileNames,              \* names of files
    Bodies,                 \* what may be in a file
    AllowedFiles,           \* those with an extension that may be uploaded
    MaxDepth,               \* how deep folders are nested (a bound)
    SeedFolders, SeedFiles, \* what is there to start with
    OverwriteExistingFiles  \* the site setting

Root == <<>>

Paths == UNION {[1..k -> FolderNames] : k \in 0..MaxDepth}

(* The url path of an answer that was asked for no folder, and what the    *)
(* browser then takes for the name of a folder: nobody has one like it.    *)
NullPath == <<"null">>

ASSUME FolderAssumption ==
    /\ MaxDepth \in Nat
    /\ AllowedFiles \subseteq FileNames
    /\ Bodies # {}
    /\ OverwriteExistingFiles \in BOOLEAN
    /\ "null" \notin FolderNames
    /\ SeedFolders \subseteq Paths
    /\ \A p \in SeedFolders : \A k \in 0..Len(p) : SubSeq(p, 1, k) \in SeedFolders
    /\ SeedFiles \subseteq [dir : SeedFolders \cup {Root}, name : FileNames, body : Bodies]

VARIABLES
    folders,  \* the paths of the folders there are
    files     \* [dir, name, body]

disk == <<folders, files>>

DiskTypeOK ==
    /\ folders \subseteq Paths
    /\ files \subseteq [dir : Paths, name : FileNames, body : Bodies]

DiskInit == folders = {Root} \cup SeedFolders /\ files = SeedFiles

Parent(path) == Front(path)

ChildFolders(dir) == {p \in folders : p # Root /\ Parent(p) = dir}

FilesIn(dir) == {f \in files : f.dir = dir}

IsEmpty(dir) == ChildFolders(dir) = {} /\ FilesIn(dir) = {}

FileExists(dir, name) == \E f \in FilesIn(dir) : f.name = name

(* AttachmentPathUtil.IsAttachmentPathValid, of a path the browser sends.  *)
IsAttachmentPathValid(path) == path \in folders

-----------------------------------------------------------------------------
(* The changes. *)

(* Delete: a file that is gone already is no error. *)
DeleteFile(dir, name) ==
    /\ files' = {f \in files : f.dir # dir \/ f.name # name}
    /\ UNCHANGED folders

RemoveFolder(path) ==
    /\ folders' = folders \ {path}
    /\ UNCHANGED files

(* The other overload, which takes all that is in the folder with it; the  *)
(* service does not use it.                                                *)
RemoveTree(path) ==
    /\ folders' = {p \in folders : ~IsPrefix(path, p)}
    /\ files' = {f \in files : ~IsPrefix(path, f.dir)}

(* Directory.CreateDirectory makes the folders above it, too, and does not *)
(* mind if the folder is there by now.                                     *)
CreateDirectory(path) ==
    /\ folders' = folders \cup {SubSeq(path, 1, k) : k \in 0..Len(path)}
    /\ UNCHANGED files

(* HttpPostedFile.SaveAs, into a folder that must exist. *)
SaveAs(dir, name, body) ==
    /\ dir \in folders
    /\ files' = {f \in files : f.dir # dir \/ f.name # name}
                  \cup {[dir |-> dir, name |-> name, body |-> body]}
    /\ UNCHANGED folders

=============================================================================

----------------------------- MODULE FilesPage ------------------------------
(* The file manager of a server                                             *)
(* (frontend/app/admin/(panel)/servers/[id]/files/page.tsx) and the         *)
(* handlers that serve it over SFTP (backend/internal/handlers/files.go).   *)
(*                                                                          *)
(* Every click that lists a directory starts a request of its own; several  *)
(* may be under way, each with an SSH connection of its own, and their      *)
(* answers come in any order.  Names, sizes and dates are left out: an      *)
(* entry is its path, and Parent its directory.                             *)
EXTENDS Naturals, FiniteSets

CONSTANTS Entry,     \* paths that may exist besides the root
          Root,      \* "/"
          Folder,    \* those that are directories
          Parent,    \* the directory of each entry
          Load,      \* requests for a listing under way at a time
          MaxActions  \* bound of the model: uploads, deletions and changes by others

Dir == Folder \cup {Root}

ASSUME TreeAssumption ==
  /\ Folder \subseteq Entry /\ Root \notin Entry /\ Parent \in [Entry -> Dir] /\ MaxActions \in Nat

VARIABLES disk,      \* the entries on the server
          path, files, loading, error,   \* the state of the page
          loads,     \* each request: NoCall, or its directory and what it answered
          upload,    \* the file being uploaded and where to, or NoCall
          removal,   \* the entry being deleted and the path shown then, or NoCall
          actions

fmPage == <<path, files, loading, error>>
fmCalls == <<loads, upload, removal>>
fmVars == <<disk, fmPage, fmCalls, actions>>

NoCall == [at |-> "none"]
FileAction == actions < MaxActions /\ actions' = actions + 1

FMInit ==
  /\ disk = Entry
  /\ path = Root /\ files = {} /\ loading = TRUE /\ error = FALSE
  /\ \E l \in Load : loads = [m \in Load |-> IF m = l THEN [at |-> "sent", dir |-> Root] ELSE NoCall]
  /\ upload = NoCall /\ removal = NoCall /\ actions = 0

-----------------------------------------------------------------------------
(* Mutant of StartLoad: the path changes at once.                           *)
StartLoadAndGo(l, d) ==
  /\ loads[l] = NoCall /\ loads' = [loads EXCEPT ![l] = [at |-> "sent", dir |-> d]]
  /\ loading' = TRUE /\ error' = FALSE
  /\ path' = d /\ UNCHANGED files

(* load(targetPath), up to its await.                                       *)
StartLoad(l, d) ==
  /\ loads[l] = NoCall /\ loads' = [loads EXCEPT ![l] = [at |-> "sent", dir |-> d]]
  /\ loading' = TRUE /\ error' = FALSE
  /\ UNCHANGED <<path, files>>

(* ListFiles reads the directory, if there is one; ...                      *)
ListFiles(l) ==
  /\ loads[l].at = "sent"
  /\ loads' = [loads EXCEPT ![l] =
       IF @.dir \in disk \cup {Root}
       THEN [at |-> "listed", dir |-> @.dir, files |-> {e \in disk : Parent[e] = @.dir}]
       ELSE [at |-> "failed", dir |-> @.dir]]
  /\ UNCHANGED <<disk, fmPage, upload, removal, actions>>

(* ... the connection to the server, or to the panel, may fail.             *)
ListingFails(l) ==
  /\ loads[l].at \in {"sent", "listed"}
  /\ loads' = [loads EXCEPT ![l] = [at |-> "failed", dir |-> @.dir]]
  /\ UNCHANGED <<disk, fmPage, upload, removal, actions>>

(* The rest of load: path and files are those of the answer.                *)
LoadEnds(l) ==
  /\ loads[l].at \in {"listed", "failed"} /\ loads' = [loads EXCEPT ![l] = NoCall]
  /\ loading' = FALSE
  /\ IF loads[l].at = "listed"
     THEN path' = loads[l].dir /\ files' = loads[l].files /\ UNCHANGED error
     ELSE error' = TRUE /\ UNCHANGED <<path, files>>
  /\ UNCHANGED <<disk, upload, removal, actions>>

-----------------------------------------------------------------------------
(* The refresh button; "..", offered unless there is an error; and a        *)
(* directory among the rows, which are replaced while something loads.      *)
Refreshed(l) == StartLoad(l, path) /\ UNCHANGED <<disk, upload, removal, actions>>

GoesUp(l) ==
  /\ ~error /\ path # Root
  /\ StartLoad(l, Parent[path])
  /\ UNCHANGED <<disk, upload, removal, actions>>

RowShown(e) == ~error /\ ~loading /\ e \in files

Enters(l, e) ==
  /\ RowShown(e) /\ e \in Folder
  /\ StartLoad(l, e)
  /\ UNCHANGED <<disk, upload, removal, actions>>

(* Upload here: the file goes to the path shown when it is chosen, and that *)
(* path is listed again when it is there.                                   *)
Uploads(e) ==
  /\ upload = NoCall /\ ~error /\ FileAction
  /\ e \in Entry \ Folder /\ Parent[e] = path
  /\ upload' = [at |-> "sent", entry |-> e, dir |-> path]
  /\ UNCHANGED <<disk, fmPage, loads, removal>>

UploadFile ==
  /\ upload.at = "sent" /\ upload.dir \in disk \cup {Root}
  /\ disk' = disk \cup {upload.entry} /\ upload' = [upload EXCEPT !.at = "stored"]
  /\ UNCHANGED <<fmPage, loads, removal, actions>>

Uploaded(l) ==
  /\ upload.at = "stored" /\ upload' = NoCall
  /\ StartLoad(l, upload.dir)
  /\ UNCHANGED <<disk, removal, actions>>

UploadFails ==
  /\ upload # NoCall /\ upload' = NoCall
  /\ UNCHANGED <<disk, fmPage, loads, removal, actions>>

(* The delete button of a row: the path shown at the click is listed again. *)
Deletes(e) ==
  /\ removal = NoCall /\ RowShown(e) /\ FileAction
  /\ removal' = [at |-> "sent", entry |-> e, dir |-> path]
  /\ UNCHANGED <<disk, fmPage, loads, upload>>

(* A file, or an empty directory, is removed.                               *)
Empty(e) == \A f \in disk : Parent[f] # e
DeleteFile ==
  /\ removal.at = "sent" /\ removal.entry \in disk /\ Empty(removal.entry)
  /\ disk' = disk \ {removal.entry} /\ removal' = [removal EXCEPT !.at = "removed"]
  /\ UNCHANGED <<fmPage, loads, upload, actions>>

Deleted(l) ==
  /\ removal.at = "removed" /\ removal' = NoCall
  /\ StartLoad(l, removal.dir)
  /\ UNCHANGED <<disk, upload, actions>>

DeleteFails ==
  /\ removal # NoCall /\ removal' = NoCall
  /\ UNCHANGED <<disk, fmPage, loads, upload, actions>>

(* Somebody else creates or removes an entry; RenameFile, which the page    *)
(* does not call, does both.                                                *)
DiskChanges(e) ==
  /\ FileAction
  /\ \/ e \notin disk /\ Parent[e] \in disk \cup {Root} /\ disk' = disk \cup {e}
     \/ e \in disk /\ Empty(e) /\ disk' = disk \ {e}
  /\ UNCHANGED <<fmPage, fmCalls>>

FMNext ==
  \/ \E l \in Load : \/ ListFiles(l) \/ ListingFails(l) \/ LoadEnds(l) \/ Refreshed(l)
                     \/ GoesUp(l) \/ Uploaded(l) \/ Deleted(l)
                     \/ \E e \in Folder : Enters(l, e)
  \/ \E e \in Entry : Uploads(e) \/ Deletes(e) \/ DiskChanges(e)
  \/ UploadFile \/ UploadFails \/ DeleteFile \/ DeleteFails

FMSpec == FMInit /\ [][FMNext]_fmVars

-----------------------------------------------------------------------------
(* Entries have their directories; the page is somewhere in the tree, and   *)
(* says that it loads only if a request is out.                             *)
FMTypeOK ==
  /\ \A e \in disk : Parent[e] \in disk \cup {Root}
  /\ path \in Dir /\ files \subseteq Entry /\ error \in BOOLEAN
  /\ loading => \E l \in Load : loads[l] # NoCall

(* Whatever order the answers come in, fail or are overtaken: the rows are  *)
(* those of the directory that is named above them, the one that uploads go *)
(* to and that is listed again after them (setPath, setFiles).              *)
ListingOfPath == \A e \in files : Parent[e] = path
=============================================================================

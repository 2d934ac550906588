---------------------------- MODULE LibraryStore ----------------------------
(***************************************************************************)
(* The media library: rows in the database (src/internal/library/sqlite;   *)
(* the Postgres repository issues the same statements), image files in the *)
(* storage, and what changes them: imports of the chapters an extraction   *)
(* found (src/internal/jobs/chapter_import.go), deletions and paged lists  *)
(* (src/internal/library/http.go).                                         *)
(*                                                                         *)
(* There is one source URL, so at most one media row at a time.  ULIDs are *)
(* increasing numbers and are never reused.  A file is its key, made of    *)
(* the media's id, the chapter's URL and the position: what a file holds   *)
(* and its extension are left out.  An SQL statement or transaction is one *)
(* step.                                                                   *)
(***************************************************************************)
EXTENDS Integers, Sequences, FiniteSets, SequencesExt, Filters

CONSTANTS
  Units,        \* the chapter URLs of the media's page
  Importers,    \* extraction jobs that reached their import
  Deleters,     \* requests that delete
  NoUnit,       \* not a unit
  MaxImages,    \* images of a chapter's page
  PageSize,     \* limit of a list request
  MaxMedia,     \* media rows ever created
  MaxImports    \* imports ever started

ASSUME StoreAssumption ==
  /\ NoUnit \notin Units
  /\ MaxImages \in Nat /\ PageSize \in Nat \ {0}
  /\ MaxMedia \in Nat /\ MaxImports \in Nat

VARIABLES
  media,       \* id of the media row; 0: there is none
  issued,      \* media ids issued so far
  rows,        \* per unit, its chapters row: id (0: none) and image rows
  chapterIds,  \* chapter ids issued so far
  history,     \* reading_history: chapter ids, the latest update last
  files,       \* keys of the stored files
  imp,         \* the imports
  del,         \* the deletions
  imports,     \* imports started so far
  raced,       \* units an import saved while a deletion of their images ran
  walk         \* a client that follows X-Next-Cursor through a list

dbVars == <<media, issued, rows, chapterIds, history>>
vars == <<dbVars, files, imp, del, imports, raced, walk>>

NoRow == [id |-> 0, images |-> 0]
IdleImport == [phase |-> "idle", media |-> 0, todo |-> {}, unit |-> NoUnit,
               saved |-> 0]
IdleDelete == [phase |-> "idle", unit |-> NoUnit, chapter |-> 0, keys |-> {}]
NoWalk == [list |-> "none", open |-> FALSE, cursor |-> 0, shown |-> <<>>,
           stable |-> {}]

Init ==
  /\ media = 0 /\ issued = 0
  /\ rows = [u \in Units |-> NoRow] /\ chapterIds = 0 /\ history = <<>>
  /\ files = {}
  /\ imp = [i \in Importers |-> IdleImport] /\ imports = 0
  /\ del = [d \in Deleters |-> IdleDelete]
  /\ raced = {}
  /\ walk = NoWalk

ImageKeys(u) == {<<media, u, p>> : p \in 1 .. rows[u].images}

Saving(u) == \E i \in Importers : imp[i].phase = "save" /\ imp[i].unit = u
Deleting(u) == \E d \in Deleters : del[d].phase # "idle" /\ del[d].unit = u

\* The chapters GET /downloads lists: those with images.
Downloads == {rows[u].id : u \in {v \in Units : rows[v].images > 0}}

\* What stays listed while the client walks (for the properties).
KeepStable == walk' = [walk EXCEPT !.stable = @ \intersect Downloads']

-----------------------------------------------------------------------------
(* Importing: chapter_import.go *)

\* Repository.CreateMedia: a known source URL keeps its row and its id.
CreateMedia(i) ==
  /\ imp[i].phase = "idle" /\ imports < MaxImports
  /\ media = 0 => issued < MaxMedia
  /\ issued' = IF media = 0 THEN issued + 1 ELSE issued
  /\ media' = IF media = 0 THEN issued' ELSE media
  /\ imports' = imports + 1
  /\ imp' = [imp EXCEPT ![i] = [phase |-> "next", media |-> media', todo |-> Units,
                                  unit |-> NoUnit, saved |-> 0]]
  /\ UNCHANGED <<rows, chapterIds, history, files, del, raced, walk>>

\* The unit's page is opened and its images are looked for.
OpenUnit(i, u) ==
  /\ imp[i].phase = "next" /\ u \in imp[i].todo
  /\ imp' = [imp EXCEPT ![i] = [phase |-> "save", media |-> imp[i].media,
                                todo |-> imp[i].todo \ {u}, unit |-> u, saved |-> 0]]
  /\ raced' = IF Deleting(u) THEN raced \union {u} ELSE raced
  /\ UNCHANGED <<dbVars, files, del, imports, walk>>

\* The page does not open, or its snapshot fails: a warning.
SkipUnit(i, u) ==
  /\ imp[i].phase = "next" /\ u \in imp[i].todo
  /\ imp' = [imp EXCEPT ![i].todo = @ \ {u}]
  /\ UNCHANGED <<dbVars, files, del, imports, raced, walk>>

ImportKey(i) == <<imp[i].media, imp[i].unit, imp[i].saved + 1>>

\* saveChapterImages: an image that arrives is stored at the next position; one
\* that does not is passed over, and its position is the next image's.
PutImage(i) ==
  /\ imp[i].phase = "save" /\ imp[i].saved < MaxImages
  /\ files' = files \union {ImportKey(i)}
  /\ imp' = [imp EXCEPT ![i].saved = @ + 1]
  /\ UNCHANGED <<dbVars, del, imports, raced, walk>>

Bug_PutFails(i) ==
  /\ imp[i].phase = "save" /\ imp[i].saved < MaxImages
  /\ imp' = [imp EXCEPT ![i].saved = @ + 1]
  /\ UNCHANGED <<dbVars, files, del, imports, raced, walk>>

\* Put creates the file and fails to write it.
PutFails(i) ==
  /\ imp[i].phase = "save" /\ imp[i].saved < MaxImages
  /\ files' = files \union {ImportKey(i)}
  /\ UNCHANGED <<dbVars, imp, del, imports, raced, walk>>

UnitDone(i) ==
  imp' = [imp EXCEPT ![i] = [phase |-> "next", media |-> imp[i].media,
                             todo |-> imp[i].todo, unit |-> NoUnit, saved |-> 0]]

\* Repository.UpsertChapter, one transaction: the row keeps its id, its image
\* rows are replaced.  The foreign key refuses a media that was deleted.
UpsertChapter(i) ==
  LET u   == imp[i].unit
      new == rows[u].id = 0
  IN  /\ imp[i].phase = "save"
      /\ imp[i].media = media
      /\ chapterIds' = IF new THEN chapterIds + 1 ELSE chapterIds
      /\ rows' = [rows EXCEPT
           ![u] = [id |-> IF new THEN chapterIds' ELSE rows[u].id,
                   images |-> imp[i].saved]]
      /\ UnitDone(i)
      /\ KeepStable
      /\ UNCHANGED <<media, issued, history, files, del, imports, raced>>

\* The media is gone, the database is busy, or the job was stopped.
UpsertFails(i) ==
  /\ imp[i].phase = "save"
  /\ UnitDone(i)
  /\ UNCHANGED <<dbVars, files, del, imports, raced, walk>>

EndImport(i) ==
  /\ imp[i].phase = "next" /\ imp[i].todo = {}
  /\ imp' = [imp EXCEPT ![i] = IdleImport]
  /\ UNCHANGED <<dbVars, files, del, imports, raced, walk>>

-----------------------------------------------------------------------------
(* Deleting: http.go *)

\* The connection does not enforce foreign keys: nothing cascades.
Bug_DeleteMedia(d) ==
  LET keys == UNION {ImageKeys(u) : u \in Units}
  IN  /\ del[d].phase = "idle" /\ media # 0
      /\ media' = 0
      /\ del' = [del EXCEPT ![d] = IF keys = {} THEN IdleDelete ELSE
                   [phase |-> "files", unit |-> NoUnit, chapter |-> 0, keys |-> keys]]
      /\ UNCHANGED <<issued, rows, chapterIds, history, files, imp, imports, raced>>
      /\ KeepStable

\* Repository.Delete, one transaction: the keys are read, the media's row is
\* deleted and what refers to it cascades.  The files are removed afterwards.
DeleteMedia(d) ==
  LET keys == UNION {ImageKeys(u) : u \in Units}
  IN  /\ del[d].phase = "idle" /\ media # 0
      /\ media' = 0
      /\ rows' = [u \in Units |-> NoRow]
      /\ history' = <<>>
      /\ del' = [del EXCEPT ![d] = IF keys = {} THEN IdleDelete ELSE
                   [phase |-> "files", unit |-> NoUnit, chapter |-> 0, keys |-> keys]]
      /\ KeepStable
      /\ UNCHANGED <<issued, chapterIds, files, imp, imports, raced>>

\* Repository.DeleteDownload: the keys are read first ...
SelectKeys(d, u) ==
  /\ del[d].phase = "idle" /\ rows[u].id # 0
  /\ del' = [del EXCEPT ![d] = [phase |-> "rows", unit |-> u,
                                chapter |-> rows[u].id, keys |-> ImageKeys(u)]]
  /\ raced' = IF Saving(u) THEN raced \union {u} ELSE raced
  /\ UNCHANGED <<dbVars, files, imp, imports, walk>>

Bug_DeleteRows(d) ==
  /\ del[d].phase = "rows"
  /\ del' = [del EXCEPT ![d].phase = "files"]
  /\ UNCHANGED <<dbVars, files, imp, imports, raced, walk>>

\* ... and the image rows are deleted by a statement of its own.
DeleteRows(d) ==
  LET u == del[d].unit
  IN  /\ del[d].phase = "rows"
      /\ rows' = IF rows[u].id = del[d].chapter
                 THEN [rows EXCEPT ![u].images = 0] ELSE rows
      /\ del' = IF del[d].keys = {} THEN [del EXCEPT ![d] = IdleDelete]
                                    ELSE [del EXCEPT ![d].phase = "files"]
      /\ KeepStable
      /\ UNCHANGED <<media, issued, chapterIds, history, files, imp, imports, raced>>

\* The handlers remove one file after the other.
RemoveFile(d, k) ==
  /\ del[d].phase = "files" /\ k \in del[d].keys
  /\ files' = files \ {k}
  /\ del' = IF del[d].keys = {k} THEN [del EXCEPT ![d] = IdleDelete]
                                 ELSE [del EXCEPT ![d].keys = @ \ {k}]
  /\ UNCHANGED <<dbVars, imp, imports, raced, walk>>

\* A statement or a removal fails, or the client disconnects: the handler
\* answers 500 and leaves the rest.
DeleteFails(d) ==
  /\ del[d].phase # "idle"
  /\ del' = [del EXCEPT ![d] = IdleDelete]
  /\ UNCHANGED <<dbVars, files, imp, imports, raced, walk>>

\* The server stops between two statements; rows and files stay.
Crash ==
  /\ imp' = [i \in Importers |-> IdleImport]
  /\ del' = [d \in Deleters |-> IdleDelete]
  /\ UNCHANGED <<dbVars, files, imports, raced, walk>>

-----------------------------------------------------------------------------
(* Reading history and paged lists: features.go *)

Others(u) == Filter(history, (1 .. chapterIds) \ {rows[u].id})

UpsertHistory(u) ==
  /\ rows[u].id # 0
  /\ history' = Append(Others(u), rows[u].id)
  /\ UNCHANGED <<media, issued, rows, chapterIds, files, imp, del, imports,
                 raced, walk>>

DeleteHistory(u) ==
  /\ Contains(history, rows[u].id)
  /\ history' = Others(u)
  /\ UNCHANGED <<media, issued, rows, chapterIds, files, imp, del, imports,
                 raced, walk>>

\* ListDownloads: newest chapter first.  ListHistory: latest update first, yet
\* continued by the chapter's id as well.
Listing(list) ==
  IF list = "downloads"
  THEN Filter([i \in 1 .. chapterIds |-> chapterIds + 1 - i], Downloads)
  ELSE Reverse(history)

Bug_Query(list, cursor) ==
  Filter(Listing(list), {c \in 1 .. chapterIds : cursor = 0 \/ c <= cursor})

Query(list, cursor) ==
  Filter(Listing(list), {c \in 1 .. chapterIds : cursor = 0 \/ c < cursor})

StartWalk ==
  /\ walk.list = "none"
  /\ \E list \in {"downloads", "history"} :
       walk' = [NoWalk EXCEPT !.list = list, !.open = TRUE, !.stable = Downloads]
  /\ UNCHANGED <<dbVars, files, imp, del, imports, raced>>

Bug_NextPage ==
  LET items == Query(walk.list, walk.cursor)
      more  == Len(items) > PageSize
      page  == IF more THEN SubSeq(items, 1, PageSize) ELSE items
  IN  /\ walk.open
      /\ walk' = [walk EXCEPT !.shown = @ \o page, !.open = more,
                              !.cursor = IF more THEN items[PageSize + 1] ELSE @]
      /\ UNCHANGED <<dbVars, files, imp, del, imports, raced>>

\* One row more than the page is asked for; if it comes, the page's last row is
\* the cursor of the next page.
NextPage ==
  LET items == Query(walk.list, walk.cursor)
      more  == Len(items) > PageSize
      page  == IF more THEN SubSeq(items, 1, PageSize) ELSE items
  IN  /\ walk.open
      /\ walk' = [walk EXCEPT !.shown = @ \o page, !.open = more,
                              !.cursor = IF more THEN Last(page) ELSE @]
      /\ UNCHANGED <<dbVars, files, imp, del, imports, raced>>

Next ==
  \/ \E i \in Importers :
       \/ CreateMedia(i) \/ PutImage(i) \/ PutFails(i)
       \/ UpsertChapter(i) \/ UpsertFails(i) \/ EndImport(i)
       \/ \E u \in Units : OpenUnit(i, u) \/ SkipUnit(i, u)
  \/ \E d \in Deleters :
       \/ DeleteMedia(d) \/ DeleteRows(d) \/ DeleteFails(d)
       \/ \E u \in Units : SelectKeys(d, u)
       \/ \E k \in del[d].keys : RemoveFile(d, k)
  \/ Crash
  \/ \E u \in Units : UpsertHistory(u) \/ DeleteHistory(u)
  \/ StartWalk \/ NextPage

Spec == Init /\ [][Next]_vars

-----------------------------------------------------------------------------
(* Properties *)

Keys == (1 .. issued) \X Units \X (1 .. MaxImages)

\* Every variable has its type; without a media no chapter has a row, and a
\* deletion's keys are of files that were written.
TypeOK ==
  /\ issued \in Nat /\ media \in {0, issued}
  /\ rows \in [Units -> [id : 0 .. chapterIds, images : 0 .. MaxImages]]
  /\ media = 0 => \A u \in Units : rows[u] = NoRow
  /\ files \subseteq Keys
  /\ imp \in [Importers -> [phase : {"idle", "next", "save"},
                            media : 0 .. issued, todo : SUBSET Units,
                            unit : Units \union {NoUnit}, saved : 0 .. MaxImages]]
  /\ \A d \in Deleters :
       /\ del[d].phase \in {"idle", "rows", "files"}
       /\ del[d].unit \in Units \union {NoUnit} /\ del[d].keys \subseteq Keys
  /\ raced \subseteq Units

\* Every image a chapter's row names is stored, whatever imports, failed
\* writes, failed deletions and crashes came before and whichever media of the
\* page was deleted: only a unit that was imported while a deletion of its
\* images ran may be left with rows whose files are gone.
RowsHaveFiles == \A u \in Units \ raced : ImageKeys(u) \subseteq files

\* A client that follows the cursors through the downloads is shown every
\* chapter that stayed listed, and none twice, however the library changes
\* between its requests.
DownloadsWalk ==
  walk.list = "downloads" =>
    /\ IsInjective(walk.shown)
    /\ ~ walk.open => walk.stable \subseteq ToSet(walk.shown)

\* Each page that is not the last one moves the cursor down, also in the
\* history, whose order is not the cursor's: no client pages for ever.
WalkMovesOn ==
  [][ walk.open /\ walk'.open /\ walk'.shown # walk.shown
        => walk'.cursor > 0 /\ (walk.cursor = 0 \/ walk'.cursor < walk.cursor)
    ]_vars
=============================================================================

---------------------------- MODULE LibraryProofs ----------------------------
(* TypeOK, RowsHaveFiles, DownloadsWalk and WalkMovesOn of LibraryStore, for *)
(* any number of units, imports, deletions and images and any page size, and *)
(* what can exhaust the connections of its database (DbPool).                *)
EXTENDS LibraryStore, FiniteSetTheorems, FiltersProofs

Import ==
  [phase : {"idle", "next", "save"}, media : 0 .. issued, todo : SUBSET Units,
   unit : Units \union {NoUnit}, saved : 0 .. MaxImages]

Deletion ==
  [phase : {"idle", "rows", "files"}, unit : Units \union {NoUnit},
   chapter : Nat, keys : SUBSET Keys]

\* TypeOK, with the types of what it leaves open.
Typed ==
  /\ TypeOK
  /\ chapterIds \in Nat
  /\ imp \in [Importers -> Import]
  /\ del \in [Deleters -> Deletion]

\* An import under way works for a media that was issued.
ImportsOwn ==
  \A i \in Importers :
    /\ imp[i].phase # "idle" => imp[i].media # 0
    /\ imp[i].phase = "save" => imp[i].unit \in Units

\* What an import saved for the present media is stored.
SavedStored ==
  \A i \in Importers :
    imp[i].phase = "save" /\ imp[i].media = media /\ imp[i].unit \notin raced =>
      \A p \in 1 .. imp[i].saved : <<media, imp[i].unit, p>> \in files

\* A deletion that could remove a file of the present media does it for a
\* chapter nobody imports, whose image rows are its own to delete or deleted.
DeletionsApart ==
  \A d \in Deleters : del[d].phase # "idle" =>
    \A k \in del[d].keys : k[1] = media /\ k[2] \notin raced =>
      /\ k[2] = del[d].unit
      /\ ~ Saving(k[2])
      /\ del[d].phase = "rows" =>
           del[d].chapter # 0 /\ rows[k[2]].id = del[d].chapter
      /\ del[d].phase = "files" => rows[k[2]].images = 0

StoreInv ==
  Typed /\ ImportsOwn /\ SavedStored /\ DeletionsApart /\ RowsHaveFiles

\* A key of the present media is one of the images of its unit.
LEMMA KeyOf ==
  ASSUME NEW u \in Units, NEW k \in ImageKeys(u)
  PROVE  \E p \in 1 .. rows[u].images : k = <<media, u, p>>
BY DEF ImageKeys

\* The keys of the present rows are keys.
LEMMA ImageKeysAreKeys ==
  ASSUME TypeOK, NEW u \in Units
  PROVE  ImageKeys(u) \subseteq Keys
<1> USE StoreAssumption
<1>1. rows[u].images \in 0 .. MaxImages
  BY DEF TypeOK
<1>2. CASE media = 0
  <2>1. rows[u].images = 0
    BY <1>2 DEF TypeOK, NoRow
  <2> QED
    BY <2>1 DEF ImageKeys
<1>3. CASE media # 0
  <2>1. media \in 1 .. issued
    BY <1>3 DEF TypeOK
  <2> QED
    BY <1>1, <2>1 DEF ImageKeys, Keys
<1> QED
  BY <1>2, <1>3

\* Every kind of step keeps the types.
LEMMA TypedStep == Typed /\ ImportsOwn /\ [Next]_vars => Typed'
<1> SUFFICES ASSUME Typed, ImportsOwn, [Next]_vars PROVE Typed'
  OBVIOUS
<1> USE StoreAssumption DEF Typed
<1>1. CASE UNCHANGED vars
  BY <1>1 DEF TypeOK, Keys, NoRow, Import, Deletion, vars, dbVars
<1>2. ASSUME NEW i \in Importers, CreateMedia(i) PROVE Typed'
  <2>1. issued' \in Nat /\ issued <= issued' /\ media' \in {0, issued'}
    BY <1>2 DEF CreateMedia, TypeOK
  <2>2. Keys \subseteq Keys'
    BY <2>1 DEF Keys, TypeOK
  <2>3. imp' \in [Importers -> Import']
    <3>1. imp' = [imp EXCEPT ![i] = [phase |-> "next", media |-> media',
                    todo |-> Units, unit |-> NoUnit, saved |-> 0]]
      BY <1>2 DEF CreateMedia, IdleImport
    <3>2. Import \subseteq Import'
      BY <2>1 DEF Import, TypeOK
    <3>3. [phase |-> "next", media |-> media', todo |-> Units, unit |-> NoUnit,
           saved |-> 0] \in Import'
      BY <2>1 DEF Import
    <3> QED
      BY <3>1, <3>2, <3>3
  <2>4. del' \in [Deleters -> Deletion']
    BY <1>2, <2>2 DEF CreateMedia, Deletion
  <2> QED
    BY <1>2, <2>1, <2>2, <2>3, <2>4 DEF CreateMedia, TypeOK, Import, NoRow
<1>3. ASSUME NEW i \in Importers,
             \/ PutImage(i) \/ PutFails(i) \/ UpsertFails(i) \/ EndImport(i)
             \/ \E u \in Units : OpenUnit(i, u) \/ SkipUnit(i, u)
      PROVE  Typed'
  <2>1. UNCHANGED <<media, issued, rows, chapterIds, del>>
    BY <1>3 DEF PutImage, PutFails, UpsertFails, EndImport, OpenUnit, SkipUnit,
                dbVars
  <2>2. imp[i] \in Import /\ imp \in [Importers -> Import]
    OBVIOUS
  <2>3. imp' \in [Importers -> Import]
    <3>1. CASE PutImage(i) \/ PutFails(i)
      BY <3>1, <2>2 DEF PutImage, PutFails, Import
    <3>2. CASE UpsertFails(i) \/ EndImport(i)
      BY <3>2, <2>2 DEF UpsertFails, EndImport, UnitDone, Import, IdleImport, TypeOK
    <3>3. ASSUME NEW u \in Units, OpenUnit(i, u) PROVE imp' \in [Importers -> Import]
      BY <3>3, <2>2 DEF OpenUnit, Import
    <3>4. ASSUME NEW u \in Units, SkipUnit(i, u) PROVE imp' \in [Importers -> Import]
      BY <3>4, <2>2 DEF SkipUnit, Import
    <3> QED
      BY <1>3, <3>1, <3>2, <3>3, <3>4
  <2>4. files' \subseteq Keys
    <3>1. CASE PutImage(i) \/ PutFails(i)
      <4>1. imp[i].saved + 1 \in 1 .. MaxImages /\ imp[i].unit \in Units
            /\ imp[i].media \in 1 .. issued
        BY <3>1, <2>2 DEF PutImage, PutFails, Import, ImportsOwn, TypeOK
      <4>2. ImportKey(i) \in Keys
        BY <4>1 DEF ImportKey, Keys
      <4> QED
        BY <3>1, <4>2 DEF PutImage, PutFails, TypeOK
    <3> QED
      BY <1>3, <3>1 DEF UpsertFails, EndImport, OpenUnit, SkipUnit, TypeOK
  <2>5. raced' \subseteq Units
    <3>1. ASSUME NEW u \in Units, OpenUnit(i, u) PROVE raced' \subseteq Units
      BY <3>1 DEF OpenUnit, TypeOK
    <3> QED
      BY <1>3, <3>1 DEF PutImage, PutFails, UpsertFails, EndImport, SkipUnit, TypeOK
  <2> QED
    BY <2>1, <2>3, <2>4, <2>5 DEF TypeOK, Keys, Import, Deletion, NoRow
<1>4. ASSUME NEW i \in Importers, UpsertChapter(i) PROVE Typed'
  <2>1. imp[i] \in Import /\ imp[i].media # 0 /\ imp[i].unit \in Units
    BY <1>4 DEF UpsertChapter, ImportsOwn
  <2>2. media # 0 /\ UNCHANGED <<media, issued, files, del, raced>>
    BY <1>4, <2>1 DEF UpsertChapter
  <2>3. imp' \in [Importers -> Import]
    BY <1>4, <2>1 DEF UpsertChapter, UnitDone, Import
  <2>4. chapterIds' \in Nat /\ chapterIds <= chapterIds'
    BY <1>4 DEF UpsertChapter
  <2>5. rows' \in [Units -> [id : 0 .. chapterIds', images : 0 .. MaxImages]]
    BY <1>4, <2>1, <2>4 DEF UpsertChapter, TypeOK, Import
  <2> QED
    BY <2>2, <2>3, <2>4, <2>5 DEF TypeOK, Keys, Import, Deletion
<1>5. ASSUME NEW d \in Deleters, DeleteMedia(d) PROVE Typed'
  <2>1. UNION {ImageKeys(u) : u \in Units} \subseteq Keys
    BY ImageKeysAreKeys
  <2>2. del' \in [Deleters -> Deletion]
    BY <1>5, <2>1 DEF DeleteMedia, Deletion, IdleDelete
  <2>3. UNCHANGED <<issued, chapterIds, files, imp, raced>> /\ media' = 0
        /\ rows' = [u \in Units |-> NoRow]
    BY <1>5 DEF DeleteMedia
  <2> QED
    BY <2>2, <2>3 DEF TypeOK, Keys, Import, Deletion, NoRow
<1>6. ASSUME NEW d \in Deleters, NEW u \in Units, SelectKeys(d, u) PROVE Typed'
  <2>1. ImageKeys(u) \subseteq Keys /\ rows[u].id \in Nat
    BY ImageKeysAreKeys DEF TypeOK
  <2>2. del' \in [Deleters -> Deletion]
    BY <1>6, <2>1 DEF SelectKeys, Deletion
  <2>3. UNCHANGED <<dbVars, files, imp>> /\ raced' \subseteq Units
    BY <1>6 DEF SelectKeys, TypeOK
  <2> QED
    BY <2>2, <2>3 DEF TypeOK, Keys, Import, Deletion, NoRow, dbVars
<1>7. ASSUME NEW d \in Deleters, DeleteRows(d) PROVE Typed'
  <2>1. del' \in [Deleters -> Deletion]
    BY <1>7 DEF DeleteRows, Deletion, IdleDelete
  <2>2. UNCHANGED <<media, issued, chapterIds, files, imp, raced>>
    BY <1>7 DEF DeleteRows
  <2>3. rows' \in [Units -> [id : 0 .. chapterIds, images : 0 .. MaxImages]]
    <3>1. rows' = rows \/ rows' = [rows EXCEPT ![del[d].unit].images = 0]
      BY <1>7 DEF DeleteRows
    <3>2. rows \in [Units -> [id : 0 .. chapterIds, images : 0 .. MaxImages]]
      BY DEF TypeOK
    <3> QED
      BY <3>1, <3>2
  <2>4. media = 0 => \A u \in Units : rows'[u] = NoRow
    <3> SUFFICES ASSUME media = 0, NEW u \in Units PROVE rows'[u] = NoRow
      OBVIOUS
    <3>1. rows[u] = NoRow /\ rows \in [Units -> [id : 0 .. chapterIds, images : 0 .. MaxImages]]
      BY DEF TypeOK
    <3>2. rows' = rows \/ rows' = [rows EXCEPT ![del[d].unit].images = 0]
      BY <1>7 DEF DeleteRows
    <3> QED
      BY <3>1, <3>2 DEF NoRow
  <2> QED
    BY <2>1, <2>2, <2>3, <2>4 DEF TypeOK, Keys, Import, Deletion, NoRow
<1>8. ASSUME NEW d \in Deleters,
             \/ DeleteFails(d)
             \/ \E k \in del[d].keys : RemoveFile(d, k)
      PROVE  Typed'
  <2>1. del' \in [Deleters -> Deletion]
    <3> USE DEF Deletion, IdleDelete
    <3>1. CASE DeleteFails(d)
      BY <3>1 DEF DeleteFails
    <3>2. ASSUME NEW k \in del[d].keys, RemoveFile(d, k)
          PROVE  del' \in [Deleters -> Deletion]
      <4>1. del[d].keys \ {k} \in SUBSET Keys
        OBVIOUS
      <4> QED
        BY <3>2, <4>1 DEF RemoveFile
    <3> QED
      BY <1>8, <3>1, <3>2
  <2>2. UNCHANGED <<dbVars, imp, raced>> /\ files' \subseteq files
    BY <1>8 DEF DeleteFails, RemoveFile
  <2> QED
    BY <2>1, <2>2 DEF TypeOK, Keys, Import, Deletion, NoRow, dbVars
<1>9. ASSUME Crash PROVE Typed'
  <2>1. imp' \in [Importers -> Import] /\ del' \in [Deleters -> Deletion]
    BY <1>9 DEF Crash, Import, Deletion, IdleImport, IdleDelete, TypeOK
  <2> QED
    BY <1>9, <2>1 DEF Crash, TypeOK, Keys, Import, Deletion, NoRow, dbVars
<1>10. ASSUME \/ \E u \in Units : UpsertHistory(u) \/ DeleteHistory(u)
              \/ StartWalk \/ NextPage
       PROVE  Typed'
  <2>1. UNCHANGED <<media, issued, rows, chapterIds, files, imp, del, raced>>
    BY <1>10 DEF UpsertHistory, DeleteHistory, StartWalk, NextPage, dbVars
  <2> QED
    BY <2>1 DEF TypeOK, Keys, Import, Deletion, NoRow
<1> QED
  BY <1>1, <1>2, <1>3, <1>4, <1>5, <1>6, <1>7, <1>8, <1>9, <1>10 DEF Next

\* An import takes a media when it begins and a unit when it opens its page.
LEMMA OwnStep == StoreInv /\ [Next]_vars => ImportsOwn'
<1> SUFFICES ASSUME StoreInv, [Next]_vars PROVE ImportsOwn'
  OBVIOUS
<1> USE DEF StoreInv, Typed, ImportsOwn
<1>1. CASE UNCHANGED imp
  BY <1>1
<1>2. ASSUME NEW i \in Importers, CreateMedia(i) PROVE ImportsOwn'
  <2>1. media' # 0
    BY <1>2, StoreAssumption DEF CreateMedia, TypeOK
  <2> QED
    BY <1>2, <2>1 DEF CreateMedia
<1>3. ASSUME NEW i \in Importers, NEW u \in Units, OpenUnit(i, u) \/ SkipUnit(i, u)
      PROVE  ImportsOwn'
  <2>1. imp \in [Importers -> Import] /\ imp[i] \in Import /\ imp[i].phase = "next"
    BY <1>3 DEF OpenUnit, SkipUnit
  <2>2. \A j \in Importers : j # i => imp'[j] = imp[j]
    BY <1>3, <2>1 DEF OpenUnit, SkipUnit
  <2>3. imp'[i].media = imp[i].media /\ imp'[i].phase \in {"next", "save"}
        /\ (imp'[i].phase = "save" => imp'[i].unit = u)
    <3>1. CASE OpenUnit(i, u)
      BY <3>1, <2>1 DEF OpenUnit, Import
    <3>2. CASE SkipUnit(i, u)
      BY <3>2, <2>1 DEF SkipUnit, Import
    <3> QED
      BY <1>3, <3>1, <3>2
  <2> QED
    BY <2>1, <2>2, <2>3
<1>4. ASSUME NEW i \in Importers,
             PutImage(i) \/ UpsertChapter(i) \/ UpsertFails(i) \/ EndImport(i)
      PROVE  ImportsOwn'
  <2>1. imp \in [Importers -> Import] /\ imp[i] \in Import
    OBVIOUS
  <2>2. CASE PutImage(i)
    BY <2>1, <2>2 DEF PutImage, Import
  <2>3. CASE UpsertChapter(i) \/ UpsertFails(i)
    BY <2>1, <2>3 DEF UpsertChapter, UpsertFails, UnitDone, Import
  <2>4. CASE EndImport(i)
    BY <2>1, <2>4 DEF EndImport, IdleImport
  <2> QED
    BY <1>4, <2>2, <2>3, <2>4
<1>5. ASSUME Crash PROVE ImportsOwn'
  BY <1>5 DEF Crash, IdleImport
<1>6. CASE \/ \E i \in Importers : PutFails(i)
           \/ \E d \in Deleters : \/ DeleteMedia(d) \/ DeleteRows(d) \/ DeleteFails(d)
                                  \/ \E u \in Units : SelectKeys(d, u)
                                  \/ \E k \in del[d].keys : RemoveFile(d, k)
           \/ \E u \in Units : UpsertHistory(u) \/ DeleteHistory(u)
           \/ StartWalk \/ NextPage
  BY <1>1, <1>6 DEF PutFails, DeleteMedia, DeleteRows, DeleteFails, SelectKeys,
       RemoveFile, UpsertHistory, DeleteHistory, StartWalk, NextPage
<1> QED
  BY <1>1, <1>2, <1>3, <1>4, <1>5, <1>6 DEF Next, vars

\* A stored file of a unit an import saves is removed by nobody.
LEMMA StoredStep == StoreInv /\ [Next]_vars => SavedStored'
<1> SUFFICES ASSUME StoreInv, [Next]_vars PROVE SavedStored'
  OBVIOUS
<1> USE DEF StoreInv, Typed, SavedStored
<1>1. CASE UNCHANGED <<media, files, imp, raced>>
  BY <1>1
<1>2. ASSUME NEW i \in Importers, CreateMedia(i) PROVE SavedStored'
  <2>1. \A j \in Importers : imp[j].media \in 0 .. issued
    BY DEF Import
  <2>2. media = 0 \/ media' = media
    BY <1>2 DEF CreateMedia
  <2>3. media = 0 => \A j \in Importers : imp[j].media # media'
    BY <1>2, <2>1 DEF CreateMedia, TypeOK
  <2> QED
    BY <1>2, <2>2, <2>3 DEF CreateMedia
<1>3. ASSUME NEW i \in Importers, NEW u \in Units, OpenUnit(i, u) \/ SkipUnit(i, u)
      PROVE  SavedStored'
  <2>1. UNCHANGED <<media, files>> /\ raced \subseteq raced'
    BY <1>3 DEF OpenUnit, SkipUnit, dbVars
  <2>2. \A j \in Importers \ {i} : imp'[j] = imp[j]
    BY <1>3 DEF OpenUnit, SkipUnit
  <2>3. imp'[i].phase = "save" => imp'[i].saved = 0
    <3>1. imp \in [Importers -> Import] /\ imp[i] \in Import
      OBVIOUS
    <3>2. CASE OpenUnit(i, u)
      BY <3>1, <3>2 DEF OpenUnit, Import
    <3>3. CASE SkipUnit(i, u)
      BY <3>1, <3>3 DEF SkipUnit, Import
    <3> QED
      BY <1>3, <3>2, <3>3
  <2> QED
    BY <2>1, <2>2, <2>3
<1>4. ASSUME NEW i \in Importers, PutImage(i) PROVE SavedStored'
  <2>1. UNCHANGED <<media, raced>> /\ files' = files \union {ImportKey(i)}
    BY <1>4 DEF PutImage, dbVars
  <2>2. imp' = [imp EXCEPT ![i].saved = @ + 1] /\ imp[i].saved \in Nat
    BY <1>4, StoreAssumption DEF PutImage, Import
  <2> QED
    BY <2>1, <2>2 DEF ImportKey
<1>5. ASSUME NEW i \in Importers,
             PutFails(i) \/ UpsertChapter(i) \/ UpsertFails(i) \/ EndImport(i)
      PROVE  SavedStored'
  <2>1. UNCHANGED <<media, raced>> /\ files \subseteq files'
    BY <1>5 DEF PutFails, UpsertChapter, UpsertFails, EndImport, dbVars
  <2>2. imp' = imp \/ \A j \in Importers : j # i => imp'[j] = imp[j]
    BY <1>5 DEF PutFails, UpsertChapter, UpsertFails, EndImport, UnitDone
  <2>3. imp' = imp \/ imp'[i].phase # "save"
    <3>1. imp \in [Importers -> Import] /\ imp[i] \in Import
      OBVIOUS
    <3>2. CASE PutFails(i)
      BY <3>2 DEF PutFails
    <3>3. CASE UpsertChapter(i) \/ UpsertFails(i)
      BY <3>1, <3>3 DEF UpsertChapter, UpsertFails, UnitDone, Import
    <3>4. CASE EndImport(i)
      BY <3>1, <3>4 DEF EndImport, IdleImport
    <3> QED
      BY <1>5, <3>2, <3>3, <3>4
  <2> QED
    BY <2>1, <2>2, <2>3
<1>6. ASSUME NEW d \in Deleters, DeleteMedia(d) PROVE SavedStored'
  BY <1>6 DEF DeleteMedia, ImportsOwn
<1>7. ASSUME NEW d \in Deleters, NEW u \in Units, SelectKeys(d, u) PROVE SavedStored'
  BY <1>7 DEF SelectKeys, dbVars
<1>8. ASSUME NEW d \in Deleters, NEW k \in del[d].keys, RemoveFile(d, k)
      PROVE  SavedStored'
  <2>1. UNCHANGED <<media, raced, imp>> /\ files' = files \ {k}
        /\ del[d].phase = "files"
    BY <1>8 DEF RemoveFile, dbVars
  <2> SUFFICES ASSUME NEW i \in Importers, imp[i].phase = "save",
                      imp[i].media = media, imp[i].unit \notin raced,
                      NEW p \in 1 .. imp[i].saved
               PROVE  <<media, imp[i].unit, p>> # k
    BY <2>1
  <2>2. Saving(imp[i].unit)
    BY DEF Saving
  <2> QED
    BY <2>1, <2>2 DEF DeletionsApart
<1>9. ASSUME Crash PROVE SavedStored'
  BY <1>9 DEF Crash, IdleImport
<1>10. CASE \/ \E d \in Deleters : DeleteRows(d) \/ DeleteFails(d)
            \/ \E u \in Units : UpsertHistory(u) \/ DeleteHistory(u)
            \/ StartWalk \/ NextPage
  BY <1>1, <1>10 DEF DeleteRows, DeleteFails, UpsertHistory, DeleteHistory,
       StartWalk, NextPage, dbVars
<1> QED
  BY <1>1, <1>2, <1>3, <1>4, <1>5, <1>6, <1>7, <1>8, <1>9, <1>10 DEF Next, vars, dbVars

\* A row names what was saved for it, and its files are removed only after it.
LEMMA FilesStep == StoreInv /\ [Next]_vars => RowsHaveFiles'
<1> SUFFICES ASSUME StoreInv, [Next]_vars, NEW v \in Units, v \notin raced',
                    NEW k \in ImageKeys(v)'
             PROVE  k \in files'
  BY DEF RowsHaveFiles
<1> USE DEF StoreInv, Typed
<1>0. PICK p \in 1 .. rows'[v].images : k = <<media', v, p>>
  BY DEF ImageKeys
<1>a. ASSUME media' = media, rows'[v] = rows[v], raced \subseteq raced'
      PROVE  k \in files
  BY <1>a, <1>0 DEF RowsHaveFiles, ImageKeys
<1>1. CASE UNCHANGED <<media, rows, files, raced>>
  BY <1>1, <1>a
<1>2. ASSUME NEW i \in Importers, CreateMedia(i) PROVE k \in files'
  <2>1. CASE media = 0
    <3>1. rows'[v].images = 0
      BY <1>2, <2>1 DEF CreateMedia, TypeOK, NoRow
    <3> QED
      BY <3>1, <1>0
  <2>2. CASE media # 0
    BY <1>2, <2>2, <1>a DEF CreateMedia
  <2> QED
    BY <2>1, <2>2
<1>3. ASSUME NEW i \in Importers, NEW u \in Units, OpenUnit(i, u) \/ SkipUnit(i, u)
      PROVE  k \in files'
  BY <1>3, <1>a DEF OpenUnit, SkipUnit, dbVars
<1>4. ASSUME NEW i \in Importers,
             PutImage(i) \/ PutFails(i) \/ UpsertFails(i) \/ EndImport(i)
      PROVE  k \in files'
  BY <1>4, <1>a DEF PutImage, PutFails, UpsertFails, EndImport, dbVars
<1>5. ASSUME NEW i \in Importers, UpsertChapter(i) PROVE k \in files'
  <2>1. UNCHANGED <<media, files, raced>> /\ imp[i].phase = "save"
        /\ imp[i].media = media
    BY <1>5 DEF UpsertChapter
  <2>2. CASE v # imp[i].unit
    <3>1. rows'[v] = rows[v]
      BY <1>5, <2>2 DEF UpsertChapter, TypeOK
    <3> QED
      BY <2>1, <3>1, <1>a
  <2>3. CASE v = imp[i].unit
    <3>1. rows'[v].images = imp[i].saved
      BY <1>5, <2>3 DEF UpsertChapter, TypeOK
    <3> QED
      BY <2>1, <2>3, <3>1, <1>0 DEF SavedStored
  <2> QED
    BY <2>2, <2>3
<1>6. ASSUME NEW d \in Deleters, DeleteMedia(d) PROVE k \in files'
  <2>1. rows'[v].images = 0
    BY <1>6 DEF DeleteMedia, NoRow
  <2> QED
    BY <2>1, <1>0
<1>7. ASSUME NEW d \in Deleters, NEW u \in Units, SelectKeys(d, u) PROVE k \in files'
  BY <1>7, <1>a DEF SelectKeys, dbVars
<1>8. ASSUME NEW d \in Deleters, DeleteRows(d) PROVE k \in files'
  <2>1. UNCHANGED <<media, files, raced>>
    BY <1>8 DEF DeleteRows
  <2>2. rows'[v] = rows[v] \/ rows'[v].images = 0
    <3>1. rows' = rows \/ rows' = [rows EXCEPT ![del[d].unit].images = 0]
      BY <1>8 DEF DeleteRows
    <3>2. rows \in [Units -> [id : 0 .. chapterIds, images : 0 .. MaxImages]]
      BY DEF TypeOK
    <3> QED
      BY <3>1, <3>2
  <2> QED
    BY <2>1, <2>2, <1>0, <1>a
<1>9. ASSUME NEW d \in Deleters, NEW x \in del[d].keys, RemoveFile(d, x)
      PROVE  k \in files'
  <2>1. UNCHANGED <<media, rows, raced>> /\ files' = files \ {x}
        /\ del[d].phase = "files"
    BY <1>9 DEF RemoveFile, dbVars
  <2>2. k \in files
    BY <2>1, <1>a
  <2>3. x # k
    <3> SUFFICES ASSUME x = k PROVE FALSE
      OBVIOUS
    <3>1. x[1] = media /\ x[2] = v /\ v \notin raced
      BY <1>0, <2>1
    <3>2. rows[v].images = 0
      BY <2>1, <3>1 DEF DeletionsApart
    <3> QED
      BY <1>0, <2>1, <3>2
  <2> QED
    BY <2>1, <2>2, <2>3
<1>10. CASE \/ \E d \in Deleters : DeleteFails(d)
            \/ Crash
            \/ \E u \in Units : UpsertHistory(u) \/ DeleteHistory(u)
            \/ StartWalk \/ NextPage
  BY <1>1, <1>10 DEF DeleteFails, Crash, UpsertHistory, DeleteHistory,
       StartWalk, NextPage, dbVars
<1> QED
  BY <1>1, <1>2, <1>3, <1>4, <1>5, <1>6, <1>7, <1>8, <1>9, <1>10 DEF Next, vars, dbVars

\* A deletion begins apart from the imports and stays so: an import that opens
\* its unit meanwhile is recorded in raced.
LEMMA ApartStep == StoreInv /\ [Next]_vars => DeletionsApart'
<1> SUFFICES ASSUME StoreInv, [Next]_vars, NEW e \in Deleters,
                    del'[e].phase # "idle", NEW k \in del'[e].keys,
                    k[1] = media', k[2] \notin raced'
             PROVE  /\ k[2] = del'[e].unit
                    /\ ~ Saving(k[2])'
                    /\ del'[e].phase = "rows" =>
                         del'[e].chapter # 0 /\ rows'[k[2]].id = del'[e].chapter
                    /\ del'[e].phase = "files" => rows'[k[2]].images = 0
  BY DEF DeletionsApart
<1> DEFINE Apart ==
             /\ k[2] = del'[e].unit
             /\ ~ Saving(k[2])'
             /\ del'[e].phase = "rows" =>
                  del'[e].chapter # 0 /\ rows'[k[2]].id = del'[e].chapter
             /\ del'[e].phase = "files" => rows'[k[2]].images = 0
<1> USE DEF StoreInv, Typed
<1>k. k[1] \in 1 .. issued' /\ k[2] \in Units
  <2>1. del' \in [Deleters -> Deletion']
    BY TypedStep
  <2>2. del'[e] \in Deletion'
    BY <2>1
  <2>3. k \in Keys'
    BY <2>2 DEF Deletion
  <2> QED
    BY <2>3 DEF Keys
<1>a. ASSUME del'[e].phase = del[e].phase, del'[e].unit = del[e].unit,
             del'[e].chapter = del[e].chapter, k \in del[e].keys,
             media' = media, rows'[k[2]] = rows[k[2]], raced \subseteq raced',
             Saving(k[2])' => Saving(k[2])
      PROVE  Apart
  BY <1>a DEF DeletionsApart
<1>b. ASSUME NEW i \in Importers, imp'[i].phase = "next" \/ imp'[i].phase = "idle",
             \A j \in Importers : j # i => imp'[j] = imp[j]
      PROVE  Saving(k[2])' => Saving(k[2])
  BY <1>b DEF Saving
<1>i. imp \in [Importers -> Import]
  OBVIOUS
<1>1. CASE UNCHANGED <<media, rows, del, imp, raced>>
  BY <1>1, <1>a DEF Saving
<1>2. ASSUME NEW i \in Importers, CreateMedia(i) PROVE Apart
  <2>1. UNCHANGED <<rows, del, raced>> /\ imp'[i].phase = "next"
        /\ \A j \in Importers : j # i => imp'[j] = imp[j]
    BY <1>2, <1>i DEF CreateMedia
  <2>2. k \in del[e].keys
    BY <2>1
  <2>3. k[1] \in 1 .. issued
    <3>1. del[e] \in Deletion
      OBVIOUS
    <3> QED
      BY <2>2, <3>1 DEF Deletion, Keys
  <2>4. media' = media
    BY <1>2, <2>3 DEF CreateMedia, TypeOK
  <2> QED
    BY <2>1, <2>2, <2>4, <1>a, <1>b
<1>3. ASSUME NEW i \in Importers, NEW u \in Units, OpenUnit(i, u) PROVE Apart
  <2>1. UNCHANGED <<media, rows, del>> /\ raced \subseteq raced'
        /\ (Deleting(u) => u \in raced')
    BY <1>3 DEF OpenUnit, dbVars
  <2>2. imp'[i].unit = u /\ \A j \in Importers : j # i => imp'[j] = imp[j]
    BY <1>3, <1>i DEF OpenUnit
  <2>3. k[2] = del[e].unit
    BY <2>1 DEF DeletionsApart
  <2>4. k[2] # u
    BY <2>1, <2>3 DEF Deleting
  <2>5. Saving(k[2])' => Saving(k[2])
    BY <2>2, <2>4 DEF Saving
  <2> QED
    BY <2>1, <2>5, <1>a
<1>4. ASSUME NEW i \in Importers,
             \/ \E u \in Units : SkipUnit(i, u)
             \/ PutImage(i) \/ PutFails(i) \/ UpsertFails(i) \/ EndImport(i)
      PROVE  Apart
  <2>1. UNCHANGED <<media, rows, del, raced>>
    BY <1>4 DEF SkipUnit, PutImage, PutFails, UpsertFails, EndImport, dbVars
  <2>2. Saving(k[2])' => Saving(k[2])
    <3>1. CASE PutImage(i) \/ PutFails(i)
      <4>1. \A j \in Importers : imp'[j].phase = imp[j].phase
                                 /\ imp'[j].unit = imp[j].unit
        BY <3>1, <1>i DEF PutImage, PutFails, Import
      <4> QED
        BY <4>1 DEF Saving
    <3>2. CASE UpsertFails(i) \/ EndImport(i)
      BY <3>2, <1>i, <1>b DEF UpsertFails, EndImport, UnitDone, IdleImport, Import
    <3>3. ASSUME NEW u \in Units, SkipUnit(i, u) PROVE Saving(k[2])' => Saving(k[2])
      BY <3>3, <1>i, <1>b DEF SkipUnit, Import
    <3> QED
      BY <1>4, <3>1, <3>2, <3>3
  <2> QED
    BY <2>1, <2>2, <1>a
<1>5. ASSUME NEW i \in Importers, UpsertChapter(i) PROVE Apart
  <2>1. UNCHANGED <<media, del, raced>> /\ imp[i].phase = "save"
    BY <1>5 DEF UpsertChapter
  <2>2. imp'[i].phase = "next" /\ \A j \in Importers : j # i => imp'[j] = imp[j]
    BY <1>5, <1>i DEF UpsertChapter, UnitDone, Import
  <2>3. ~ Saving(k[2])
    BY <2>1 DEF DeletionsApart
  <2>4. k[2] # imp[i].unit
    BY <2>1, <2>3 DEF Saving
  <2>5. rows'[k[2]] = rows[k[2]]
    BY <1>5, <1>k, <2>4 DEF UpsertChapter, TypeOK
  <2> QED
    BY <2>1, <2>2, <2>5, <1>a, <1>b
<1>6. ASSUME NEW d \in Deleters, DeleteMedia(d) PROVE Apart
  BY <1>6, <1>k DEF DeleteMedia
<1>7. ASSUME NEW d \in Deleters, NEW u \in Units, SelectKeys(d, u) PROVE Apart
  <2>1. UNCHANGED <<media, rows, imp>> /\ raced \subseteq raced'
        /\ (Saving(u) => u \in raced') /\ rows[u].id # 0
    BY <1>7 DEF SelectKeys, dbVars
  <2>2. CASE e # d
    <3>1. del'[e] = del[e]
      BY <1>7, <2>2 DEF SelectKeys
    <3> QED
      BY <2>1, <3>1, <1>a DEF Saving
  <2>3. CASE e = d
    <3>1. del'[e] = [phase |-> "rows", unit |-> u, chapter |-> rows[u].id,
                     keys |-> ImageKeys(u)]
      BY <1>7, <2>3 DEF SelectKeys
    <3>2. k[2] = u
      BY <3>1 DEF ImageKeys
    <3>3. ~ Saving(u)'
      BY <2>1, <3>2 DEF Saving
    <3> QED
      BY <2>1, <3>1, <3>2, <3>3 DEF Saving
  <2> QED
    BY <2>2, <2>3
<1>8. ASSUME NEW d \in Deleters, DeleteRows(d) PROVE Apart
  <2>1. UNCHANGED <<media, imp, raced>>
    BY <1>8 DEF DeleteRows
  <2>2. rows \in [Units -> [id : 0 .. chapterIds, images : 0 .. MaxImages]]
    BY DEF TypeOK
  <2>3. rows'[k[2]].id = rows[k[2]].id
        /\ (rows[k[2]].images = 0 => rows'[k[2]].images = 0)
    <3>1. rows' = rows \/ rows' = [rows EXCEPT ![del[d].unit].images = 0]
      BY <1>8 DEF DeleteRows
    <3> QED
      BY <3>1, <2>2, <1>k
  <2>4. ~ Saving(k[2]) => ~ Saving(k[2])'
    BY <2>1 DEF Saving
  <2>5. CASE e # d
    <3>1. del'[e] = del[e]
      BY <1>8, <2>5 DEF DeleteRows
    <3> QED
      BY <2>1, <2>3, <2>4, <3>1 DEF DeletionsApart
  <2>6. CASE e = d
    <3>1. del[e].phase = "rows" /\ del[e] \in Deletion
      BY <1>8, <2>6 DEF DeleteRows
    <3>2. del'[e].phase = "files" /\ del'[e].unit = del[e].unit
          /\ del'[e].keys = del[e].keys
      BY <1>8, <2>6, <3>1 DEF DeleteRows, IdleDelete, Deletion
    <3>3. k[2] = del[e].unit /\ ~ Saving(k[2]) /\ rows[k[2]].id = del[e].chapter
      BY <2>1, <3>1, <3>2 DEF DeletionsApart
    <3>4. rows' = [rows EXCEPT ![k[2]].images = 0]
      BY <1>8, <2>6, <3>3 DEF DeleteRows
    <3>5. rows'[k[2]].images = 0
      BY <3>4, <2>2, <1>k
    <3> QED
      BY <2>4, <3>2, <3>3, <3>5
  <2> QED
    BY <2>5, <2>6
<1>9. ASSUME NEW d \in Deleters, NEW x \in del[d].keys, RemoveFile(d, x) PROVE Apart
  <2>1. UNCHANGED <<media, rows, imp, raced>>
    BY <1>9 DEF RemoveFile, dbVars
  <2>2. del \in [Deleters -> Deletion] /\ del[e] \in Deletion
    OBVIOUS
  <2>3. del'[e].phase = del[e].phase /\ del'[e].unit = del[e].unit
        /\ del'[e].chapter = del[e].chapter /\ del'[e].keys \subseteq del[e].keys
    BY <1>9, <2>2 DEF RemoveFile, IdleDelete, Deletion
  <2> QED
    BY <2>1, <2>3, <1>a DEF Saving
<1>10. ASSUME NEW d \in Deleters, DeleteFails(d) PROVE Apart
  <2>1. UNCHANGED <<media, rows, imp, raced>> /\ e # d /\ del'[e] = del[e]
    BY <1>10 DEF DeleteFails, dbVars, IdleDelete
  <2> QED
    BY <2>1, <1>a DEF Saving
<1>11. ASSUME Crash PROVE Apart
  BY <1>11 DEF Crash, IdleDelete
<1>12. CASE \/ \E u \in Units : UpsertHistory(u) \/ DeleteHistory(u)
            \/ StartWalk \/ NextPage
  BY <1>1, <1>12 DEF UpsertHistory, DeleteHistory, StartWalk, NextPage, dbVars
<1>13. CASE UNCHANGED vars
  BY <1>1, <1>13 DEF vars, dbVars
<1> QED
  BY <1>2, <1>3, <1>4, <1>5, <1>6, <1>7, <1>8, <1>9, <1>10, <1>11, <1>12, <1>13
     DEF Next

\* StoreInv holds from the start and through every step.
THEOREM StoreInvariant == Spec => []StoreInv
<1>1. Init => StoreInv
  BY StoreAssumption DEF Init, StoreInv, Typed, TypeOK, ImportsOwn, SavedStored,
     DeletionsApart, RowsHaveFiles, ImageKeys, Saving, Import, Deletion, NoRow,
     IdleImport, IdleDelete, Keys
<1>2. StoreInv /\ [Next]_vars => StoreInv'
  BY TypedStep, OwnStep, StoredStep, ApartStep, FilesStep DEF StoreInv
<1> QED
  BY <1>1, <1>2, PTL DEF Spec

\* Type correctness: also that no chapter outlives its media, and that files and
\* the keys a deletion holds belong to media that were issued.
THEOREM TypeCorrect == Spec => []TypeOK
<1>1. StoreInv => TypeOK
  BY DEF StoreInv, Typed
<1> QED
  BY <1>1, StoreInvariant, PTL

\* Every image a row names is stored, unless its unit was imported while a
\* deletion of its images ran.
THEOREM FilesKept == Spec => []RowsHaveFiles
<1>1. StoreInv => RowsHaveFiles
  BY DEF StoreInv
<1> QED
  BY <1>1, StoreInvariant, PTL

-----------------------------------------------------------------------------
(* Paged lists.                                                            *)

\* What a client was shown of the downloads so far: newest chapter first, the
\* cursor last, and everything above the cursor that stayed listed.
Shown ==
  LET shown == walk.shown IN
  /\ walk.stable \subseteq Downloads
  /\ \A j, k \in 1 .. Len(shown) : j < k => shown[j] > shown[k]
  /\ walk.open =>
       /\ walk.cursor = 0 => shown = <<>>
       /\ \A k \in 1 .. Len(shown) : shown[k] >= walk.cursor
       /\ \A c \in walk.stable :
            walk.cursor # 0 /\ c >= walk.cursor =>
              \E k \in 1 .. Len(shown) : shown[k] = c
  /\ ~ walk.open =>
       \A c \in walk.stable : \E k \in 1 .. Len(shown) : shown[k] = c

WalkTyped ==
  /\ history \in Seq(Nat)
  /\ \A u \in Units : rows[u].images > 0 => rows[u].id # 0
  /\ walk \in [list : {"none", "downloads", "history"}, open : BOOLEAN, cursor : Nat,
               shown : Seq(Nat), stable : SUBSET Nat]
  /\ walk.list = "none" => ~ walk.open

WalkInv == WalkTyped /\ (walk.list = "downloads" => Shown)

\* What a query returns comes after the cursor.
LEMMA QueryBelow ==
  ASSUME NEW list, NEW cursor \in Nat, Listing(list) \in Seq(Nat)
  PROVE  /\ Query(list, cursor) \in Seq(Nat)
         /\ \A k \in 1 .. Len(Query(list, cursor)) :
              LET c == Query(list, cursor)[k]
              IN  c \in 1 .. chapterIds /\ (cursor = 0 \/ c < cursor)
<1> DEFINE T == {c \in 1 .. chapterIds : cursor = 0 \/ c < cursor}
           s == Listing(list)
<1>1. PICK at : Places(at, Filter(s, T), s, T)
  BY FilterPlaces
<1>2. Filter(s, T) \in Seq(Nat)
  BY FilterPlaces
<1>3. \A k \in 1 .. Len(Filter(s, T)) : Filter(s, T)[k] \in T
  BY <1>1 DEF Places
<1>4. Query(list, cursor) = Filter(s, T)
  BY DEF Query
<1> QED
  BY <1>2, <1>3, <1>4

\* A descending sequence of numbers stays so when some are left out.
Descends(s) == \A j, k \in 1 .. Len(s) : j < k => s[j] > s[k]

LEMMA FilterDescends ==
  ASSUME NEW s \in Seq(Nat), Descends(s), NEW T
  PROVE  /\ Filter(s, T) \in Seq(Nat) /\ Descends(Filter(s, T))
         /\ \A i \in 1 .. Len(s) : s[i] \in T =>
              \E k \in 1 .. Len(Filter(s, T)) : Filter(s, T)[k] = s[i]
<1> DEFINE r == Filter(s, T)
<1>1. PICK at : Places(at, r, s, T)
  BY FilterPlaces
<1>2. r \in Seq(Nat)
  BY FilterPlaces
<1> HIDE DEF r
<1>3. ASSUME NEW j \in 1 .. Len(r), NEW k \in 1 .. Len(r), j < k PROVE r[j] > r[k]
  <2>1. /\ at[j] \in 1 .. Len(s) /\ at[k] \in 1 .. Len(s) /\ at[j] < at[k]
        /\ r[j] = s[at[j]] /\ r[k] = s[at[k]]
    BY <1>1, <1>3 DEF Places
  <2> QED
    BY <2>1 DEF Descends
<1>4. ASSUME NEW i \in 1 .. Len(s), s[i] \in T PROVE \E k \in 1 .. Len(r) : r[k] = s[i]
  <2>1. PICK k \in 1 .. Len(r) : at[k] = i
    BY <1>1, <1>4 DEF Places
  <2> QED
    BY <1>1, <2>1 DEF Places
<1> QED
  BY <1>2, <1>3, <1>4 DEF Descends, r

\* The downloads are listed newest first, and all of them.
LEMMA DownloadsListed ==
  ASSUME chapterIds \in Nat, Downloads \subseteq 1 .. chapterIds
  PROVE  /\ Listing("downloads") \in Seq(Nat) /\ Descends(Listing("downloads"))
         /\ \A c \in Downloads :
              \E k \in 1 .. Len(Listing("downloads")) : Listing("downloads")[k] = c
<1> DEFINE s == [i \in 1 .. chapterIds |-> chapterIds + 1 - i]
<1>1. s \in Seq(Nat) /\ Len(s) = chapterIds /\ Descends(s)
  <2>1. \A i \in 1 .. chapterIds : chapterIds + 1 - i \in Nat
    OBVIOUS
  <2>2. s \in Seq(Nat) /\ Len(s) = chapterIds
    BY <2>1
  <2> QED
    BY <2>2 DEF Descends
<1>2. ASSUME NEW c \in Downloads PROVE \E i \in 1 .. Len(s) : s[i] = c
  <2>1. c \in 1 .. chapterIds /\ chapterIds + 1 - c \in 1 .. chapterIds
    OBVIOUS
  <2>2. s[chapterIds + 1 - c] = c
    BY <2>1
  <2> QED
    BY <1>1, <2>1, <2>2
<1>3. Listing("downloads") = Filter(s, Downloads)
  BY DEF Listing
<1> HIDE DEF s
<1> QED
  BY <1>1, <1>2, <1>3, FilterDescends

\* What a query of the downloads returns: all that come after the cursor.
LEMMA DownloadsQueried ==
  ASSUME chapterIds \in Nat, Downloads \subseteq 1 .. chapterIds, NEW cursor \in Nat
  PROVE  LET items == Query("downloads", cursor) IN
         /\ Descends(items)
         /\ \A c \in Downloads : cursor = 0 \/ c < cursor =>
              \E k \in 1 .. Len(items) : items[k] = c
<1> DEFINE T == {c \in 1 .. chapterIds : cursor = 0 \/ c < cursor}
           s == Listing("downloads")
<1>1. s \in Seq(Nat) /\ Descends(s) /\ \A c \in Downloads : \E k \in 1 .. Len(s) : s[k] = c
  BY DownloadsListed
<1>2. Query("downloads", cursor) = Filter(s, T)
  BY DEF Query
<1>3. \A c \in Downloads : cursor = 0 \/ c < cursor => c \in T
  OBVIOUS
<1> HIDE DEF s, T
<1>4. /\ Descends(Filter(s, T))
      /\ \A i \in 1 .. Len(s) : s[i] \in T =>
           \E k \in 1 .. Len(Filter(s, T)) : Filter(s, T)[k] = s[i]
  BY <1>1, FilterDescends
<1> QED
  BY <1>1, <1>2, <1>3, <1>4

\* The rows' ids are numbers already given out.
LEMMA DownloadsNumbered ==
  ASSUME StoreInv, WalkTyped
  PROVE  chapterIds \in Nat /\ Downloads \subseteq 1 .. chapterIds
BY DEF StoreInv, Typed, TypeOK, WalkTyped, Downloads

LEMMA ListingTyped ==
  ASSUME StoreInv, WalkTyped, walk.list # "none" PROVE Listing(walk.list) \in Seq(Nat)
<1>1. CASE walk.list = "downloads"
  BY <1>1, DownloadsNumbered, DownloadsListed
<1>2. CASE walk.list # "downloads"
  <2>1. history \in Seq(Nat) /\ Listing(walk.list) = Reverse(history)
    BY <1>2 DEF WalkTyped, Listing
  <2> QED
    BY <2>1 DEF Reverse
<1> QED
  BY <1>1, <1>2

\* What a step of the walk does, in terms of the query's items.
PageStep(items) ==
  /\ walk'.list = walk.list /\ walk'.stable = walk.stable
  /\ walk'.open = (Len(items) > PageSize)
  /\ walk'.shown = walk.shown \o (IF Len(items) > PageSize
                                  THEN SubSeq(items, 1, PageSize) ELSE items)
  /\ walk'.cursor = IF Len(items) > PageSize THEN items[PageSize] ELSE walk.cursor

LEMMA PageOf ==
  ASSUME StoreInv, WalkTyped, NextPage
  PROVE  /\ PageStep(Query(walk.list, walk.cursor))
         /\ DOMAIN walk' = DOMAIN walk
         /\ walk' \in [list : {"none", "downloads", "history"}, open : BOOLEAN, cursor : Nat,
                       shown : Seq(Nat), stable : SUBSET Nat]
<1> DEFINE items == Query(walk.list, walk.cursor)
           more  == Len(items) > PageSize
           page  == IF more THEN SubSeq(items, 1, PageSize) ELSE items
           W     == [list : {"none", "downloads", "history"}, open : BOOLEAN, cursor : Nat,
                     shown : Seq(Nat), stable : SUBSET Nat]
<1>1. walk \in W /\ walk.list # "none"
  BY DEF WalkTyped, NextPage
<1>2. items \in Seq(Nat)
  BY <1>1, ListingTyped, QueryBelow
<1>3. PageSize \in Nat /\ PageSize > 0
  BY StoreAssumption DEF StoreAssumption
<1>4. walk' = [walk EXCEPT !.shown = @ \o page, !.open = more,
                           !.cursor = IF more THEN Last(page) ELSE @]
  BY DEF NextPage
<1>5. page \in Seq(Nat) /\ (more => Last(page) = items[PageSize] /\ items[PageSize] \in Nat)
  <2> HIDE DEF items
  <2>1. CASE more
    <3>1. page = SubSeq(items, 1, PageSize) /\ PageSize \in 1 .. Len(items)
      BY <1>2, <1>3, <2>1
    <3>2. /\ SubSeq(items, 1, PageSize) \in Seq(Nat) /\ Len(SubSeq(items, 1, PageSize)) = PageSize
          /\ SubSeq(items, 1, PageSize)[PageSize] = items[PageSize]
      BY <1>2, <1>3, <3>1
    <3> QED
      BY <1>2, <3>1, <3>2 DEF Last
  <2>2. CASE ~ more
    BY <1>2, <2>2
  <2> QED
    BY <2>1, <2>2
<1>6. more \in BOOLEAN /\ walk.shown \o page \in Seq(Nat)
  BY <1>1, <1>5
<1> HIDE DEF items, more, page
<1>7. /\ walk'.list = walk.list /\ walk'.stable = walk.stable /\ walk'.open = more
      /\ walk'.shown = walk.shown \o page
      /\ walk'.cursor = (IF more THEN Last(page) ELSE walk.cursor)
      /\ walk' \in W /\ DOMAIN walk' = DOMAIN walk
  BY <1>1, <1>4, <1>5, <1>6
<1> QED
  BY <1>5, <1>7 DEF PageStep, items, more, page


\* The walk through the downloads stays as Shown says when a page is added.
LEMMA PageKeeps ==
  ASSUME StoreInv, WalkInv, NextPage, walk.list = "downloads"
  PROVE  Shown'
<1> DEFINE items == Query(walk.list, walk.cursor)
           shown == walk.shown
           n     == Len(shown)
           more  == Len(items) > PageSize
           m     == IF more THEN PageSize ELSE Len(items)
<1>1. WalkTyped /\ Shown /\ chapterIds \in Nat /\ Downloads \subseteq 1 .. chapterIds
  BY DownloadsNumbered DEF WalkInv
<1>2. shown \in Seq(Nat) /\ walk.cursor \in Nat /\ walk.open /\ Downloads' = Downloads
      /\ n \in Nat
  BY <1>1 DEF WalkTyped, NextPage, dbVars, Downloads
<1>3. /\ items \in Seq(Nat) /\ Len(items) \in Nat
      /\ \A k \in 1 .. Len(items) :
           items[k] \in 1 .. chapterIds /\ (walk.cursor = 0 \/ items[k] < walk.cursor)
  BY <1>1, <1>2, ListingTyped, QueryBelow
<1>4. /\ \A j, k \in 1 .. Len(items) : j < k => items[j] > items[k]
      /\ \A c \in Downloads : walk.cursor = 0 \/ c < walk.cursor =>
           \E k \in 1 .. Len(items) : items[k] = c
  <2>1. items = Query("downloads", walk.cursor)
    OBVIOUS
  <2> HIDE DEF items
  <2> QED
    BY <1>1, <1>2, <2>1, DownloadsQueried DEF Descends
<1>5. PageStep(items)
  BY <1>1, PageOf
<1>6. PageSize \in Nat /\ PageSize > 0
  BY StoreAssumption DEF StoreAssumption
<1> HIDE DEF items, shown, n
<1>7. /\ m \in Nat /\ m <= Len(items)
      /\ walk'.shown \in Seq(Nat) /\ Len(walk'.shown) = n + m
      /\ \A k \in 1 .. n : walk'.shown[k] = shown[k]
      /\ \A k \in 1 .. m : walk'.shown[n + k] = items[k]
  <2> DEFINE page == IF more THEN SubSeq(items, 1, PageSize) ELSE items
  <2>1. m \in Nat /\ m <= Len(items)
    BY <1>3, <1>6
  <2>2. page \in Seq(Nat) /\ Len(page) = m /\ \A k \in 1 .. m : page[k] = items[k]
    BY <1>3, <1>6
  <2>3. walk'.shown = shown \o page
    BY <1>5 DEF PageStep, shown
  <2> HIDE DEF page, m
  <2>4. /\ shown \o page \in Seq(Nat) /\ Len(shown \o page) = Len(shown) + Len(page)
        /\ \A k \in 1 .. Len(shown) : (shown \o page)[k] = shown[k]
        /\ \A k \in 1 .. Len(page) : (shown \o page)[k + Len(shown)] = page[k]
    <3>1. \A r, t \in Seq(Nat) :
             /\ r \o t \in Seq(Nat) /\ Len(r \o t) = Len(r) + Len(t)
             /\ \A k \in 1 .. Len(r) : (r \o t)[k] = r[k]
             /\ \A k \in 1 .. Len(t) : (r \o t)[k + Len(r)] = t[k]
      BY Concat
    <3> QED
      BY <1>2, <2>2, <3>1
  <2> QED
    BY <1>2, <2>1, <2>2, <2>3, <2>4 DEF n
<1> HIDE DEF m
<1>8. ASSUME NEW k \in 1 .. Len(walk'.shown)
      PROVE  \/ k \in 1 .. n /\ walk'.shown[k] = shown[k]
             \/ k - n \in 1 .. m /\ walk'.shown[k] = items[k - n]
  <2>1. CASE k <= n
    BY <1>2, <1>7, <2>1
  <2>2. CASE ~ (k <= n)
    <3>1. k - n \in 1 .. m /\ n + (k - n) = k
      BY <1>2, <1>7, <2>2
    <3> QED
      BY <1>7, <3>1
  <2> QED
    BY <2>1, <2>2
<1>9. \A i \in 1 .. m : i \in 1 .. Len(items)
  BY <1>3, <1>7
\* Descending: what was shown is not below the cursor, what is added is.
<1>10. ASSUME NEW j \in 1 .. Len(walk'.shown), NEW k \in 1 .. Len(walk'.shown), j < k
       PROVE  walk'.shown[j] > walk'.shown[k]
  <2>1. CASE j \in 1 .. n /\ k \in 1 .. n
    BY <1>1, <1>7, <1>10, <2>1 DEF Shown, shown, n
  <2>2. CASE j \in 1 .. n /\ k - n \in 1 .. m
    <3>1. walk'.shown[k] = items[k - n] /\ k - n \in 1 .. Len(items)
      BY <1>2, <1>8, <1>9, <2>2
    <3>2. walk'.shown[j] = shown[j] /\ shown[j] >= walk.cursor /\ walk.cursor # 0
      <4>1. shown # <<>>
        BY <1>2, <2>2 DEF n
      <4> QED
        BY <1>1, <1>2, <1>7, <2>2, <4>1 DEF Shown, shown, n
    <3>3. shown[j] \in Nat /\ items[k - n] \in Nat /\ items[k - n] < walk.cursor
      <4>1. shown[j] \in Nat
        BY <1>2, <2>2 DEF n
      <4>2. items[k - n] \in 1 .. chapterIds /\ (walk.cursor = 0 \/ items[k - n] < walk.cursor)
        BY <1>3, <3>1
      <4> QED
        BY <3>2, <4>1, <4>2
    <3> QED
      BY <1>2, <3>1, <3>2, <3>3
  <2>3. CASE j - n \in 1 .. m /\ k - n \in 1 .. m
    <3>1. /\ walk'.shown[j] = items[j - n] /\ j - n \in 1 .. Len(items)
          /\ walk'.shown[k] = items[k - n] /\ k - n \in 1 .. Len(items)
      BY <1>2, <1>8, <1>9, <2>3
    <3>2. j - n < k - n
      BY <1>2, <1>10, <2>3
    <3> QED
      BY <1>4, <3>1, <3>2
  <2>4. (j \in 1 .. n \/ j - n \in 1 .. m) /\ (k \in 1 .. n \/ k - n \in 1 .. m)
    BY <1>8
  <2>5. ~ (j - n \in 1 .. m /\ k \in 1 .. n)
    BY <1>2, <1>10
  <2> QED
    BY <2>1, <2>2, <2>3, <2>4, <2>5
\* What stayed listed was shown, or is one of the query's items.
<1>11. ASSUME NEW c \in walk'.stable
       PROVE  \/ \E k \in 1 .. Len(walk'.shown) : walk'.shown[k] = c
              \/ \E i \in 1 .. Len(items) : i > m /\ items[i] = c
  <2>1. c \in walk.stable /\ c \in Downloads /\ c \in Nat
    <3>1. walk'.stable = walk.stable /\ walk.stable \subseteq Downloads
      BY <1>1, <1>5 DEF PageStep, Shown
    <3>2. c \in walk.stable /\ c \in Downloads
      BY <3>1
    <3>3. c \in 1 .. chapterIds
      BY <1>1, <3>2
    <3> QED
      BY <1>1, <3>2, <3>3
  <2>2. CASE walk.cursor # 0 /\ c >= walk.cursor
    <3>1. PICK k \in 1 .. n : shown[k] = c
      BY <1>1, <1>2, <2>1, <2>2 DEF Shown, shown, n
    <3>2. k \in 1 .. Len(walk'.shown) /\ walk'.shown[k] = c
      BY <1>2, <1>7, <3>1, SMTT(20)
    <3> QED
      BY <3>2
  <2>3. CASE ~ (walk.cursor # 0 /\ c >= walk.cursor)
    <3>1. PICK i \in 1 .. Len(items) : items[i] = c
      BY <1>2, <1>4, <2>1, <2>3
    <3>2. CASE i <= m
      <4>0. i \in 1 .. m
        BY <1>3, <1>7, <3>2
      <4>1. n + i \in 1 .. Len(walk'.shown) /\ walk'.shown[n + i] = c
        BY <1>2, <1>7, <3>1, <4>0, SMTT(20)
      <4> QED
        BY <4>1
    <3>3. CASE ~ (i <= m)
      <4>1. i > m
        BY <1>3, <1>7, <3>3
      <4> QED
        BY <3>1, <4>1
    <3> QED
      BY <3>2, <3>3
  <2> QED
    BY <2>2, <2>3
<1>12. CASE more
  <2>1. /\ m = PageSize /\ PageSize \in 1 .. Len(items) /\ walk'.cursor = items[m]
        /\ walk'.open = TRUE
    <3>1. m = PageSize
      BY <1>12 DEF m
    <3>2. PageSize \in 1 .. Len(items)
      BY <1>3, <1>6, <1>12
    <3>3. walk'.cursor = items[PageSize] /\ walk'.open = TRUE
      BY <1>5, <1>12 DEF PageStep
    <3> QED
      BY <3>1, <3>2, <3>3
  <2>2. walk'.cursor # 0 /\ walk'.cursor \in Nat
    BY <1>3, <2>1
  <2>3. ASSUME NEW k \in 1 .. Len(walk'.shown) PROVE walk'.shown[k] >= walk'.cursor
    <3>1. walk'.shown[n + m] = items[m] /\ n + m \in 1 .. Len(walk'.shown)
      BY <1>2, <1>7, <2>1
    <3>2. k = n + m \/ k < n + m
      BY <1>2, <1>7
    <3>3. walk'.shown[k] \in Nat
      BY <1>7
    <3> QED
      BY <1>10, <2>1, <2>2, <3>1, <3>2, <3>3
  <2>4. ASSUME NEW c \in walk'.stable, c >= walk'.cursor
        PROVE  \E k \in 1 .. Len(walk'.shown) : walk'.shown[k] = c
    <3>1. ASSUME NEW i \in 1 .. Len(items), i > m, items[i] = c PROVE FALSE
      <4>1. items[m] > items[i]
        BY <1>4, <2>1, <3>1
      <4> QED
        BY <1>3, <2>1, <2>2, <2>4, <3>1, <4>1
    <3> QED
      BY <1>11, <3>1
  <2>5. walk'.stable \subseteq Downloads'
    BY <1>1, <1>2, <1>5 DEF PageStep, Shown
  <2> QED
    BY <1>10, <2>1, <2>2, <2>3, <2>4, <2>5 DEF Shown
<1>13. CASE ~ more
  <2>1. m = Len(items) /\ ~ walk'.open
    <3>1. m = Len(items)
      BY <1>13 DEF m
    <3>2. ~ walk'.open
      BY <1>5, <1>13 DEF PageStep
    <3> QED
      BY <3>1, <3>2
  <2>2. ASSUME NEW c \in walk'.stable
        PROVE  \E k \in 1 .. Len(walk'.shown) : walk'.shown[k] = c
    <3>1. ASSUME NEW i \in 1 .. Len(items), i > m PROVE FALSE
      BY <1>3, <2>1, <3>1
    <3> QED
      BY <1>11, <3>1
  <2>3. walk'.stable \subseteq Downloads'
    BY <1>1, <1>2, <1>5 DEF PageStep, Shown
  <2> QED
    BY <1>10, <2>1, <2>2, <2>3 DEF Shown
<1> QED
  BY <1>12, <1>13

\* A step that leaves the list to the client keeps what it knows: what is struck
\* from the downloads is struck from what stayed listed.
LEMMA OthersKeep ==
  ASSUME WalkTyped, walk' = [walk EXCEPT !.stable = @ \intersect Downloads'],
         walk.list = "downloads" => Shown
  PROVE  /\ walk' \in [list : {"none", "downloads", "history"}, open : BOOLEAN, cursor : Nat,
                       shown : Seq(Nat), stable : SUBSET Nat]
         /\ walk'.list = walk.list /\ walk'.open = walk.open /\ walk'.shown = walk.shown
         /\ walk'.list = "downloads" => Shown'
<1>1. /\ walk'.list = walk.list /\ walk'.open = walk.open /\ walk'.cursor = walk.cursor
      /\ walk'.shown = walk.shown /\ walk'.stable = walk.stable \intersect Downloads'
      /\ walk' \in [list : {"none", "downloads", "history"}, open : BOOLEAN, cursor : Nat,
                    shown : Seq(Nat), stable : SUBSET Nat]
  BY DEF WalkTyped
<1> QED
  BY <1>1 DEF Shown

LEMMA WalkStep == StoreInv /\ WalkInv /\ [Next]_vars => WalkInv'
<1> SUFFICES ASSUME StoreInv, WalkInv, [Next]_vars PROVE WalkInv'
  OBVIOUS
<1>1. WalkTyped /\ (walk.list = "downloads" => Shown)
  BY DEF WalkInv
<1>2. /\ chapterIds \in Nat
      /\ rows \in [Units -> [id : 0 .. chapterIds, images : 0 .. MaxImages]]
  BY DEF StoreInv, Typed, TypeOK
<1>3. CASE UNCHANGED <<rows, history, walk>>
  BY <1>1, <1>3 DEF WalkInv, WalkTyped, Shown, Downloads
<1>4. CASE \/ \E i \in Importers :
                \/ CreateMedia(i) \/ PutImage(i) \/ PutFails(i) \/ UpsertFails(i) \/ EndImport(i)
                \/ \E u \in Units : OpenUnit(i, u) \/ SkipUnit(i, u)
           \/ \E d \in Deleters :
                \/ DeleteFails(d)
                \/ \E u \in Units : SelectKeys(d, u)
                \/ \E k \in del[d].keys : RemoveFile(d, k)
           \/ Crash \/ UNCHANGED vars
  <2>1. UNCHANGED <<rows, history, walk>>
    BY <1>4 DEF CreateMedia, PutImage, PutFails, UpsertFails, EndImport, OpenUnit, SkipUnit,
                DeleteFails, SelectKeys, RemoveFile, Crash, vars, dbVars
  <2> QED
    BY <1>3, <2>1
<1>5. ASSUME NEW i \in Importers, UpsertChapter(i) PROVE WalkInv'
  <2>1. UNCHANGED history /\ KeepStable
    BY <1>5 DEF UpsertChapter
  <2>2. \A u \in Units : rows'[u].images > 0 => rows'[u].id # 0
    <3>1. imp[i].unit \in Units
      BY <1>5 DEF StoreInv, ImportsOwn, UpsertChapter
    <3> DEFINE u == imp[i].unit
               id == IF rows[u].id = 0 THEN chapterIds' ELSE rows[u].id
    <3>2. /\ rows' = [rows EXCEPT ![u] = [id |-> id, images |-> imp[i].saved]]
          /\ rows[u].id = 0 => chapterIds' = chapterIds + 1
      BY <1>5 DEF UpsertChapter
    <3>3. id # 0
      BY <1>2, <3>1, <3>2
    <3> HIDE DEF id, u
    <3>4. ASSUME NEW w \in Units PROVE rows'[w] = rows[w] \/ rows'[w].id = id
      BY <1>2, <3>2
    <3> QED
      BY <1>1, <3>3, <3>4 DEF WalkTyped
  <2> QED
    BY <1>1, <2>1, <2>2, OthersKeep DEF KeepStable, WalkInv, WalkTyped
<1>6. ASSUME NEW d \in Deleters, DeleteMedia(d) PROVE WalkInv'
  <2>1. history' = <<>> /\ KeepStable /\ \A u \in Units : rows'[u].images = 0
    BY <1>6 DEF DeleteMedia, NoRow
  <2> QED
    BY <1>1, <2>1, OthersKeep DEF KeepStable, WalkInv, WalkTyped
<1>7. ASSUME NEW d \in Deleters, DeleteRows(d) PROVE WalkInv'
  <2>1. UNCHANGED history /\ KeepStable
    BY <1>7 DEF DeleteRows
  <2>2. \A u \in Units : rows'[u].images > 0 => rows'[u].id # 0
    <3>1. rows' = rows \/ rows' = [rows EXCEPT ![del[d].unit].images = 0]
      BY <1>7 DEF DeleteRows
    <3>2. ASSUME NEW w \in Units
          PROVE  rows'[w].id = rows[w].id /\ (rows'[w].images = rows[w].images \/ rows'[w].images = 0)
      BY <1>2, <3>1
    <3> QED
      BY <1>1, <3>2 DEF WalkTyped
  <2> QED
    BY <1>1, <2>1, <2>2, OthersKeep DEF KeepStable, WalkInv, WalkTyped
<1>8. ASSUME NEW u \in Units, UpsertHistory(u) \/ DeleteHistory(u) PROVE WalkInv'
  <2>1. UNCHANGED <<rows, walk>> /\ (history' = Others(u) \/ history' = Append(Others(u), rows[u].id))
    BY <1>8 DEF UpsertHistory, DeleteHistory
  <2>2. Others(u) \in Seq(Nat)
    BY <1>1, FilterPlaces DEF Others, WalkTyped
  <2>3. rows[u].id \in Nat
    BY <1>2
  <2>4. history' \in Seq(Nat)
    BY <2>1, <2>2, <2>3
  <2> QED
    BY <1>1, <2>1, <2>4 DEF WalkInv, WalkTyped, Shown, Downloads
<1>9. CASE StartWalk
  <2>1. UNCHANGED <<rows, history>>
    BY <1>9 DEF StartWalk, dbVars
  <2>2. Downloads \subseteq 1 .. chapterIds /\ Downloads' = Downloads
    BY <1>1, <2>1, DownloadsNumbered DEF Downloads
  <2>3. PICK list \in {"downloads", "history"} :
          walk' = [NoWalk EXCEPT !.list = list, !.open = TRUE, !.stable = Downloads]
    BY <1>9 DEF StartWalk
  <2>4. walk' = [list |-> list, open |-> TRUE, cursor |-> 0, shown |-> <<>>,
                 stable |-> Downloads]
    BY <2>3 DEF NoWalk
  <2>5. WalkTyped'
    BY <1>1, <1>2, <2>1, <2>2, <2>4 DEF WalkTyped
  <2>6. Shown'
    BY <2>2, <2>4 DEF Shown
  <2> QED
    BY <2>5, <2>6 DEF WalkInv
<1>10. CASE NextPage
  <2>1. UNCHANGED <<rows, history>>
    BY <1>10 DEF NextPage, dbVars
  <2>2. WalkTyped' /\ walk'.list = walk.list
    BY <1>1, <1>10, <2>1, PageOf DEF WalkTyped, PageStep, NextPage
  <2> QED
    BY <1>10, <2>2, PageKeeps DEF WalkInv
<1> QED
  BY <1>4, <1>5, <1>6, <1>7, <1>8, <1>9, <1>10 DEF Next

\* StoreInv and WalkInv hold from the start and through every step.
THEOREM WalkInvariant == Spec => [](StoreInv /\ WalkInv)
<1>1. Init => WalkInv
  BY DEF Init, WalkInv, WalkTyped, NoWalk, NoRow
<1> QED
  BY <1>1, WalkStep, StoreInvariant, PTL DEF Spec

\* A walk through the downloads shows each chapter once and all that stayed listed,
\* whatever is imported, deleted or listed again between its pages.
THEOREM DownloadsWalked == Spec => []DownloadsWalk
<1>1. WalkInv => DownloadsWalk
  <2> SUFFICES ASSUME WalkInv, walk.list = "downloads"
               PROVE  /\ IsInjective(walk.shown)
                      /\ ~ walk.open => walk.stable \subseteq ToSet(walk.shown)
    BY DEF DownloadsWalk
  <2>1. Shown /\ walk.shown \in Seq(Nat)
    BY DEF WalkInv, WalkTyped
  <2>2. DOMAIN walk.shown = 1 .. Len(walk.shown) /\ Len(walk.shown) \in Nat
    BY <2>1
  <2>3. ASSUME NEW j \in 1 .. Len(walk.shown), NEW k \in 1 .. Len(walk.shown),
               walk.shown[j] = walk.shown[k]
        PROVE  j = k
    <3>1. walk.shown[j] \in Nat /\ walk.shown[k] \in Nat
      BY <2>1
    <3>2. ~ (j < k) /\ ~ (k < j)
      BY <2>1, <2>3, <3>1 DEF Shown
    <3> QED
      BY <2>2, <3>2
  <2>4. ~ walk.open => walk.stable \subseteq ToSet(walk.shown)
    BY <2>1, <2>2 DEF Shown, ToSet
  <2> QED
    BY <2>2, <2>3, <2>4 DEF IsInjective
<1> QED
  BY <1>1, WalkInvariant, PTL

\* Every page but the last moves the cursor down, in the history too, whose order
\* is not the cursor's.
THEOREM WalksMoveOn == Spec => WalkMovesOn
<1>1. StoreInv /\ WalkInv /\ [Next]_vars =>
        [walk.open /\ walk'.open /\ walk'.shown # walk.shown
           => walk'.cursor > 0 /\ (walk.cursor = 0 \/ walk'.cursor < walk.cursor)]_vars
  <2> SUFFICES ASSUME StoreInv, WalkInv, Next, walk.open, walk'.open, walk'.shown # walk.shown
               PROVE  walk'.cursor > 0 /\ (walk.cursor = 0 \/ walk'.cursor < walk.cursor)
    BY DEF vars
  <2>1. WalkTyped
    BY DEF WalkInv
  <2>2. CASE NextPage
    <3> DEFINE items == Query(walk.list, walk.cursor)
    <3>1. PageStep(items)
      BY <2>1, <2>2, PageOf
    <3>2. walk.list # "none" /\ walk.cursor \in Nat
      BY <2>1 DEF WalkTyped
    <3>3. /\ items \in Seq(Nat)
          /\ \A k \in 1 .. Len(items) :
               items[k] \in 1 .. chapterIds /\ (walk.cursor = 0 \/ items[k] < walk.cursor)
      BY <2>1, <3>2, ListingTyped, QueryBelow
    <3> HIDE DEF items
    <3>4. PageSize \in 1 .. Len(items) /\ walk'.cursor = items[PageSize]
      <4>1. Len(items) > PageSize /\ walk'.cursor = items[PageSize]
        BY <3>1 DEF PageStep
      <4>2. PageSize \in Nat /\ PageSize > 0 /\ Len(items) \in Nat
        BY <3>3, StoreAssumption DEF StoreAssumption
      <4> QED
        BY <4>1, <4>2
    <3> QED
      BY <2>1, <3>3, <3>4, DownloadsNumbered
  <2>3. CASE KeepStable
    BY <2>1, <2>3 DEF KeepStable, WalkTyped
  <2>4. CASE StartWalk
    BY <2>1, <2>4 DEF StartWalk, WalkTyped
  <2> QED
    BY <2>2, <2>3, <2>4
    DEF Next, CreateMedia, PutImage, PutFails, UpsertChapter, UpsertFails, EndImport, OpenUnit,
        SkipUnit, DeleteMedia, DeleteRows, DeleteFails, SelectKeys, RemoveFile, Crash,
        UpsertHistory, DeleteHistory
<1> QED
  BY <1>1, WalkInvariant, PTL DEF WalkMovesOn, Spec

-----------------------------------------------------------------------------
(* The connections of the library's database (DbPool).                     *)

CONSTANTS Listers, OneStatement, MaxConns, MaxChapters
VARIABLES pc, left

Pool == INSTANCE DbPool

\* Only listings wait for a second connection: Query gives chapters to no
\* other call.
THEOREM ListersWait == Pool!Spec => []Pool!OnlyListersWait
<1>1. Pool!Init => Pool!OnlyListersWait
  BY DEF Pool!Init, Pool!OnlyListersWait
<1>2. Pool!OnlyListersWait /\ [Pool!Next]_Pool!vars => Pool!OnlyListersWait'
  <2> SUFFICES ASSUME Pool!OnlyListersWait, [Pool!Next]_Pool!vars PROVE Pool!OnlyListersWait'
    OBVIOUS
  <2>1. CASE UNCHANGED Pool!vars
    BY <2>1 DEF Pool!OnlyListersWait, Pool!vars
  <2>2. ASSUME NEW c \in Pool!Clients, Pool!Call(c) \/ Pool!ImagesRead(c) \/ Pool!Close(c)
        PROVE  Pool!OnlyListersWait'
    BY <2>2 DEF Pool!OnlyListersWait, Pool!Call, Pool!ImagesRead, Pool!Close, Pool!Move
  <2>3. ASSUME NEW c \in Pool!Clients, Pool!Query(c) PROVE Pool!OnlyListersWait'
    <3>1. PICK n \in 0 .. MaxChapters :
            left' = [left EXCEPT ![c] = IF c \in Listers THEN n ELSE 0]
      BY <2>3 DEF Pool!Query
    <3>2. n \in Int
      OBVIOUS
    <3> QED
      BY <2>3, <3>1, <3>2 DEF Pool!OnlyListersWait, Pool!Query, Pool!Move
  <2>4. ASSUME NEW c \in Pool!Clients, Pool!NextChapter(c) \/ Pool!ListImages(c)
        PROVE  Pool!OnlyListersWait'
    BY <2>4 DEF Pool!OnlyListersWait, Pool!NextChapter, Pool!ListImages, Pool!Move
  <2>5. ASSUME NEW c \in Pool!Clients, Pool!Disconnect(c) PROVE Pool!OnlyListersWait'
    BY <2>5 DEF Pool!OnlyListersWait, Pool!Disconnect, Pool!Move
  <2> QED
    BY <2>1, <2>2, <2>3, <2>4, <2>5 DEF Pool!Next
<1> QED
  BY <1>1, <1>2, PTL DEF Pool!Spec

\* With fewer listings at once than connections the pool never deadlocks, how
\* many other calls there are and how many chapters a media has.
THEOREM FewListersNeverBlock ==
  ASSUME IsFiniteSet(Listers), MaxConns \in Nat,
         Cardinality(Listers) < MaxConns
  PROVE  Pool!Spec => []Pool!NoPoolDeadlock
<1>1. Pool!OnlyListersWait => Pool!NoPoolDeadlock
  <2> SUFFICES ASSUME Pool!OnlyListersWait,
                      \A c \in Pool!Clients : Pool!Held(c) # {} => pc[c] = "wantImages"
               PROVE  Pool!Free
    BY DEF Pool!NoPoolDeadlock
  <2> DEFINE OneEach == Listers \X {"rows"}
  <2>1. Pool!InUse \subseteq OneEach
    <3> SUFFICES ASSUME NEW x \in Pool!InUse PROVE x \in OneEach
      OBVIOUS
    <3>1. x[1] \in Pool!Clients /\ x[2] \in Pool!Held(x[1])
          /\ x \in Pool!Clients \X {"rows", "images"}
      BY DEF Pool!InUse
    <3>2. pc[x[1]] = "wantImages"
      BY <3>1
    <3>3. x[1] \in Listers /\ x[2] = "rows"
      BY <3>1, <3>2 DEF Pool!OnlyListersWait, Pool!Held
    <3> QED
      BY <3>1, <3>3
  <2>2. IsFiniteSet(OneEach) /\ Cardinality(OneEach) = Cardinality(Listers)
    <3>1. IsFiniteSet({"rows"}) /\ Cardinality({"rows"}) = 1
      BY FS_Singleton
    <3>2. Cardinality(Listers) \in Nat
      BY FS_CardinalityType
    <3>3. IsFiniteSet(OneEach)
          /\ Cardinality(OneEach) = Cardinality(Listers) * Cardinality({"rows"})
      BY <3>1, FS_Product
    <3> QED
      BY <3>1, <3>2, <3>3
  <2>3. Cardinality(Pool!InUse) <= Cardinality(Listers) /\ Cardinality(Pool!InUse) \in Nat
    BY <2>1, <2>2, FS_Subset, FS_CardinalityType
  <2>4. Cardinality(Listers) \in Nat
    BY FS_CardinalityType
  <2>5. Cardinality(Pool!InUse) < MaxConns
    <3> DEFINE used == Cardinality(Pool!InUse)
               lists == Cardinality(Listers)
    <3>1. used <= lists /\ used \in Nat /\ lists \in Nat /\ lists < MaxConns
      BY <2>3, <2>4
    <3> HIDE DEF used, lists
    <3>2. used < MaxConns
      BY <3>1
    <3> QED
      BY <3>2 DEF used
  \* The instance has a Cardinality of its own, with the same definition.
  <2> QED
    BY <2>5 DEF Pool!Free, Pool!Cardinality, Cardinality
<1> QED
  BY <1>1, ListersWait, PTL

=============================================================================

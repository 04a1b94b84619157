-------------------------------- MODULE Assets --------------------------------
(***************************************************************************)
(* Images: AssetService and LocalAssetStorage of modules/assets.  A file   *)
(* is stored under the digest of its content, once for all projects; a     *)
(* project has a row for it.  Uploads run side by side in threads of the   *)
(* server; nothing locks them against each other.                          *)
(*                                                                         *)
(* Abstracted: an image is its content; the checks of name, size, format   *)
(* and media type are the verdict `ok`.  An upload of several files is     *)
(* several uploads, the later ones not begun when one fails.  Rows and     *)
(* files are never deleted.                                                *)
(***************************************************************************)
EXTENDS Naturals, FiniteSets

CONSTANTS
  AsUpload,      \* uploads, each of one file
  AsImage,       \* contents
  AsProject,
  AsMaxCrashes   \* bound: how often the process dies

ASSUME AssetsAssumption == AsImage # {} /\ AsProject # {} /\ AsMaxCrashes \in Nat

VARIABLES
  asStore,    \* "memory" or "postgres": the repository of the rows
  asFile,     \* contents under assets/<sha256>
  asTemp,     \* uploads whose temporary file is there
  asRow,      \* rows: [id, project, image]
  asUpload,   \* [AsUpload -> progress]
  asCrashes

asVars == <<asStore, asFile, asTemp, asRow, asUpload, asCrashes>>

\* A row is named after the upload that added it.
AsRowType == [id : AsUpload, project : AsProject, image : AsImage]

\* known: history, the image was in the project when the upload began.
AsUploadType ==
  [pc : {"unused", "spool", "inspect", "place", "move", "dedupe", "add", "answered", "refused", "lost"},
   image : AsImage, project : AsProject, answer : AsUpload, known : BOOLEAN]

AssetsTypeOK ==
  /\ asStore \in {"memory", "postgres"}
  /\ asFile \subseteq AsImage /\ asTemp \subseteq AsUpload
  /\ asRow \subseteq AsRowType
  /\ asUpload \in [AsUpload -> AsUploadType]
  /\ asCrashes \in 0..AsMaxCrashes

AsInit ==
  /\ asStore \in {"memory", "postgres"}
  /\ asFile = {} /\ asTemp = {} /\ asRow = {}
  /\ asUpload = [u \in AsUpload |->
       [pc |-> "unused", image |-> CHOOSE i \in AsImage : TRUE, project |-> CHOOSE p \in AsProject : TRUE,
        answer |-> u, known |-> FALSE]]
  /\ asCrashes = 0

RowsOf(project, image) == {row \in asRow : row.project = project /\ row.image = image}

--------------------------------------------------------------------------
\* Upload u is at pc and goes on as next.
AsStep(u, pc, next) ==
  /\ asUpload[u].pc = pc
  /\ asUpload' = [asUpload EXCEPT ![u] = next]
  /\ UNCHANGED <<asStore, asCrashes>>

BeginUpload(u, project, image) ==
  /\ AsStep(u, "unused", [asUpload[u] EXCEPT !.pc = "spool", !.project = project, !.image = image,
                                             !.known = RowsOf(project, image) # {}])
  /\ UNCHANGED <<asFile, asTemp, asRow>>

Spool(u) ==
  /\ AsStep(u, "spool", [asUpload[u] EXCEPT !.pc = "inspect"])
  /\ asTemp' = asTemp \union {u}
  /\ UNCHANGED <<asFile, asRow>>

\* The temporary file of a refused upload is removed.
InspectImage(u, ok) ==
  /\ AsStep(u, "inspect", [asUpload[u] EXCEPT !.pc = IF ok THEN "place" ELSE "refused"])
  /\ asTemp' = IF ok THEN asTemp ELSE asTemp \ {u}
  /\ UNCHANGED <<asFile, asRow>>

\* A content that is there already is kept.
LookForFile(u) ==
  LET there == asUpload[u].image \in asFile IN
  /\ AsStep(u, "place", [asUpload[u] EXCEPT !.pc = IF there THEN "dedupe" ELSE "move"])
  /\ asTemp' = IF there THEN asTemp \ {u} ELSE asTemp
  /\ UNCHANGED <<asFile, asRow>>

\* os.replace puts the file in its place in one step, over one of the same
\* content that came there since.
MoveFile(u) ==
  /\ AsStep(u, "move", [asUpload[u] EXCEPT !.pc = "dedupe"])
  /\ asFile' = asFile \union {asUpload[u].image}
  /\ asTemp' = asTemp \ {u}
  /\ UNCHANGED asRow

\* The rows with the digest, of the same project.
Existing(u) == RowsOf(asUpload[u].project, asUpload[u].image)

Dedupe(u) ==
  /\ \/ /\ Existing(u) = {}
        /\ AsStep(u, "dedupe", [asUpload[u] EXCEPT !.pc = "add"])
     \/ \E row \in Existing(u) :
          AsStep(u, "dedupe", [asUpload[u] EXCEPT !.pc = "answered", !.answer = row.id])
  /\ UNCHANGED <<asFile, asTemp, asRow>>

\* Seeded fault: an upload whose row is refused takes its file away with it.
AddOrClean(u) ==
  LET up == asUpload[u]  clash == RowsOf(up.project, up.image) # {} IN
  /\ AsStep(u, "add", [up EXCEPT !.pc = IF clash THEN "refused" ELSE "answered"])
  /\ asRow' = IF clash THEN asRow
              ELSE asRow \union {[id |-> u, project |-> up.project, image |-> up.image]}
  /\ asFile' = IF clash THEN asFile \ {up.image} ELSE asFile
  /\ UNCHANGED asTemp

\* PostgreSQL holds (project, storage_key) unique; the store in memory takes any
\* number of rows.
Clashes(u) == asStore = "postgres" /\ RowsOf(asUpload[u].project, asUpload[u].image) # {}

\* The row is added, or the INSERT fails, with an error for the client.
Add(u) ==
  LET up == asUpload[u] IN
  /\ AsStep(u, "add", [up EXCEPT !.pc = IF Clashes(u) THEN "refused" ELSE "answered"])
  /\ asRow' = IF Clashes(u) THEN asRow
              ELSE asRow \union {[id |-> u, project |-> up.project, image |-> up.image]}
  /\ UNCHANGED <<asFile, asTemp>>

\* The process dies: temporary files stay where they are, and a store in memory
\* is gone.
AssetsCrash ==
  /\ asCrashes < AsMaxCrashes
  /\ asCrashes' = asCrashes + 1
  /\ asRow' = IF asStore = "memory" THEN {} ELSE asRow
  /\ asUpload' = [u \in AsUpload |->
       IF asUpload[u].pc = "unused" THEN asUpload[u] ELSE [asUpload[u] EXCEPT !.pc = "lost"]]
  /\ UNCHANGED <<asStore, asFile, asTemp>>

AsNext ==
  \/ \E u \in AsUpload :
       \/ \E project \in AsProject, image \in AsImage : BeginUpload(u, project, image)
       \/ \E ok \in BOOLEAN : InspectImage(u, ok)
       \/ Spool(u) \/ LookForFile(u) \/ MoveFile(u) \/ Dedupe(u) \/ Add(u)
  \/ AssetsCrash

AsIdle == (\A u \in AsUpload : asUpload[u].pc \in {"answered", "refused", "lost"}) /\ UNCHANGED asVars

AsSpec == AsInit /\ [][AsNext \/ AsIdle]_asVars

--------------------------------------------------------------------------
\* Every row has its file, whichever uploads of the same content are under way,
\* fail or were interrupted by a crash: tasks read the file by its name.
RowHasFile == \A row \in asRow : row.image \in asFile

\* An upload that is answered got an asset of its own project and content.
AnswerIsOwn ==
  \A u \in AsUpload : asUpload[u].pc = "answered" =>
    \E row \in asRow : /\ row.id = asUpload[u].answer
                       /\ row.project = asUpload[u].project /\ row.image = asUpload[u].image

\* An image a project has is added no second time, by an upload that came later;
\* with PostgreSQL also not by one that came at the same time.
AddedOnce ==
  \A row \in asRow :
    /\ ~asUpload[row.id].known
    /\ asStore = "postgres" => RowsOf(row.project, row.image) = {row}

\* Temporary files are left only by uploads that run, or that a crash ended.
TempIsAttended == \A u \in asTemp : asUpload[u].pc \in {"inspect", "place", "move", "lost"}

\* What the assets promise, whatever uploads run side by side or are cut short.
AssetsAreSound == RowHasFile /\ AnswerIsOwn /\ AddedOnce /\ TempIsAttended
=============================================================================

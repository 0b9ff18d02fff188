--------------------------- MODULE Announcements ---------------------------
(***************************************************************************)
(* Announcements: their schedule, who has seen them, and attachments,      *)
(* whose rows are in the database and whose files are objects of an        *)
(* external storage that fails on its own.                                 *)
(***************************************************************************)
EXTENDS Sessions, Sequences

CONSTANTS
  AnnouncementIds,    \* announcements.id
  Viewers,            \* users who read announcements
  FileIds,            \* uploaded files: the object path and the attachment row share one
  LastMoment,         \* bound on the clock
  AnnouncementModes   \* whether requests overlap, the operations of a run, what exists,
                      \* what is edited

AnnouncementServices == {"schedule", "seen", "files", "failures"}
ASSUME LastMomentIsNat == LastMoment \in Nat
ASSUME AnnouncementModesAreTyped ==
  AnnouncementModes \subseteq
    [serial: BOOLEAN, ops: SUBSET AnnouncementServices, there: SUBSET AnnouncementIds,
     edited: SUBSET AnnouncementIds]

VARIABLES
  announcementMode,     \* one of AnnouncementModes, fixed at the start
  announcement,         \* announcements, or None
  seenAt,               \* announcement_reads: when a viewer saw an announcement, or None
  answeredSeen,         \* seen_at in the last answer to mark-seen of a viewer, or None
  attachment,           \* announcement_attachments: the announcement of a file, or None
  objects,              \* files in the storage
  moment,               \* utcnow
  troubled,             \* a storage call failed or a request broke off
  announcementSession   \* what a worker is about to do, or None

announcementVars == <<announcementMode, announcement, seenAt, answeredSeen, attachment, objects,
                      moment, troubled, announcementSession>>
fileVars == <<attachment, objects, troubled>>
seenVars == <<seenAt, answeredSeen>>

Moments == 0..LastMoment
AnnouncementRow == [active: BOOLEAN, published: Moments, expires: Maybe(Moments)]
ASSUME NoneIsNoAnnouncement == None \notin AnnouncementIds /\ None \notin AnnouncementRow

ServeAnnouncement(w, s) ==
  /\ MayServe(announcementSession, w, announcementMode.serial)
  /\ announcementSession' = [announcementSession EXCEPT ![w] = s]

Known == {a \in AnnouncementIds : announcement[a] # None}

-----------------------------------------------------------------------------
(* Schedule                                                                *)

(* _validate_schedule, of the values of one payload.                       *)
Scheduled(row) == row.expires # None => row.expires > row.published

(* create_announcement, and update_announcement, which sets every column.  *)
SaveAnnouncement(w) ==
  \E a \in announcementMode.edited, row \in AnnouncementRow :
    /\ Scheduled(row)
    /\ ServeAnnouncement(w, [kind |-> "save", id |-> a, loaded |-> announcement[a], new |-> row])
    /\ UNCHANGED <<announcementMode, announcement, seenVars, fileVars, moment>>

(* deactivate_announcement                                                 *)
Deactivate(w) ==
  \E a \in Known :
    /\ announcement[a].active
    /\ ServeAnnouncement(w, [kind |-> "save", id |-> a, loaded |-> announcement[a],
                             new |-> [announcement[a] EXCEPT !.active = FALSE]])
    /\ UNCHANGED <<announcementMode, announcement, seenVars, fileVars, moment>>

CommitAnnouncement(w) ==
  LET x == announcementSession[w] IN
  /\ x # None /\ x.kind = "save"
  /\ announcement' = [announcement EXCEPT ![x.id] =
                        IF x.loaded = None THEN x.new ELSE Flushed(@, x.loaded, x.new)]
  /\ announcementSession' = [announcementSession EXCEPT ![w] = None]
  /\ UNCHANGED <<announcementMode, seenVars, fileVars, moment>>

(* _build_visible_conditions: what lists and details show.                 *)
InFeed(a) ==
  /\ announcement[a] # None
  /\ announcement[a].active
  /\ announcement[a].published <= moment
  /\ announcement[a].expires # None => announcement[a].expires > moment

(* _is_currently_visible: what the answers say of it.                      *)
FlaggedVisible(a) ==
  ~ \/ ~announcement[a].active
    \/ announcement[a].published > moment
    \/ announcement[a].expires # None /\ announcement[a].expires <= moment

TimePasses ==
  /\ moment < LastMoment
  /\ moment' = moment + 1
  /\ UNCHANGED <<announcementMode, announcement, seenVars, fileVars, announcementSession>>

-----------------------------------------------------------------------------
(* mark_seen                                                               *)

MarkSeen(w) ==
  \E a \in AnnouncementIds, u \in Viewers :
    /\ InFeed(a)
    /\ IF seenAt[a][u] # None
       THEN /\ MayServe(announcementSession, w, announcementMode.serial)
            /\ answeredSeen' = [answeredSeen EXCEPT ![u] = [id |-> a, at |-> seenAt[a][u]]]
            /\ UNCHANGED announcementSession
       ELSE /\ ServeAnnouncement(w, [kind |-> "seen", id |-> a, viewer |-> u, at |-> moment])
            /\ UNCHANGED answeredSeen
    /\ UNCHANGED <<announcementMode, announcement, seenAt, fileVars, moment>>

(* Mutant: the answer is the row that was not inserted.                    *)
OwnRow(stored, own) == own

(* The unique constraint refuses a second row; the first one is answered.  *)
FirstRow(stored, own) == IF stored = None THEN own ELSE stored

CommitSeen(w) ==
  LET x == announcementSession[w]
      row == FirstRow(seenAt[x.id][x.viewer], x.at)
  IN
  /\ x # None /\ x.kind = "seen"
  /\ seenAt' = [seenAt EXCEPT ![x.id][x.viewer] = IF @ = None THEN x.at ELSE @]
  /\ answeredSeen' = [answeredSeen EXCEPT ![x.viewer] = [id |-> x.id, at |-> row]]
  /\ announcementSession' = [announcementSession EXCEPT ![w] = None]
  /\ UNCHANGED <<announcementMode, announcement, fileVars, moment>>

-----------------------------------------------------------------------------
(* Attachments                                                             *)

(* The path of a stored file holds a fresh UUID: no file in use is new.    *)
InUse(x) == IF x = None THEN {} ELSE
            CASE x.kind \in {"upload", "cleanup"} -> x.stored \cup x.rest
              [] x.kind = "remove" -> {x.file}
              [] OTHER -> {}
NewFiles == {f \in FileIds : f \notin objects /\ attachment[f] = None
                              /\ \A w \in Workers : f \notin InUse(announcementSession[w])}

(* add_announcement_attachments: the files are stored one by one ...       *)
BeginUpload(w) ==
  \E a \in AnnouncementIds, files \in (SUBSET NewFiles) \ {{}} :
    /\ ServeAnnouncement(w, [kind |-> "upload", id |-> a, stored |-> {}, rest |-> files])
    /\ UNCHANGED <<announcementMode, announcement, seenVars, fileVars, moment>>

(* ... and if one is refused, or the announcement does not exist, those    *)
(* that were stored are removed.                                           *)
CleansUp(x) == [x EXCEPT !.kind = "cleanup"]

StoreUpload(w) ==
  LET x == announcementSession[w] IN
  /\ x # None /\ x.kind = "upload" /\ x.rest # {}
  /\ \E f \in x.rest :
       \/ /\ objects' = objects \cup {f}
          /\ announcementSession' = [announcementSession EXCEPT ![w] =
                                       [x EXCEPT !.stored = @ \cup {f}, !.rest = @ \ {f}]]
          /\ UNCHANGED troubled
       \/ \* a file that is empty, too large or of an unknown type
          /\ announcementSession' = [announcementSession EXCEPT ![w] = CleansUp(x)]
          /\ UNCHANGED <<objects, troubled>>
       \/ \* the answer of the storage is an error or is lost
          /\ "failures" \in announcementMode.ops
          /\ objects' \in {objects, objects \cup {f}}
          /\ troubled' = TRUE
          /\ announcementSession' = [announcementSession EXCEPT ![w] = CleansUp(x)]
  /\ UNCHANGED <<announcementMode, announcement, seenVars, attachment, moment>>

(* add_attachments                                                         *)
AddAttachments(w) ==
  LET x == announcementSession[w] IN
  /\ x # None /\ x.kind = "upload" /\ x.rest = {}
  /\ IF x.id \in Known
     THEN /\ attachment' = [f \in FileIds |-> IF f \in x.stored THEN x.id ELSE attachment[f]]
          /\ announcementSession' = [announcementSession EXCEPT ![w] = None]
     ELSE /\ announcementSession' = [announcementSession EXCEPT ![w] = CleansUp(x)]
          /\ UNCHANGED attachment
  /\ UNCHANGED <<announcementMode, announcement, seenVars, objects, troubled, moment>>

(* _cleanup_uploaded_announcement_files, which goes on after an error.     *)
CleanUp(w) ==
  LET x == announcementSession[w] IN
  /\ x # None /\ x.kind = "cleanup"
  /\ IF x.stored = {}
     THEN /\ announcementSession' = [announcementSession EXCEPT ![w] = None]
          /\ UNCHANGED <<objects, troubled>>
     ELSE \E f \in x.stored :
          /\ announcementSession' = [announcementSession EXCEPT ![w].stored = @ \ {f}]
          /\ \/ objects' = objects \ {f} /\ UNCHANGED troubled
             \/ "failures" \in announcementMode.ops /\ troubled' = TRUE /\ UNCHANGED objects
  /\ UNCHANGED <<announcementMode, announcement, seenVars, attachment, moment>>

UploadRequest == [kind: {"upload", "cleanup"}, id: AnnouncementIds,
                  stored: SUBSET FileIds, rest: SUBSET FileIds]
RemovalRequest == [kind: {"remove"}, file: FileIds, steps: Seq({"row", "file"})]
ASSUME NoneIsNoRequest == None \notin UploadRequest /\ None \notin RemovalRequest

(* Mutant: the file goes before the row.                                   *)
FileFirst == <<"file", "row">>

(* delete_announcement_attachment: remove_attachment commits, then the     *)
(* object is deleted.                                                      *)
RemovalOrder == <<"row", "file">>

BeginRemoval(w) ==
  \E f \in FileIds :
    /\ attachment[f] # None
    /\ ServeAnnouncement(w, [kind |-> "remove", file |-> f, steps |-> RemovalOrder])
    /\ UNCHANGED <<announcementMode, announcement, seenVars, fileVars, moment>>

(* A file that is gone already is an error of the storage, and answered as *)
(* one.                                                                    *)
RemovalStep(w) ==
  LET x == announcementSession[w] IN
  /\ x # None /\ x.kind = "remove" /\ x.steps # <<>>
  /\ \/ /\ Head(x.steps) = "row"
        /\ attachment' = [attachment EXCEPT ![x.file] = None]
        /\ UNCHANGED <<objects, troubled>>
     \/ /\ Head(x.steps) = "file"
        /\ \/ objects' = objects \ {x.file} /\ UNCHANGED troubled
           \/ "failures" \in announcementMode.ops /\ troubled' = TRUE /\ UNCHANGED objects
        /\ UNCHANGED attachment
  /\ announcementSession' = [announcementSession EXCEPT ![w] =
                               IF Len(x.steps) = 1 THEN None ELSE [x EXCEPT !.steps = Tail(@)]]
  /\ UNCHANGED <<announcementMode, announcement, seenVars, moment>>

(* The process, or the connection to the database, fails.                  *)
RequestBreaksOff(w) ==
  /\ announcementSession[w] # None
  /\ announcementSession' = [announcementSession EXCEPT ![w] = None]
  /\ troubled' = TRUE
  /\ UNCHANGED <<announcementMode, announcement, seenVars, attachment, objects, moment>>

-----------------------------------------------------------------------------
AnnouncementInit ==
  /\ announcementMode \in AnnouncementModes
  /\ announcement = [a \in AnnouncementIds |->
                       IF a \in announcementMode.there
                       THEN [active |-> TRUE, published |-> 0, expires |-> None] ELSE None]
  /\ seenAt = [a \in AnnouncementIds |-> [u \in Viewers |-> None]]
  /\ answeredSeen = [u \in Viewers |-> None]
  /\ attachment = [f \in FileIds |-> None]
  /\ objects = {}
  /\ moment = 0
  /\ troubled = FALSE
  /\ announcementSession = [w \in Workers |-> None]

AnnouncementNext ==
  \/ \E w \in Workers :
       \/ "schedule" \in announcementMode.ops /\ (SaveAnnouncement(w) \/ Deactivate(w))
       \/ "seen" \in announcementMode.ops /\ MarkSeen(w)
       \/ "files" \in announcementMode.ops /\ (BeginUpload(w) \/ BeginRemoval(w))
       \/ CommitAnnouncement(w) \/ CommitSeen(w)
       \/ StoreUpload(w) \/ AddAttachments(w) \/ CleanUp(w) \/ RemovalStep(w)
       \/ "failures" \in announcementMode.ops /\ RequestBreaksOff(w)
  \/ announcementMode.ops \cap {"schedule", "seen"} # {} /\ TimePasses

AnnouncementSpec == AnnouncementInit /\ [][AnnouncementNext]_announcementVars

-----------------------------------------------------------------------------
AnnouncementTypeOK ==
  /\ announcementMode \in AnnouncementModes
  /\ announcement \in [AnnouncementIds -> Maybe(AnnouncementRow)]
  /\ seenAt \in [AnnouncementIds -> [Viewers -> Maybe(Moments)]]
  /\ attachment \in [FileIds -> Maybe(AnnouncementIds)]
  /\ objects \subseteq FileIds /\ moment \in Moments /\ troubled \in BOOLEAN

(* Without overlapping edits an announcement that expires is visible for a *)
(* while; the columns of two overlapping PUTs may mix to one that never    *)
(* is.                                                                     *)
NeverVoid ==
  announcementMode.serial =>
    \A a \in Known : announcement[a].expires # None => announcement[a].published < announcement[a].expires

(* An announcement is in the feed when, and only when, the answers flag it *)
(* as visible: the query and _is_currently_visible agree at every moment.  *)
FeedIsFlagged == \A a \in Known : InFeed(a) <=> FlaggedVisible(a)

(* mark-seen is idempotent (docs/apps/announcements.md): whichever of two  *)
(* overlapping calls comes first, every answer names the one stored time.  *)
SeenAnswersAgree ==
  \A u \in Viewers : answeredSeen[u] # None =>
    /\ answeredSeen[u].id \in AnnouncementIds /\ answeredSeen[u].at # None
    /\ answeredSeen[u].at = seenAt[answeredSeen[u].id][u]

(* What edits are about to write is typed and replaces rows that are still *)
(* there; without overlap it was derived from the row it replaces.         *)
EditsFit ==
  \A w \in Workers : LET x == announcementSession[w] IN x # None =>
    /\ x.kind = "save" =>
         /\ x.id \in AnnouncementIds /\ x.loaded \in Maybe(AnnouncementRow) /\ x.new \in AnnouncementRow
         /\ x.loaded # None => announcement[x.id] # None
         /\ announcementMode.serial => x.loaded = announcement[x.id] /\ Scheduled(x.new)
    /\ x.kind = "seen" => x.id \in AnnouncementIds /\ x.viewer \in Viewers /\ x.at \in Moments

(* The feed and what viewers have seen of it.                              *)
FeedInv ==
  /\ AnnouncementTypeOK
  /\ EditsFit
  /\ NeverVoid
  /\ FeedIsFlagged
  /\ SeenAnswersAgree

(* Whatever overlaps, fails or breaks off, the file of an attachment that  *)
(* is listed can be opened.                                                *)
AttachmentsHaveFiles == \A f \in FileIds : attachment[f] # None => f \in objects

InHandOf(x, f) ==
  IF x = None THEN FALSE ELSE
  \/ x.kind \in {"upload", "cleanup"} /\ f \in x.stored
  \/ x.kind = "remove" /\ f = x.file

(* While the storage answers and requests are completed, a file that no    *)
(* attachment names belongs to a request that is still at work.            *)
NoFileLeftBehind ==
  ~troubled =>
    \A f \in objects :
      attachment[f] # None \/ \E w \in Workers : InHandOf(announcementSession[w], f)

(* Files that requests are about to attach or to clean up are nobody       *)
(* else's and not attached yet, and a file only goes after its row.        *)
FilesInHand ==
  \A w \in Workers : LET x == announcementSession[w] IN x # None =>
    /\ x.kind \in {"upload", "cleanup"} =>
         \A f \in x.stored \cup x.rest :
           /\ attachment[f] = None
           /\ \A v \in Workers \ {w} : f \notin InUse(announcementSession[v])
    /\ x.kind = "upload" => x.stored \subseteq objects
    /\ x.kind = "remove" => x.steps \in {<<"row", "file">>, <<"file">>}
    /\ x.kind = "remove" /\ Head(x.steps) = "file" => attachment[x.file] = None

(* The table of attachments and the object storage describe each other.    *)
AttachmentInv ==
  /\ FilesInHand
  /\ AttachmentsHaveFiles
  /\ NoFileLeftBehind

=============================================================================
